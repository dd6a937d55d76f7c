-------------------------- MODULE GenCache_proofs --------------------------
(***************************************************************************)
(* The caches are never stale beyond what GenCache allows, for any number  *)
(* of keys, handlers and writes.  The argument is about the reads under    *)
(* way: one that will still be allowed to put looked up after the last     *)
(* invalidation, so its value is no older than anything reported before.   *)
(***************************************************************************)
EXTENDS GenCache, TLAPS

(* A read whose put will pass the generation check.                        *)
Fresh(r) ==
  rpc[r] = "putting" /\ rgen[r] = gen =>
    /\ rval[r] >= acked[rkey[r]]
    /\ rkey[r] \notin unannounced => rval[r] = server[rkey[r]]

CacheInv ==
  /\ TypeOK
  /\ \A r \in Readers : rgen[r] <= gen /\ Fresh(r)
  /\ \A k \in Keys : acked[k] <= server[k] /\ server[k] <= writes
  /\ AckedIsVisible
  /\ StaleOnlyUnannounced

LEMMA CacheInitInv == Init => CacheInv
BY CacheAssumption DEF Init, CacheInv, TypeOK, Fresh, AckedIsVisible, StaleOnlyUnannounced,
   Values, NoEntry

LEMMA CacheTyped ==
  ASSUME CacheInv
  PROVE  /\ TypeOK /\ gen \in Nat /\ writes \in Nat /\ MaxWrites \in Nat
         /\ \A k \in Keys : /\ server[k] \in Nat /\ acked[k] \in Nat
                            /\ cache[k] \in Nat \cup {NoEntry}
         /\ \A r \in Readers : rkey[r] \in Keys /\ rgen[r] \in Nat /\ rval[r] \in Nat
BY CacheAssumption DEF CacheInv, TypeOK, Values

LEMMA MissKeeps ==
  ASSUME CacheInv, NEW r \in Readers, NEW k \in Keys, Miss(r, k)
  PROVE  CacheInv'
<1>1. TypeOK'
  BY CacheTyped DEF Miss, TypeOK, writeVars
<1>2. (\A q \in Readers : rgen[q] <= gen /\ Fresh(q))'
  BY CacheTyped DEF Miss, CacheInv, TypeOK, Fresh, writeVars
<1>3. (\A j \in Keys : acked[j] <= server[j] /\ server[j] <= writes)'
      /\ AckedIsVisible' /\ StaleOnlyUnannounced'
  BY DEF Miss, CacheInv, AckedIsVisible, StaleOnlyUnannounced, writeVars
<1> QED BY <1>1, <1>2, <1>3 DEF CacheInv

(* What the server gives is at least what was reported, and is current.    *)
LEMMA ReadKeeps ==
  ASSUME CacheInv, NEW r \in Readers, Read(r)
  PROVE  CacheInv'
<1>1. TypeOK'
  BY CacheTyped DEF Read, TypeOK, writeVars
<1>2. ASSUME NEW q \in Readers PROVE (rgen[q] <= gen /\ Fresh(q))'
  <2>1. rgen'[q] <= gen'
    BY DEF Read, CacheInv
  <2>2. CASE q = r
    <3>1. rval'[r] = server[rkey[r]] /\ rkey' = rkey
      BY DEF Read, TypeOK, CacheInv
    <3>2. server[rkey[r]] >= acked[rkey[r]]
      BY CacheTyped DEF CacheInv
    <3> QED BY <2>1, <2>2, <3>1, <3>2 DEF Read, Fresh, writeVars
  <2>3. CASE q # r
    BY <2>1, <2>3 DEF Read, CacheInv, TypeOK, Fresh, writeVars
  <2> QED BY <2>2, <2>3
<1>3. (\A j \in Keys : acked[j] <= server[j] /\ server[j] <= writes)'
      /\ AckedIsVisible' /\ StaleOnlyUnannounced'
  BY DEF Read, CacheInv, AckedIsVisible, StaleOnlyUnannounced, writeVars
<1> QED BY <1>1, <1>2, <1>3 DEF CacheInv

LEMMA ReadFailsKeeps ==
  ASSUME CacheInv, NEW r \in Readers, ReadFails(r)
  PROVE  CacheInv'
<1>1. TypeOK'
  BY DEF ReadFails, CacheInv, TypeOK, writeVars
<1>2. (\A q \in Readers : rgen[q] <= gen /\ Fresh(q))'
  BY DEF ReadFails, CacheInv, TypeOK, Fresh, writeVars
<1>3. (\A j \in Keys : acked[j] <= server[j] /\ server[j] <= writes)'
      /\ AckedIsVisible' /\ StaleOnlyUnannounced'
  BY DEF ReadFails, CacheInv, AckedIsVisible, StaleOnlyUnannounced, writeVars
<1> QED BY <1>1, <1>2, <1>3 DEF CacheInv

LEMMA PutKeeps ==
  ASSUME CacheInv, NEW r \in Readers, Put(r)
  PROVE  CacheInv'
<1>1. TypeOK'
  BY DEF Put, CacheInv, TypeOK, writeVars
<1>2. (\A q \in Readers : rgen[q] <= gen /\ Fresh(q))'
  BY DEF Put, CacheInv, TypeOK, Fresh, writeVars
<1>3. (\A j \in Keys : acked[j] <= server[j] /\ server[j] <= writes)'
  BY DEF Put, CacheInv, writeVars
<1>4. ASSUME NEW k \in Keys, cache'[k] # NoEntry
      PROVE  cache'[k] >= acked[k] /\ (k \notin unannounced => cache'[k] = server[k])
  <2>1. CASE rgen[r] = gen /\ k = rkey[r]
    <3>1. cache'[k] = rval[r]
      BY <2>1 DEF Put, CacheInv, TypeOK
    <3>2. Fresh(r) /\ rpc[r] = "putting"
      BY DEF CacheInv, Put
    <3> QED BY <2>1, <3>1, <3>2 DEF Fresh
  <2>2. CASE ~(rgen[r] = gen /\ k = rkey[r])
    <3>1. cache'[k] = cache[k]
      BY <2>2 DEF Put, CacheInv, TypeOK
    <3> QED BY <1>4, <3>1 DEF CacheInv, AckedIsVisible, StaleOnlyUnannounced
  <2> QED BY <2>1, <2>2
<1>5. AckedIsVisible' /\ StaleOnlyUnannounced'
  BY <1>4 DEF AckedIsVisible, StaleOnlyUnannounced, Put, writeVars
<1> QED BY <1>1, <1>2, <1>3, <1>5 DEF CacheInv

(* A write makes its keys unannounced, so nothing is claimed about them.   *)
LEMMA ApplyKeeps ==
  ASSUME CacheInv, NEW w \in Writers, NEW S \in SUBSET Keys, Apply(w, S)
  PROVE  CacheInv'
<1>1. /\ writes' = writes + 1 /\ writes < MaxWrites
      /\ server' = [k \in Keys |-> IF k \in S THEN writes + 1 ELSE server[k]]
      /\ unannounced' = unannounced \cup S
      /\ UNCHANGED <<cache, gen, acked, readVars>>
  BY DEF Apply
<1>2. writes' \in Values /\ \A k \in Keys : server'[k] \in Values
  BY <1>1, CacheTyped DEF TypeOK, Values
<1>3. TypeOK'
  BY <1>1, <1>2, CacheTyped DEF Apply, TypeOK, readVars
<1>4. ASSUME NEW k \in Keys PROVE acked'[k] <= server'[k] /\ server'[k] <= writes'
  <2>1. acked[k] <= server[k] /\ server[k] <= writes
    BY DEF CacheInv
  <2> QED BY <1>1, <2>1, CacheTyped
<1>5. ASSUME NEW q \in Readers PROVE (rgen[q] <= gen /\ Fresh(q))'
  <2>1. rgen[q] <= gen /\ Fresh(q) /\ rkey[q] \in Keys
    BY CacheTyped DEF CacheInv
  <2> QED BY <1>1, <2>1 DEF Fresh, readVars
<1>6. AckedIsVisible' /\ StaleOnlyUnannounced'
  BY <1>1 DEF CacheInv, AckedIsVisible, StaleOnlyUnannounced
<1> QED BY <1>3, <1>4, <1>5, <1>6 DEF CacheInv

(* An invalidation leaves no read under way that may still put.            *)
LEMMA InvalidateKeeps ==
  ASSUME CacheInv, NEW w \in Writers, Invalidate(w)
  PROVE  CacheInv'
<1>1. /\ cache' = [k \in Keys |-> NoEntry]
      /\ gen' = gen + 1
      /\ acked' = Announced(w)
      /\ unannounced' = {}
      /\ UNCHANGED <<server, writes, wkeys, readVars>>
  BY DEF Invalidate
<1>2. \A k \in Keys : acked'[k] \in Values /\ acked'[k] <= server[k]
  BY <1>1, CacheTyped DEF Announced, CacheInv, TypeOK
<1>3. TypeOK'
  BY <1>1, <1>2, CacheTyped DEF Invalidate, Announced, TypeOK, readVars
<1>4. ASSUME NEW q \in Readers PROVE (rgen[q] <= gen /\ Fresh(q))'
  <2>1. rgen[q] <= gen /\ rgen[q] \in Nat /\ gen \in Nat
    BY CacheTyped DEF CacheInv
  <2>2. rgen'[q] = rgen[q]
    BY <1>1 DEF readVars
  <2>3. rgen'[q] <= gen' /\ rgen'[q] # gen'
    BY <1>1, <2>1, <2>2
  <2> QED BY <2>3 DEF Fresh
<1>5. (\A k \in Keys : acked[k] <= server[k] /\ server[k] <= writes)'
  BY <1>1, <1>2 DEF CacheInv
<1>6. AckedIsVisible' /\ StaleOnlyUnannounced'
  BY <1>1 DEF AckedIsVisible, StaleOnlyUnannounced
<1> QED BY <1>3, <1>4, <1>5, <1>6 DEF CacheInv

LEMMA ReplyLostKeeps ==
  ASSUME CacheInv, NEW w \in Writers, ReplyLost(w)
  PROVE  CacheInv'
<1>1. TypeOK'
  BY DEF ReplyLost, CacheInv, TypeOK, readVars
<1>2. (\A q \in Readers : rgen[q] <= gen /\ Fresh(q))'
  BY DEF ReplyLost, CacheInv, Fresh, readVars
<1>3. (\A k \in Keys : acked[k] <= server[k] /\ server[k] <= writes)'
      /\ AckedIsVisible' /\ StaleOnlyUnannounced'
  BY DEF ReplyLost, CacheInv, AckedIsVisible, StaleOnlyUnannounced
<1> QED BY <1>1, <1>2, <1>3 DEF CacheInv

LEMMA CacheNextInv == CacheInv /\ [Next]_vars => CacheInv'
<1> SUFFICES ASSUME CacheInv, [Next]_vars PROVE CacheInv'
  OBVIOUS
<1>1. ASSUME NEW r \in Readers, NEW k \in Keys, Miss(r, k) PROVE CacheInv'
  BY <1>1, MissKeeps
<1>2. ASSUME NEW r \in Readers, Read(r) PROVE CacheInv'
  BY <1>2, ReadKeeps
<1>3. ASSUME NEW r \in Readers, ReadFails(r) PROVE CacheInv'
  BY <1>3, ReadFailsKeeps
<1>4. ASSUME NEW r \in Readers, Put(r) PROVE CacheInv'
  BY <1>4, PutKeeps
<1>5. ASSUME NEW w \in Writers, NEW S \in SUBSET Keys, Apply(w, S) PROVE CacheInv'
  BY <1>5, ApplyKeeps
<1>6. ASSUME NEW w \in Writers, Invalidate(w) PROVE CacheInv'
  BY <1>6, InvalidateKeeps
<1>7. ASSUME NEW w \in Writers, ReplyLost(w) PROVE CacheInv'
  BY <1>7, ReplyLostKeeps
<1>8. CASE UNCHANGED vars
  BY <1>8 DEF vars, CacheInv, TypeOK, Fresh, AckedIsVisible, StaleOnlyUnannounced
<1> QED BY <1>1, <1>2, <1>3, <1>4, <1>5, <1>6, <1>7, <1>8 DEF Next

(***************************************************************************)
(* No get is answered from the cache with a value older than a setter that *)
(* has returned.                                                           *)
(***************************************************************************)
THEOREM CacheShowsAcked == Spec => [](TypeOK /\ AckedIsVisible)
<1>1. CacheInv => TypeOK /\ AckedIsVisible
  BY DEF CacheInv
<1> QED BY <1>1, CacheInitInv, CacheNextInv, PTL DEF Spec

(***************************************************************************)
(* A cached value differs from the server's only between a write's effect  *)
(* and the next invalidation.                                              *)
(***************************************************************************)
THEOREM CacheStaleOnlyMeanwhile == Spec => []StaleOnlyUnannounced
<1>1. CacheInv => StaleOnlyUnannounced
  BY DEF CacheInv
<1> QED BY <1>1, CacheInitInv, CacheNextInv, PTL DEF Spec
=============================================================================
