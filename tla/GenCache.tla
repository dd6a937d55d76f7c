------------------------------ MODULE GenCache ------------------------------
(***************************************************************************)
(* The generation-guarded caches of a bot (internal/botmgr/botmgr.go) and  *)
(* the handlers that read through them and invalidate them                 *)
(* (internal/server/methods_bot_config.go): getMyCommands against          *)
(* setMyCommands and deleteMyCommands, and getMyName, getMyDescription,    *)
(* getMyShortDescription against their setters.  The two caches have the   *)
(* same protocol; one is modelled.                                         *)
(*                                                                         *)
(* A key is a (scope, language) or a language.  What Telegram stores under *)
(* a key is represented by the number of the write it stems from.  A write *)
(* may change other keys than its own (language fallback), which is why    *)
(* invalidation drops everything.  An RPC takes effect at the server at    *)
(* one moment between the call and the reply, and a reply may get lost.    *)
(***************************************************************************)
EXTENDS Integers

CONSTANTS
  Keys,        \* cache keys
  Readers,     \* handlers reading through the cache
  Writers,     \* handlers changing the value at the server
  MaxWrites    \* bound: writes the server applies

ASSUME CacheAssumption == MaxWrites \in Nat

VARIABLES
  cache,       \* cmdCache: key -> value, NoEntry when there is none
  gen,         \* cmdGen
  server,      \* what Telegram stores under each key
  writes,      \* number of writes the server applied
  rpc,         \* where each reader is
  rkey,        \* the key it asks for
  rgen,        \* the generation its lookup saw
  rval,        \* the value the server gave it
  wpc,         \* where each writer is
  wkeys,       \* the keys its write changed at the server
  acked,       \* history: each key's value when a setter of it last succeeded
  unannounced  \* history: keys changed since the cache was last dropped

vars == <<cache, gen, server, writes, rpc, rkey, rgen, rval, wpc, wkeys, acked, unannounced>>
readVars == <<rpc, rkey, rgen, rval>>
writeVars == <<server, writes, wpc, wkeys, acked, unannounced>>

NoEntry == -1
Values == 0..MaxWrites

TypeOK ==
  /\ cache \in [Keys -> Values \cup {NoEntry}]
  /\ gen \in Nat
  /\ server \in [Keys -> Values]
  /\ writes \in Values
  /\ rpc \in [Readers -> {"idle", "reading", "putting"}]
  /\ rkey \in [Readers -> Keys]
  /\ rgen \in [Readers -> Nat]
  /\ rval \in [Readers -> Values]
  /\ wpc \in [Writers -> {"idle", "applied"}]
  /\ wkeys \in [Writers -> SUBSET Keys]
  /\ acked \in [Keys -> Values]
  /\ unannounced \subseteq Keys

Init ==
  /\ cache = [k \in Keys |-> NoEntry]
  /\ gen = 0
  /\ server = [k \in Keys |-> 0]
  /\ writes = 0
  /\ rpc = [r \in Readers |-> "idle"]
  /\ rkey \in [Readers -> Keys]
  /\ rgen = [r \in Readers |-> 0]
  /\ rval = [r \in Readers |-> 0]
  /\ wpc = [w \in Writers |-> "idle"]
  /\ wkeys = [w \in Writers |-> {}]
  /\ acked = [k \in Keys |-> 0]
  /\ unannounced = {}

-----------------------------------------------------------------------------
(* A reader.  A hit answers from the cache and changes nothing; a miss     *)
(* remembers the generation the lookup saw.                                *)
Miss(r, k) ==
  /\ rpc[r] = "idle"
  /\ cache[k] = NoEntry
  /\ rpc' = [rpc EXCEPT ![r] = "reading"]
  /\ rkey' = [rkey EXCEPT ![r] = k]
  /\ rgen' = [rgen EXCEPT ![r] = gen]
  /\ UNCHANGED <<cache, gen, rval, writeVars>>

(* The server answers the get RPC.                                         *)
Read(r) ==
  /\ rpc[r] = "reading"
  /\ rval' = [rval EXCEPT ![r] = server[rkey[r]]]
  /\ rpc' = [rpc EXCEPT ![r] = "putting"]
  /\ UNCHANGED <<cache, gen, rkey, rgen, writeVars>>

(* The scope does not parse, or the RPC fails, before or after the read.   *)
ReadFails(r) ==
  /\ rpc[r] \in {"reading", "putting"}
  /\ rpc' = [rpc EXCEPT ![r] = "idle"]
  /\ UNCHANGED <<cache, gen, rkey, rgen, rval, writeVars>>

Put_Unguarded(r) ==
  /\ rpc[r] = "putting"
  /\ cache' = [cache EXCEPT ![rkey[r]] = rval[r]]
  /\ rpc' = [rpc EXCEPT ![r] = "idle"]
  /\ UNCHANGED <<gen, rkey, rgen, rval, writeVars>>

(* CommandCachePut, and the response.                                      *)
Put(r) ==
  /\ rpc[r] = "putting"
  /\ IF rgen[r] = gen
       THEN cache' = [cache EXCEPT ![rkey[r]] = rval[r]]
       ELSE UNCHANGED cache
  /\ rpc' = [rpc EXCEPT ![r] = "idle"]
  /\ UNCHANGED <<gen, rkey, rgen, rval, writeVars>>

-----------------------------------------------------------------------------
(* A writer.  The server applies the write, or refuses it (nothing         *)
(* changes); the reply comes back, or the client sees an error.            *)
Apply(w, S) ==
  /\ wpc[w] = "idle"
  /\ writes < MaxWrites
  /\ writes' = writes + 1
  /\ server' = [k \in Keys |-> IF k \in S THEN writes + 1 ELSE server[k]]
  /\ unannounced' = unannounced \cup S
  /\ wpc' = [wpc EXCEPT ![w] = "applied"]
  /\ wkeys' = [wkeys EXCEPT ![w] = S]
  /\ UNCHANGED <<cache, gen, acked, readVars>>

Announced(w) == [k \in Keys |-> IF k \in wkeys[w] THEN server[k] ELSE acked[k]]

Invalidate_OnlyOneKey(w) ==
  /\ wpc[w] = "applied"
  /\ \E k \in wkeys[w] : cache' = [cache EXCEPT ![k] = NoEntry]
  /\ gen' = gen + 1
  /\ acked' = Announced(w)
  /\ unannounced' = {}
  /\ wpc' = [wpc EXCEPT ![w] = "idle"]
  /\ UNCHANGED <<server, writes, wkeys, readVars>>

(* CommandCacheInvalidate, and the call returns true.                      *)
Invalidate(w) ==
  /\ wpc[w] = "applied"
  /\ cache' = [k \in Keys |-> NoEntry]
  /\ gen' = gen + 1
  /\ acked' = Announced(w)
  /\ unannounced' = {}
  /\ wpc' = [wpc EXCEPT ![w] = "idle"]
  /\ UNCHANGED <<server, writes, wkeys, readVars>>

(* The write took effect but its reply is lost: nothing is invalidated.    *)
ReplyLost(w) ==
  /\ wpc[w] = "applied"
  /\ wpc' = [wpc EXCEPT ![w] = "idle"]
  /\ UNCHANGED <<cache, gen, server, writes, wkeys, acked, unannounced, readVars>>

Next ==
  \/ \E r \in Readers :
       \/ \E k \in Keys : Miss(r, k)
       \/ Read(r)
       \/ ReadFails(r)
       \/ Put(r)
  \/ \E w \in Writers :
       \/ \E S \in SUBSET Keys \ {{}} : Apply(w, S)
       \/ Invalidate(w)
       \/ ReplyLost(w)

Spec == Init /\ [][Next]_vars

-----------------------------------------------------------------------------
(***************************************************************************)
(* "Each cache uses a generation counter for race-free invalidation"       *)
(* (README.md:72): once a setter has returned true, no later get is        *)
(* answered from the cache with an older value, whichever reads, puts and  *)
(* other writes it raced with.                                             *)
(***************************************************************************)
AckedIsVisible ==
  \A k \in Keys : cache[k] # NoEntry => cache[k] >= acked[k]

(***************************************************************************)
(* The only staleness there is: a cached value differs from the server's   *)
(* only while a write to its key has taken effect and no setter has        *)
(* dropped the cache since (one is about to, or its reply was lost).       *)
(***************************************************************************)
StaleOnlyUnannounced ==
  \A k \in Keys : cache[k] # NoEntry /\ k \notin unannounced => cache[k] = server[k]
=============================================================================
