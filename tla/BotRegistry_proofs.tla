------------------------- MODULE BotRegistry_proofs -------------------------
(***************************************************************************)
(* One build and one bot per token, for any number of requests, tokens and *)
(* failing builds.  Whoever is past Register for a token that has no bot   *)
(* yet is there with the mutex that m.init still holds for it (OneMutex);  *)
(* two builds for one token would hold the same mutex.  The second part is *)
(* about what builds leave behind.                                         *)
(***************************************************************************)
EXTENDS BotRegistry, TLAPS

(* The per-token mutexes exclude.                                          *)
MutexHeld ==
  \A g \in Getters : gpc[g] \in Locked => holder[gmutex[g]] = g

OneMutex ==
  down = "up" =>
    \A g \in Getters :
      gpc[g] \in {"acquire"} \cup Locked /\ bots[gtoken[g]] = None =>
        init[gtoken[g]] = gmutex[g]

RegistryInv == TypeOK /\ MutexHeld /\ OneMutex /\ OneBuild /\ OneBot

USE DEF Mutex, Token, Go, Answer, Leave, history

LEMMA RegistryInitInv == Init => RegistryInv
BY RegistryAssumption DEF Init, RegistryInv, TypeOK, MutexHeld, OneMutex, OneBuild, OneBot,
   Locked, Building

LEMMA TypeKeeps == ASSUME TypeOK, [Next]_vars PROVE TypeOK'
<1>1. ASSUME NEW g \in Getters, NEW t \in Tokens, Look(g, t) PROVE TypeOK'
  BY <1>1 DEF Look, TypeOK, Locked, Building
<1>2. ASSUME NEW g \in Getters, Register(g) PROVE TypeOK'
  BY <1>2 DEF Register, TypeOK, Locked, Building
<1>3. ASSUME NEW g \in Getters, Acquire(g) PROVE TypeOK'
  BY <1>3 DEF Acquire, TypeOK, Locked, Building
<1>4. ASSUME NEW g \in Getters, Recheck(g) PROVE TypeOK'
  BY <1>4 DEF Recheck, TypeOK, Locked, Building
<1>5. ASSUME NEW g \in Getters, Connect(g) PROVE TypeOK'
  BY <1>5 DEF Connect, TypeOK, Locked, Building
<1>6. ASSUME NEW g \in Getters, BuildFails(g) PROVE TypeOK'
  BY <1>6 DEF BuildFails, TypeOK, Locked, Building
<1>7. ASSUME NEW g \in Getters, Publish(g) PROVE TypeOK'
  BY <1>7 DEF Publish, TypeOK, Locked, Building
<1>8. ASSUME NEW g \in Getters, Unlock(g) PROVE TypeOK'
  BY <1>8 DEF Unlock, TypeOK, Locked, Building
<1>9. ASSUME NEW g \in Getters, Finish(g) PROVE TypeOK'
  BY <1>9 DEF Finish, TypeOK, Locked, Building
<1>10. CASE Shutdown
  BY <1>10 DEF Shutdown, TypeOK, callVars
<1>11. CASE StopClients
  BY <1>11 DEF StopClients, TypeOK, callVars
<1>12. CASE UNCHANGED vars
  BY <1>12 DEF vars, TypeOK, callVars
<1> QED BY <1>1, <1>2, <1>3, <1>4, <1>5, <1>6, <1>7, <1>8, <1>9, <1>10, <1>11, <1>12
        DEF Next, GetStep

(***************************************************************************)
(* A getter that moves from one place past Register to another keeps its   *)
(* mutex; what the step must not do is let a second one in.                *)
(***************************************************************************)
LEMMA LookKeeps ==
  ASSUME RegistryInv, TypeOK', NEW g \in Getters, NEW t \in Tokens, Look(g, t)
  PROVE  RegistryInv'
<1>1. MutexHeld' /\ OneMutex' /\ OneBuild'
  BY DEF Look, RegistryInv, TypeOK, MutexHeld, OneMutex, OneBuild, Locked, Building
<1>2. OneBot'
  BY DEF Look, RegistryInv, TypeOK, OneBot
<1> QED BY <1>1, <1>2 DEF RegistryInv

LEMMA RegisterKeeps ==
  ASSUME RegistryInv, TypeOK', NEW g \in Getters, Register(g)
  PROVE  RegistryInv'
<1>1. CASE bots[gtoken[g]] # None
  <2>1. MutexHeld' /\ OneMutex' /\ OneBuild'
    BY <1>1 DEF Register, RegistryInv, TypeOK, MutexHeld, OneMutex, OneBuild, Locked, Building
  <2>2. OneBot'
    BY <1>1 DEF Register, RegistryInv, TypeOK, OneBot
  <2> QED BY <2>1, <2>2 DEF RegistryInv
<1>2. CASE bots[gtoken[g]] = None
  <2>1. PICK m \in Mutexes :
          /\ m = init[gtoken[g]] \/ init[gtoken[g]] = None
          /\ init' = [init EXCEPT ![gtoken[g]] = m]
          /\ gmutex' = [gmutex EXCEPT ![g] = m]
    BY <1>2 DEF Register
  <2>2. /\ gpc' = [gpc EXCEPT ![g] = "acquire"] /\ gpc[g] = "register"
        /\ UNCHANGED <<bots, holder, gtoken, gbot, down>>
    BY <1>2 DEF Register
  <2>3. MutexHeld'
    BY <2>1, <2>2 DEF RegistryInv, TypeOK, MutexHeld, Locked, Building
  <2>4. OneMutex'
    <3> SUFFICES ASSUME down = "up", NEW h \in Getters,
                        gpc'[h] \in {"acquire"} \cup Locked, bots[gtoken[h]] = None
                 PROVE  init'[gtoken[h]] = gmutex'[h]
      BY <2>2 DEF OneMutex
    <3>1. CASE h = g
      BY <2>1, <3>1 DEF RegistryInv, TypeOK
    <3>2. CASE h # g
      <4>1. init[gtoken[h]] = gmutex[h] /\ gmutex[h] \in Mutexes /\ gmutex'[h] = gmutex[h]
        BY <2>1, <2>2, <3>2 DEF RegistryInv, TypeOK, OneMutex
      <4>2. gmutex[h] # None
        BY <4>1, RegistryAssumption
      <4>3. CASE gtoken[h] = gtoken[g]
        BY <2>1, <4>1, <4>2, <4>3 DEF RegistryInv, TypeOK
      <4>4. CASE gtoken[h] # gtoken[g]
        BY <2>1, <4>1, <4>4 DEF RegistryInv, TypeOK
      <4> QED BY <4>3, <4>4
    <3> QED BY <3>1, <3>2
  <2>5. OneBuild' /\ OneBot'
    BY <2>2 DEF RegistryInv, TypeOK, OneBuild, OneBot, Building
  <2> QED BY <2>3, <2>4, <2>5 DEF RegistryInv
<1> QED BY <1>1, <1>2

LEMMA AcquireKeeps ==
  ASSUME RegistryInv, TypeOK', NEW g \in Getters, Acquire(g)
  PROVE  RegistryInv'
<1>1. ASSUME NEW h \in Getters, gpc'[h] \in Locked PROVE holder'[gmutex[h]] = h
  <2>1. gmutex[g] \in Mutexes /\ holder[gmutex[g]] = None
    BY DEF Acquire, RegistryInv, TypeOK
  <2>2. CASE h = g
    BY <2>1, <2>2 DEF Acquire, RegistryInv, TypeOK
  <2>3. CASE h # g
    <3>1. holder[gmutex[h]] = h /\ h # None
      BY <1>1, <2>3, RegistryAssumption DEF Acquire, RegistryInv, TypeOK, MutexHeld
    <3> QED BY <2>1, <3>1 DEF Acquire, RegistryInv, TypeOK
  <2> QED BY <2>2, <2>3
<1>2. MutexHeld'
  BY <1>1 DEF MutexHeld, Acquire
<1>3. OneMutex' /\ OneBuild' /\ OneBot'
  BY DEF Acquire, RegistryInv, TypeOK, OneMutex, OneBuild, OneBot, Locked, Building
<1> QED BY <1>2, <1>3 DEF RegistryInv

LEMMA RecheckKeeps ==
  ASSUME RegistryInv, TypeOK', NEW g \in Getters, Recheck(g)
  PROVE  RegistryInv'
<1>1. MutexHeld' /\ OneMutex'
  BY DEF Recheck, RegistryInv, TypeOK, MutexHeld, OneMutex, Locked, Building
<1>2. OneBot'
  BY DEF Recheck, RegistryInv, TypeOK, OneBot
<1>3. OneBuild'
  <2>1. CASE bots[gtoken[g]] # None
    BY <2>1 DEF Recheck, RegistryInv, TypeOK, OneBuild, Building
  <2>2. CASE bots[gtoken[g]] = None
    <3>1. ASSUME down = "up", NEW h \in Getters \ {g}, gpc[h] \in Building
          PROVE  gtoken[h] # gtoken[g]
      <4> SUFFICES ASSUME gtoken[h] = gtoken[g] PROVE FALSE
        OBVIOUS
      <4>1. gpc[g] \in Locked /\ gpc[h] \in Locked
        BY <3>1 DEF Recheck, Locked
      <4>2. gmutex[h] = gmutex[g]
        BY <2>2, <3>1, <4>1 DEF RegistryInv, OneMutex
      <4> QED BY <3>1, <4>1, <4>2 DEF RegistryInv, MutexHeld
    <3>2. gpc' = [gpc EXCEPT ![g] = "building"] /\ UNCHANGED <<bots, gtoken, down>>
      BY <2>2 DEF Recheck
    <3> QED BY <2>2, <3>1, <3>2 DEF RegistryInv, TypeOK, OneBuild, Building
  <2> QED BY <2>1, <2>2
<1> QED BY <1>1, <1>2, <1>3 DEF RegistryInv

LEMMA BuildKeeps ==
  ASSUME RegistryInv, TypeOK', NEW g \in Getters, Connect(g) \/ BuildFails(g)
  PROVE  RegistryInv'
<1>1. PICK c \in Clients \cup {None}, label \in {"connected", "failing"} :
        /\ gpc[g] \in Building
        /\ gpc' = [gpc EXCEPT ![g] = label]
        /\ gbot' = [gbot EXCEPT ![g] = c]
        /\ UNCHANGED <<bots, init, holder, gtoken, gmutex, down>>
  BY DEF Connect, BuildFails, Building
<1>2. MutexHeld' /\ OneMutex' /\ OneBuild'
  BY <1>1 DEF RegistryInv, TypeOK, MutexHeld, OneMutex, OneBuild, Locked, Building
<1>3. OneBot'
  BY <1>1 DEF RegistryInv, TypeOK, OneBot
<1> QED BY <1>2, <1>3 DEF RegistryInv

LEMMA PublishKeeps ==
  ASSUME RegistryInv, TypeOK', NEW g \in Getters, Publish(g)
  PROVE  RegistryInv'
<1>1. /\ gpc[g] = "connected" /\ gpc' = [gpc EXCEPT ![g] = "found"]
      /\ bots' = [bots EXCEPT ![gtoken[g]] = gbot[g]]
      /\ init' = [init EXCEPT ![gtoken[g]] = None]
      /\ UNCHANGED <<holder, gtoken, gmutex, gbot, down>>
  BY DEF Publish
<1>2. gbot[g] # None
  BY <1>1, RegistryAssumption DEF RegistryInv, TypeOK
<1>3. MutexHeld'
  BY <1>1 DEF RegistryInv, TypeOK, MutexHeld, Locked, Building
<1>4. OneMutex'
  <2> SUFFICES ASSUME down = "up", NEW h \in Getters,
                      gpc'[h] \in {"acquire"} \cup Locked, bots'[gtoken[h]] = None
               PROVE  init'[gtoken[h]] = gmutex[h]
    BY <1>1 DEF OneMutex
  <2>1. gtoken[h] # gtoken[g]
    BY <1>1, <1>2 DEF RegistryInv, TypeOK
  <2>2. gpc[h] \in {"acquire"} \cup Locked /\ bots[gtoken[h]] = None
    BY <1>1, <2>1 DEF RegistryInv, TypeOK
  <2> QED BY <1>1, <2>1, <2>2 DEF RegistryInv, TypeOK, OneMutex
<1>5. ASSUME down = "up", NEW h \in Getters \ {g}, gpc[h] \in Building
      PROVE  gtoken[h] # gtoken[g]
  BY <1>1, <1>5 DEF RegistryInv, OneBuild, Building
<1>6. OneBuild'
  BY <1>1, <1>5 DEF RegistryInv, TypeOK, OneBuild, Building
<1>7. OneBot'
  <2> SUFFICES ASSUME down = "up", NEW h \in Getters,
                      gpc'[h] \in {"found", "returned"}, gbot[h] # None
               PROVE  gbot[h] = bots'[gtoken[h]]
    BY <1>1 DEF OneBot
  <2>1. CASE h = g
    BY <1>1, <2>1 DEF RegistryInv, TypeOK
  <2>2. CASE h # g
    <3>1. gbot[h] = bots[gtoken[h]]
      BY <1>1, <2>2 DEF RegistryInv, TypeOK, OneBot
    <3>2. bots[gtoken[g]] = None
      BY <1>1 DEF RegistryInv, OneBuild, Building
    <3>3. gtoken[h] # gtoken[g]
      BY <3>1, <3>2
    <3> QED BY <1>1, <3>1, <3>3 DEF RegistryInv, TypeOK
  <2> QED BY <2>1, <2>2
<1> QED BY <1>3, <1>4, <1>6, <1>7 DEF RegistryInv

LEMMA UnlockKeeps ==
  ASSUME RegistryInv, TypeOK', NEW g \in Getters, Unlock(g)
  PROVE  RegistryInv'
<1>1. ASSUME NEW h \in Getters, gpc'[h] \in Locked PROVE holder'[gmutex'[h]] = h
  <2>1. h # g /\ gpc[h] \in Locked /\ gpc[g] \in Locked
    BY <1>1 DEF Unlock, RegistryInv, TypeOK, Locked, Building
  <2>2. holder[gmutex[h]] = h /\ holder[gmutex[g]] = g
    BY <2>1 DEF RegistryInv, MutexHeld
  <2> QED BY <2>1, <2>2 DEF Unlock, RegistryInv, TypeOK
<1>2. MutexHeld'
  BY <1>1 DEF MutexHeld
<1>3. OneMutex' /\ OneBuild'
  BY DEF Unlock, RegistryInv, TypeOK, OneMutex, OneBuild, Locked, Building
<1>4. OneBot'
  BY DEF Unlock, RegistryInv, TypeOK, OneBot
<1> QED BY <1>2, <1>3, <1>4 DEF RegistryInv

LEMMA FinishKeeps ==
  ASSUME RegistryInv, TypeOK', NEW g \in Getters, Finish(g)
  PROVE  RegistryInv'
BY DEF Finish, RegistryInv, TypeOK, MutexHeld, OneMutex, OneBuild, OneBot, Locked, Building

LEMMA StopKeeps ==
  ASSUME RegistryInv, TypeOK', Shutdown \/ StopClients \/ UNCHANGED vars
  PROVE  RegistryInv'
<1>1. CASE Shutdown \/ StopClients
  BY <1>1 DEF Shutdown, StopClients, callVars, RegistryInv, MutexHeld, OneMutex, OneBuild, OneBot
<1>2. CASE UNCHANGED vars
  BY <1>2 DEF vars, callVars, RegistryInv, MutexHeld, OneMutex, OneBuild, OneBot
<1> QED BY <1>1, <1>2

LEMMA RegistryNextInv == RegistryInv /\ [Next]_vars => RegistryInv'
<1> SUFFICES ASSUME RegistryInv, [Next]_vars PROVE RegistryInv'
  OBVIOUS
<1>1. TypeOK'
  BY TypeKeeps DEF RegistryInv
<1>2. ASSUME NEW g \in Getters, NEW t \in Tokens, Look(g, t) PROVE RegistryInv'
  BY <1>1, <1>2, LookKeeps
<1>3. ASSUME NEW g \in Getters, GetStep(g) PROVE RegistryInv'
  BY <1>1, <1>3, RegisterKeeps, AcquireKeeps, RecheckKeeps, BuildKeeps, PublishKeeps,
     UnlockKeeps, FinishKeeps DEF GetStep
<1>4. CASE Shutdown \/ StopClients \/ UNCHANGED vars
  BY <1>1, <1>4, StopKeeps
<1> QED BY <1>2, <1>3, <1>4 DEF Next

(***************************************************************************)
(* While the server is up, no two goroutines build a token's bot at once,  *)
(* and none builds one that exists.                                        *)
(***************************************************************************)
THEOREM RegistryBuildsOnce == Safety => [](TypeOK /\ OneBuild)
<1>1. RegistryInv => TypeOK /\ OneBuild
  BY DEF RegistryInv
<1> QED BY <1>1, RegistryInitInv, RegistryNextInv, PTL DEF Safety

(***************************************************************************)
(* While the server is up, all requests for a token get one bot.           *)
(***************************************************************************)
THEOREM RegistryHasOneBot == Safety => []OneBot
<1>1. RegistryInv => OneBot
  BY DEF RegistryInv
<1> QED BY <1>1, RegistryInitInv, RegistryNextInv, PTL DEF Safety

-----------------------------------------------------------------------------
(***************************************************************************)
(* What builds leave behind.  A connection without a build or a bot is     *)
(* waiting for Shutdown to stop it, or came after Shutdown had emptied the *)
(* maps (Accounted); what is in m.bots by then came after it (LateBots).   *)
(* A mutex leaves m.init when its bot is published (BotsNeedNoMutex), so   *)
(* whoever lets go of one that is still there has failed (Failing).        *)
(***************************************************************************)
Accounted(c) ==
  \/ InTheMaking(c)
  \/ \E t \in Tokens : bots[t] = c
  \/ down = "stopping" /\ c \in toStop
  \/ down # "up" /\ c \in late

ConnectionsInv == \A c \in connected \ leaked : Accounted(c)

LateBots == down # "up" => \A t \in Tokens : bots[t] \in late \cup {None}

NoMutexOutside == \A g \in Getters : gpc[g] \in {"idle", "register", "returned"} => gmutex[g] = None

BotsNeedNoMutex == down = "up" => \A t \in Tokens : bots[t] # None => init[t] = None

Failing == down = "up" => \A g \in Getters : gpc[g] = "failing" => gtoken[g] \in failed

Waited(t) == \E g \in Getters : gtoken[g] = t /\ gmutex[g] = init[t]

MutexesInv == down = "up" => \A t \in Tokens \ failed : init[t] # None => Waited(t)

LeakInv ==
  /\ ConnectionsInv /\ LateBots
  /\ NoMutexOutside /\ BotsNeedNoMutex /\ Failing /\ MutexesInv

LEMMA LeakInitInv == Init => LeakInv
BY DEF Init, LeakInv, ConnectionsInv, LateBots, NoMutexOutside, BotsNeedNoMutex, Failing, MutexesInv

(* Only the steps of build and of Shutdown touch connections and bots.     *)
LEMMA ConnectionsKeep ==
  ASSUME RegistryInv, TypeOK', LeakInv, [Next]_vars
  PROVE  ConnectionsInv' /\ LateBots'
<1>1. ASSUME UNCHANGED <<bots, connected, down, toStop, leaked, late>>,
             \A c \in Clients : InTheMaking(c) => InTheMaking(c)'
      PROVE  ConnectionsInv' /\ LateBots'
  BY <1>1 DEF LeakInv, ConnectionsInv, Accounted, LateBots, RegistryInv, TypeOK
<1>2. ASSUME NEW g \in Getters,
             (\E t \in Tokens : Look(g, t)) \/ Register(g) \/ Acquire(g) \/ Recheck(g)
               \/ Unlock(g) \/ Finish(g)
      PROVE  ConnectionsInv' /\ LateBots'
  <2>1. /\ gpc[g] # "connected"
        /\ UNCHANGED <<bots, connected, down, toStop, leaked, late>>
        /\ \A h \in Getters \ {g} : gpc'[h] = gpc[h] /\ gbot'[h] = gbot[h]
    BY <1>2 DEF Look, Register, Acquire, Recheck, Unlock, Finish, RegistryInv, TypeOK
  <2>2. \A c \in Clients : InTheMaking(c) => InTheMaking(c)'
    BY <2>1 DEF InTheMaking
  <2> QED BY <1>1, <2>1, <2>2
<1>3. ASSUME NEW g \in Getters, Connect(g) PROVE ConnectionsInv' /\ LateBots'
  <2>1. PICK c \in Clients :
          /\ NewClient(c)
          /\ connected' = connected \cup {c}
          /\ gbot' = [gbot EXCEPT ![g] = c] /\ gpc' = [gpc EXCEPT ![g] = "connected"]
    BY <1>3 DEF Connect
  <2>2. gpc[g] = "building" /\ UNCHANGED <<bots, down, toStop, leaked, late>>
    BY <1>3 DEF Connect
  <2>3. gpc'[g] = "connected" /\ gbot'[g] = c
    BY <2>1 DEF RegistryInv, TypeOK
  <2>4. InTheMaking(c)'
    BY <2>3 DEF InTheMaking
  <2>5. \A h \in Getters : gpc[h] = "connected" => gpc'[h] = "connected" /\ gbot'[h] = gbot[h]
    BY <2>1, <2>2 DEF RegistryInv, TypeOK
  <2>6. \A d \in Clients : InTheMaking(d) => InTheMaking(d)'
    BY <2>5 DEF InTheMaking
  <2>7. ASSUME NEW d \in connected' \ leaked' PROVE Accounted(d)'
    <3>1. CASE d = c
      BY <2>4, <3>1 DEF Accounted
    <3>2. CASE d # c
      BY <2>1, <2>2, <2>6, <2>7, <3>2 DEF LeakInv, ConnectionsInv, Accounted, RegistryInv, TypeOK
    <3> QED BY <3>1, <3>2
  <2> QED BY <2>2, <2>7 DEF ConnectionsInv, LeakInv, LateBots
<1>4. ASSUME NEW g \in Getters, BuildFails(g) PROVE ConnectionsInv' /\ LateBots'
  <2>1. /\ gpc[g] \in Building
        /\ gbot' = [gbot EXCEPT ![g] = None] /\ gpc' = [gpc EXCEPT ![g] = "failing"]
        /\ leaked' = IF gpc[g] = "connected" THEN leaked \cup {gbot[g]} ELSE leaked
        /\ UNCHANGED <<bots, connected, down, toStop, late>>
    BY <1>4 DEF BuildFails
  <2>2. ASSUME NEW d \in connected' \ leaked' PROVE Accounted(d)'
    <3>1. d \in connected \ leaked /\ d \in Clients
      BY <2>1, <2>2 DEF RegistryInv, TypeOK
    <3>2. Accounted(d)
      BY <3>1 DEF LeakInv, ConnectionsInv
    <3>3. ASSUME InTheMaking(d) PROVE InTheMaking(d)'
      <4>1. PICK h \in Getters : gpc[h] = "connected" /\ gbot[h] = d
        BY <3>3 DEF InTheMaking
      <4>2. h # g
        BY <2>1, <2>2, <4>1
      <4>3. gpc'[h] = "connected" /\ gbot'[h] = d
        BY <2>1, <4>1, <4>2 DEF RegistryInv, TypeOK
      <4> QED BY <4>3 DEF InTheMaking
    <3> QED BY <2>1, <3>2, <3>3 DEF Accounted
  <2> QED BY <2>1, <2>2 DEF ConnectionsInv, LeakInv, LateBots
<1>5. ASSUME NEW g \in Getters, Publish(g) PROVE ConnectionsInv' /\ LateBots'
  <2>1. /\ gpc[g] = "connected" /\ gpc' = [gpc EXCEPT ![g] = "found"]
        /\ bots' = [bots EXCEPT ![gtoken[g]] = gbot[g]]
        /\ late' = IF down = "up" THEN late ELSE late \cup {gbot[g]}
        /\ UNCHANGED <<gbot, connected, down, toStop, leaked>>
    BY <1>5 DEF Publish
  <2>2. LateBots'
    BY <2>1 DEF LeakInv, LateBots, RegistryInv, TypeOK
  <2>3. ASSUME NEW d \in connected' \ leaked' PROVE Accounted(d)'
    <3>1. d \in connected \ leaked /\ d \in Clients /\ d # None
      BY <2>1, <2>3, RegistryAssumption DEF RegistryInv, TypeOK
    <3>2. Accounted(d)
      BY <3>1 DEF LeakInv, ConnectionsInv
    <3>3. CASE InTheMaking(d)
      <4>1. PICK h \in Getters : gpc[h] = "connected" /\ gbot[h] = d
        BY <3>3 DEF InTheMaking
      <4>2. CASE h = g
        <5>1. gtoken[g] \in Tokens /\ bots'[gtoken[g]] = d
          BY <2>1, <4>1, <4>2 DEF RegistryInv, TypeOK
        <5> QED BY <5>1 DEF Accounted
      <4>3. CASE h # g
        <5>1. gpc'[h] = "connected" /\ gbot'[h] = d
          BY <2>1, <4>1, <4>3 DEF RegistryInv, TypeOK
        <5> QED BY <5>1 DEF Accounted, InTheMaking
      <4> QED BY <4>2, <4>3
    <3>4. ASSUME NEW t \in Tokens, bots[t] = d PROVE Accounted(d)'
      <4>1. CASE down = "up"
        <5>1. bots[gtoken[g]] = None
          BY <2>1, <4>1 DEF RegistryInv, OneBuild, Building
        <5>2. t # gtoken[g]
          BY <3>1, <3>4, <5>1
        <5>3. bots'[t] = d
          BY <2>1, <3>4, <5>2 DEF RegistryInv, TypeOK
        <5> QED BY <5>3 DEF Accounted
      <4>2. CASE down # "up"
        <5>1. d \in late
          BY <3>1, <3>4, <4>2 DEF LeakInv, LateBots
        <5> QED BY <2>1, <4>2, <5>1 DEF Accounted
      <4> QED BY <4>1, <4>2
    <3>5. CASE (down = "stopping" /\ d \in toStop) \/ (down # "up" /\ d \in late)
      BY <2>1, <3>5 DEF Accounted
    <3> QED BY <3>2, <3>3, <3>4, <3>5 DEF Accounted
  <2> QED BY <2>2, <2>3 DEF ConnectionsInv
<1>6. CASE Shutdown
  <2>1. /\ down = "up" /\ down' = "stopping"
        /\ toStop' = {bots[t] : t \in Tokens} \ {None}
        /\ bots' = [t \in Tokens |-> None]
        /\ UNCHANGED <<gpc, gbot, connected, leaked, late>>
    BY <1>6 DEF Shutdown, callVars
  <2>2. LateBots'
    BY <2>1 DEF LateBots
  <2>3. ASSUME NEW d \in connected' \ leaked' PROVE Accounted(d)'
    <3>1. Accounted(d) /\ d # None
      BY <2>1, <2>3, RegistryAssumption DEF LeakInv, ConnectionsInv, RegistryInv, TypeOK
    <3> QED BY <2>1, <3>1 DEF Accounted, InTheMaking
  <2> QED BY <2>2, <2>3 DEF ConnectionsInv
<1>7. CASE StopClients
  <2>1. /\ down = "stopping" /\ down' = "down"
        /\ connected' = connected \ toStop
        /\ UNCHANGED <<bots, gpc, gbot, leaked, late>>
    BY <1>7 DEF StopClients, callVars
  <2>2. ASSUME NEW d \in connected' \ leaked' PROVE Accounted(d)'
    <3>1. Accounted(d) /\ d \notin toStop
      BY <2>1, <2>2 DEF LeakInv, ConnectionsInv
    <3> QED BY <2>1, <3>1 DEF Accounted, InTheMaking
  <2> QED BY <2>1, <2>2 DEF ConnectionsInv, LeakInv, LateBots
<1>8. CASE UNCHANGED vars
  BY <1>1, <1>8 DEF vars, callVars, InTheMaking
<1> QED BY <1>2, <1>3, <1>4, <1>5, <1>6, <1>7, <1>8 DEF Next, GetStep

(* A failed build still has its mutex, so nobody else can have published.  *)
LEMMA FailingKeeps ==
  ASSUME RegistryInv, TypeOK', LeakInv, NEW g \in Getters, Publish(g)
  PROVE  Failing'
<1> SUFFICES ASSUME down = "up", NEW h \in Getters, gpc'[h] = "failing"
             PROVE  gtoken[h] \in failed'
  BY DEF Failing, Publish
<1>1. /\ gpc[g] = "connected" /\ gpc[h] = "failing" /\ h # g
      /\ failed' = failed \ {gtoken[g]}
  BY DEF Publish, RegistryInv, TypeOK
<1>2. gtoken[h] \in failed
  BY <1>1 DEF LeakInv, Failing
<1>3. ASSUME gtoken[h] = gtoken[g] PROVE FALSE
  <2>1. bots[gtoken[g]] = None
    BY <1>1 DEF RegistryInv, OneBuild, Building
  <2>2. gmutex[h] = init[gtoken[h]] /\ gmutex[g] = init[gtoken[g]]
    BY <1>1, <1>3, <2>1 DEF RegistryInv, OneMutex, Locked, Building
  <2>3. holder[gmutex[h]] = h /\ holder[gmutex[g]] = g
    BY <1>1 DEF RegistryInv, MutexHeld, Locked, Building
  <2> QED BY <1>1, <1>3, <2>2, <2>3
<1> QED BY <1>1, <1>2, <1>3

LEMMA MutexesKeep ==
  ASSUME RegistryInv, TypeOK', LeakInv, [Next]_vars
  PROVE  NoMutexOutside' /\ BotsNeedNoMutex' /\ Failing' /\ MutexesInv'
<1> USE DEF LeakInv
<1>1. ASSUME NEW g \in Getters, NEW t \in Tokens, Look(g, t)
      PROVE  NoMutexOutside' /\ BotsNeedNoMutex' /\ Failing' /\ MutexesInv'
  <2>1. /\ gpc[g] = "idle" /\ gmutex[g] = None
        /\ gtoken' = [gtoken EXCEPT ![g] = t]
        /\ gpc' = [gpc EXCEPT ![g] = "returned"] \/ gpc' = [gpc EXCEPT ![g] = "register"]
        /\ UNCHANGED <<bots, init, gmutex, down, failed>>
    BY <1>1 DEF Look, NoMutexOutside
  <2>2. NoMutexOutside' /\ BotsNeedNoMutex' /\ Failing'
    BY <2>1 DEF NoMutexOutside, BotsNeedNoMutex, Failing, RegistryInv, TypeOK
  <2>3. ASSUME NEW u \in Tokens, init[u] # None, Waited(u) PROVE Waited(u)'
    <3>1. PICK h \in Getters : gtoken[h] = u /\ gmutex[h] = init[u]
      BY <2>3 DEF Waited
    <3>2. h # g /\ gtoken'[h] = u
      BY <2>1, <2>3, <3>1 DEF RegistryInv, TypeOK
    <3> QED BY <2>1, <3>1, <3>2 DEF Waited
  <2> QED BY <2>1, <2>2, <2>3 DEF MutexesInv
<1>2. ASSUME NEW g \in Getters, Register(g)
      PROVE  NoMutexOutside' /\ BotsNeedNoMutex' /\ Failing' /\ MutexesInv'
  <2>1. gpc[g] = "register" /\ gmutex[g] = None /\ UNCHANGED <<bots, gtoken, down, failed>>
    BY <1>2 DEF Register, NoMutexOutside
  <2>2. CASE bots[gtoken[g]] # None
    <3>1. gpc' = [gpc EXCEPT ![g] = "returned"] /\ UNCHANGED <<init, gmutex>>
      BY <1>2, <2>2 DEF Register
    <3> QED BY <2>1, <3>1
            DEF NoMutexOutside, BotsNeedNoMutex, Failing, MutexesInv, Waited, RegistryInv, TypeOK
  <2>3. CASE bots[gtoken[g]] = None
    <3>1. PICK m \in Mutexes :
            /\ m = init[gtoken[g]] \/ init[gtoken[g]] = None
            /\ init' = [init EXCEPT ![gtoken[g]] = m]
            /\ gmutex' = [gmutex EXCEPT ![g] = m]
      BY <1>2, <2>3 DEF Register
    <3>2. gpc' = [gpc EXCEPT ![g] = "acquire"]
      BY <1>2, <2>3 DEF Register
    <3>3. NoMutexOutside' /\ BotsNeedNoMutex' /\ Failing'
      BY <2>1, <2>3, <3>1, <3>2 DEF NoMutexOutside, BotsNeedNoMutex, Failing, RegistryInv, TypeOK
    <3>4. ASSUME down = "up", NEW u \in Tokens \ failed, init'[u] # None PROVE Waited(u)'
      <4>1. CASE u = gtoken[g]
        <5>1. init'[u] = m /\ gmutex'[g] = m
          BY <3>1, <4>1 DEF RegistryInv, TypeOK
        <5> QED BY <2>1, <4>1, <5>1 DEF Waited
      <4>2. CASE u # gtoken[g]
        <5>1. init'[u] = init[u]
          BY <3>1, <4>2 DEF RegistryInv, TypeOK
        <5>2. PICK h \in Getters : gtoken[h] = u /\ gmutex[h] = init[u]
          BY <3>4, <5>1 DEF MutexesInv, Waited
        <5>3. h # g /\ gmutex'[h] = gmutex[h]
          BY <3>1, <4>2, <5>2 DEF RegistryInv, TypeOK
        <5> QED BY <2>1, <5>1, <5>2, <5>3 DEF Waited
      <4> QED BY <4>1, <4>2
    <3> QED BY <2>1, <3>3, <3>4 DEF MutexesInv
  <2> QED BY <2>2, <2>3
<1>3. ASSUME NEW g \in Getters, Acquire(g) \/ Recheck(g) \/ Connect(g) \/ BuildFails(g)
      PROVE  NoMutexOutside' /\ BotsNeedNoMutex' /\ Failing' /\ MutexesInv'
  <2>1. PICK label \in {"recheck", "found", "building", "connected", "failing"} :
          /\ gpc' = [gpc EXCEPT ![g] = label]
          /\ failed' = failed \cup (IF label = "failing" THEN {gtoken[g]} ELSE {})
          /\ UNCHANGED <<bots, init, gtoken, gmutex, down>>
    BY <1>3 DEF Acquire, Recheck, Connect, BuildFails
  <2>2. NoMutexOutside' /\ BotsNeedNoMutex' /\ MutexesInv'
    BY <2>1 DEF NoMutexOutside, BotsNeedNoMutex, MutexesInv, Waited, RegistryInv, TypeOK
  <2>3. Failing'
    BY <2>1 DEF Failing, RegistryInv, TypeOK
  <2> QED BY <2>2, <2>3
<1>4. ASSUME NEW g \in Getters, Publish(g)
      PROVE  NoMutexOutside' /\ BotsNeedNoMutex' /\ Failing' /\ MutexesInv'
  <2>1. /\ gpc' = [gpc EXCEPT ![g] = "found"]
        /\ bots' = [bots EXCEPT ![gtoken[g]] = gbot[g]]
        /\ init' = [init EXCEPT ![gtoken[g]] = None]
        /\ failed' = failed \ {gtoken[g]}
        /\ UNCHANGED <<gtoken, gmutex, down>>
    BY <1>4 DEF Publish
  <2>2. NoMutexOutside' /\ BotsNeedNoMutex'
    BY <2>1 DEF NoMutexOutside, BotsNeedNoMutex, RegistryInv, TypeOK
  <2>3. ASSUME down = "up", NEW u \in Tokens \ failed', init'[u] # None PROVE Waited(u)'
    <3>1. u # gtoken[g] /\ init'[u] = init[u] /\ u \notin failed
      BY <2>1, <2>3 DEF RegistryInv, TypeOK
    <3> QED BY <2>1, <2>3, <3>1 DEF MutexesInv, Waited
  <2> QED BY <1>4, <2>1, <2>2, <2>3, FailingKeeps DEF MutexesInv
<1>5. ASSUME NEW g \in Getters, Unlock(g)
      PROVE  NoMutexOutside' /\ BotsNeedNoMutex' /\ Failing' /\ MutexesInv'
  <2>1. /\ gpc[g] \in {"found", "failing"}
        /\ gpc' = [gpc EXCEPT ![g] = "returned"]
        /\ gmutex' = [gmutex EXCEPT ![g] = None]
        /\ UNCHANGED <<bots, init, gtoken, gbot, down, failed>>
    BY <1>5 DEF Unlock
  <2>2. NoMutexOutside' /\ BotsNeedNoMutex' /\ Failing'
    BY <2>1 DEF NoMutexOutside, BotsNeedNoMutex, Failing, RegistryInv, TypeOK
  <2>3. ASSUME down = "up", NEW u \in Tokens \ failed, init[u] # None PROVE Waited(u)'
    <3>1. PICK h \in Getters : gtoken[h] = u /\ gmutex[h] = init[u]
      BY <2>3 DEF MutexesInv, Waited
    <3>2. CASE h # g
      BY <2>1, <3>1, <3>2 DEF Waited, RegistryInv, TypeOK
    <3>3. CASE h = g
      <4>1. gpc[g] # "failing"
        BY <2>3, <3>1, <3>3 DEF Failing
      <4>2. gbot[g] # None /\ gpc[g] = "found"
        BY <2>1, <4>1, RegistryAssumption DEF RegistryInv, TypeOK
      <4>3. bots[u] # None
        BY <2>3, <3>1, <3>3, <4>2 DEF RegistryInv, OneBot
      <4> QED BY <2>3, <4>3 DEF BotsNeedNoMutex
    <3> QED BY <3>2, <3>3
  <2> QED BY <2>1, <2>2, <2>3 DEF MutexesInv
<1>6. ASSUME NEW g \in Getters, Finish(g)
      PROVE  NoMutexOutside' /\ BotsNeedNoMutex' /\ Failing' /\ MutexesInv'
  BY <1>6 DEF Finish, NoMutexOutside, BotsNeedNoMutex, Failing, MutexesInv, Waited, RegistryInv, TypeOK
<1>7. CASE Shutdown \/ StopClients
  BY <1>7 DEF Shutdown, StopClients, callVars, NoMutexOutside, BotsNeedNoMutex, Failing, MutexesInv
<1>8. CASE UNCHANGED vars
  BY <1>8 DEF vars, callVars, NoMutexOutside, BotsNeedNoMutex, Failing, MutexesInv, Waited
<1> QED BY <1>1, <1>2, <1>3, <1>4, <1>5, <1>6, <1>7, <1>8 DEF Next, GetStep

(***************************************************************************)
(* Only failed builds, and builds that end after Shutdown, leave anything  *)
(* behind, for any number of requests, tokens and clients.                 *)
(***************************************************************************)
THEOREM RegistryLeaksOnlyFailures == Safety => []OnlyFailuresLeak
<1>1. Init => RegistryInv /\ LeakInv
  BY RegistryInitInv, LeakInitInv
<1>2. RegistryInv /\ LeakInv /\ [Next]_vars => (RegistryInv /\ LeakInv)'
  <2> SUFFICES ASSUME RegistryInv, LeakInv, [Next]_vars PROVE RegistryInv' /\ LeakInv'
    OBVIOUS
  <2>1. RegistryInv' /\ TypeOK'
    BY RegistryNextInv DEF RegistryInv
  <2> QED BY <2>1, ConnectionsKeep, MutexesKeep DEF LeakInv
<1>3. RegistryInv /\ LeakInv => OnlyFailuresLeak
  <2> SUFFICES ASSUME RegistryInv, LeakInv PROVE OnlyFailuresLeak
    OBVIOUS
  <2>1. ASSUME down = "up"
        PROVE  /\ \A c \in connected \ leaked : InTheMaking(c) \/ \E t \in Tokens : bots[t] = c
               /\ \A t \in Tokens \ failed : init[t] # None =>
                    \E g \in Getters : Token(g) = t /\ Mutex(g) = init[t]
    BY <2>1 DEF LeakInv, ConnectionsInv, Accounted, MutexesInv, Waited
  <2>2. ASSUME down = "down", NEW c \in connected \ leaked
        PROVE  InTheMaking(c) \/ c \in late
    <3>1. Accounted(c) /\ c # None
      BY <2>2, RegistryAssumption DEF LeakInv, ConnectionsInv, RegistryInv, TypeOK
    <3> QED BY <2>2, <3>1 DEF Accounted, LeakInv, LateBots
  <2> QED BY <2>1, <2>2 DEF OnlyFailuresLeak
<1> QED BY <1>1, <1>2, <1>3, PTL DEF Safety
=============================================================================
