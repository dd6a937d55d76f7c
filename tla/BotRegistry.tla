---------------------------- MODULE BotRegistry ----------------------------
(***************************************************************************)
(* The registry of bots (internal/botmgr/botmgr.go): Manager.Get builds a  *)
(* bot's MTProto client on the first request for its token, behind a mutex *)
(* per token; Prewarm is concurrent calls of Get; Shutdown forgets every   *)
(* bot and stops its client.                                               *)
(*                                                                         *)
(* A client is the connection a build makes; a bot is known by the client  *)
(* it was built on.  Mutexes are objects: two calls for one token may hold *)
(* different ones if the map was changed between their look-ups.           *)
(***************************************************************************)
EXTENDS FiniteSets, Naturals

CONSTANTS
  Getters,     \* goroutines in Get
  Tokens,      \* bot tokens
  Mutexes,     \* the per-token mutexes that are ever made
  Clients,     \* the clients that are ever connected
  None         \* no bot, no mutex, nobody

ASSUME RegistryAssumption == None \notin Getters \cup Mutexes \cup Clients

VARIABLES
  bots,        \* m.bots: token -> the bot's client, or None
  init,        \* m.init: token -> mutex, or None
  holder,      \* mutex -> the getter that has it, or None
  gpc,         \* where each getter is
  gtoken,      \* the token it asks for
  gmutex,      \* the mutex it looked up
  gbot,        \* the bot it built or is about to return
  connected,   \* the clients whose connection is open
  down,        \* where Shutdown is: "up", "stopping", "down"
  toStop,      \* the bots Shutdown found and has yet to stop
  failed,      \* history: the tokens whose last build failed
  leaked,      \* history: the clients of builds that failed after Connect
  late         \* history: the clients whose bots were published after Shutdown

history == <<failed, leaked, late>>
callVars == <<gpc, gtoken, gmutex, gbot>>
vars == <<bots, init, holder, callVars, connected, down, toStop, history>>

Building == {"building", "connected"}
Locked == {"recheck", "failing", "found"} \cup Building

TypeOK ==
  /\ bots \in [Tokens -> Clients \cup {None}]
  /\ init \in [Tokens -> Mutexes \cup {None}]
  /\ holder \in [Mutexes -> Getters \cup {None}]
  /\ gpc \in [Getters -> {"idle", "register", "acquire", "returned"} \cup Locked]
  /\ gtoken \in [Getters -> Tokens]
  /\ gmutex \in [Getters -> Mutexes \cup {None}]
  /\ gbot \in [Getters -> Clients \cup {None}]
  /\ \A g \in Getters : gpc[g] \in {"acquire"} \cup Locked => gmutex[g] \in Mutexes
  /\ \A g \in Getters : gpc[g] \in {"connected", "found"} => gbot[g] \in Clients
  /\ \A g \in Getters : gpc[g] = "failing" => gbot[g] = None
  /\ connected \subseteq Clients
  /\ down \in {"up", "stopping", "down"}
  /\ toStop \subseteq Clients
  /\ failed \subseteq Tokens
  /\ leaked \subseteq Clients
  /\ late \subseteq Clients

Init ==
  /\ bots = [t \in Tokens |-> None]
  /\ init = [t \in Tokens |-> None]
  /\ holder = [m \in Mutexes |-> None]
  /\ gpc = [g \in Getters |-> "idle"]
  /\ gtoken \in [Getters -> Tokens]
  /\ gmutex = [g \in Getters |-> None]
  /\ gbot = [g \in Getters |-> None]
  /\ connected = {}
  /\ down = "up"
  /\ toStop = {}
  /\ failed = {}
  /\ leaked = {}
  /\ late = {}

Go(g, label) == gpc' = [gpc EXCEPT ![g] = label]
Mutex(g) == gmutex[g]
Token(g) == gtoken[g]

-----------------------------------------------------------------------------
(* Get, up to the mutex.                                                   *)

Answer(g, b, label) == gbot' = [gbot EXCEPT ![g] = b] /\ Go(g, label)

(* The look-up under the read lock.                                        *)
Look(g, t) ==
  /\ gpc[g] = "idle"
  /\ gtoken' = [gtoken EXCEPT ![g] = t]
  /\ IF bots[t] # None THEN Answer(g, bots[t], "returned")
                       ELSE Go(g, "register") /\ UNCHANGED gbot
  /\ UNCHANGED <<bots, init, holder, gmutex, connected, down, toStop, history>>

(* A mutex that nobody can reach any more is as good as a new one.         *)
NewMutex(m) ==
  /\ \A t \in Tokens : init[t] # m
  /\ \A g \in Getters : gmutex[g] # m

(* The second look-up, under the lock, and the token's mutex.              *)
Register(g) ==
  /\ gpc[g] = "register"
  /\ IF bots[Token(g)] # None
       THEN /\ Answer(g, bots[Token(g)], "returned")
            /\ UNCHANGED <<init, gmutex>>
       ELSE /\ \E m \in Mutexes :
                 /\ m = init[Token(g)] \/ (init[Token(g)] = None /\ NewMutex(m))
                 /\ init' = [init EXCEPT ![Token(g)] = m]
                 /\ gmutex' = [gmutex EXCEPT ![g] = m]
            /\ Go(g, "acquire")
            /\ UNCHANGED gbot
  /\ UNCHANGED <<bots, holder, gtoken, connected, down, toStop, history>>

Acquire(g) ==
  /\ gpc[g] = "acquire"
  /\ holder[Mutex(g)] = None
  /\ holder' = [holder EXCEPT ![Mutex(g)] = g]
  /\ Go(g, "recheck")
  /\ UNCHANGED <<bots, init, gtoken, gmutex, gbot, connected, down, toStop, history>>

Recheck_Missing(g) ==
  /\ gpc[g] = "recheck"
  /\ Go(g, "building")
  /\ UNCHANGED <<bots, init, holder, gtoken, gmutex, gbot, connected, down, toStop, history>>

(* The third look-up: somebody else may have built the bot meanwhile.      *)
Recheck(g) ==
  /\ gpc[g] = "recheck"
  /\ IF bots[Token(g)] # None THEN Answer(g, bots[Token(g)], "found")
                              ELSE Go(g, "building") /\ UNCHANGED gbot
  /\ UNCHANGED <<bots, init, holder, gtoken, gmutex, connected, down, toStop, history>>

-----------------------------------------------------------------------------
(* build, and the end of Get.                                              *)

NewClient(c) ==
  /\ c \notin connected \cup toStop
  /\ \A g \in Getters : gbot[g] # c
  /\ \A t \in Tokens : bots[t] # c

Connect(g) ==
  /\ gpc[g] = "building"
  /\ \E c \in Clients :
       /\ NewClient(c)
       /\ connected' = connected \cup {c}
       /\ Answer(g, c, "connected")
  /\ UNCHANGED <<bots, init, holder, gtoken, gmutex, down, toStop, history>>

(* What a failed build leaves: its token's mutex in the map and, if it had *)
(* come past Connect, the connection.                                      *)
Leave(g) ==
  /\ failed' = failed \cup {Token(g)}
  /\ leaked' = IF gpc[g] = "connected" THEN leaked \cup {gbot[g]} ELSE leaked
  /\ UNCHANGED late

(* A bad token, or no connection; or the log-in fails and the client stays *)
(* connected with nobody to stop it.                                       *)
BuildFails_ForgetsMutex(g) ==
  /\ gpc[g] \in Building
  /\ init' = [init EXCEPT ![Token(g)] = None]
  /\ Answer(g, None, "failing")
  /\ Leave(g)
  /\ UNCHANGED <<bots, holder, gtoken, gmutex, connected, down, toStop>>

BuildFails_Retries(g) ==
  /\ gpc[g] \in Building
  /\ Answer(g, None, "building")
  /\ Leave(g)
  /\ UNCHANGED <<bots, init, holder, gtoken, gmutex, connected, down, toStop>>

BuildFails(g) ==
  /\ gpc[g] \in Building
  /\ Answer(g, None, "failing")
  /\ Leave(g)
  /\ UNCHANGED <<bots, init, holder, gtoken, gmutex, connected, down, toStop>>

Publish_KeepsMutex(g) ==
  /\ gpc[g] = "connected"
  /\ bots' = [bots EXCEPT ![Token(g)] = gbot[g]]
  /\ Go(g, "found")
  /\ failed' = failed \ {Token(g)}
  /\ late' = IF down = "up" THEN late ELSE late \cup {gbot[g]}
  /\ UNCHANGED <<init, holder, gtoken, gmutex, gbot, connected, down, toStop, leaked>>

Publish(g) ==
  /\ gpc[g] = "connected"
  /\ bots' = [bots EXCEPT ![Token(g)] = gbot[g]]
  /\ init' = [init EXCEPT ![Token(g)] = None]
  /\ Go(g, "found")
  /\ failed' = failed \ {Token(g)}
  /\ late' = IF down = "up" THEN late ELSE late \cup {gbot[g]}
  /\ UNCHANGED <<holder, gtoken, gmutex, gbot, connected, down, toStop, leaked>>

(* The deferred mu.Unlock.                                                 *)
Unlock(g) ==
  /\ gpc[g] \in {"found", "failing"}
  /\ holder' = [holder EXCEPT ![Mutex(g)] = None]
  /\ gmutex' = [gmutex EXCEPT ![g] = None]
  /\ Go(g, "returned")
  /\ UNCHANGED <<bots, init, gtoken, gbot, connected, down, toStop, history>>

(* The request is served, or failed; the goroutine may come back.          *)
Finish(g) ==
  /\ gpc[g] = "returned"
  /\ Answer(g, None, "idle")
  /\ UNCHANGED <<bots, init, holder, gtoken, gmutex, connected, down, toStop, history>>

-----------------------------------------------------------------------------
(* Shutdown, once, when the process is told to stop.                       *)

Shutdown ==
  /\ down = "up"
  /\ toStop' = {bots[t] : t \in Tokens} \ {None}
  /\ bots' = [t \in Tokens |-> None]
  /\ init' = [t \in Tokens |-> None]
  /\ down' = "stopping"
  /\ UNCHANGED <<holder, callVars, connected, history>>

StopClients ==
  /\ down = "stopping"
  /\ connected' = connected \ toStop
  /\ toStop' = {}
  /\ down' = "down"
  /\ UNCHANGED <<bots, init, holder, callVars, history>>

GetStep(g) ==
  \/ Register(g) \/ Acquire(g) \/ Recheck(g) \/ Connect(g) \/ BuildFails(g)
  \/ Publish(g) \/ Unlock(g) \/ Finish(g)

Next ==
  \/ \E g \in Getters : GetStep(g) \/ \E t \in Tokens : Look(g, t)
  \/ Shutdown
  \/ StopClients

Safety == Init /\ [][Next]_vars

(***************************************************************************)
(* A call keeps running, its build ends one way or the other, and sync's   *)
(* mutex is handed to a goroutine that has waited long enough.             *)
(***************************************************************************)
Spec ==
  /\ Safety
  /\ \A g \in Getters : WF_vars(GetStep(g)) /\ SF_vars(Acquire(g))

-----------------------------------------------------------------------------
(***************************************************************************)
(* While the server is up, a token's bot is built by one goroutine at a    *)
(* time, and not when it exists: two clients of one bot would share its    *)
(* session file.  A failed build leaves the mutex where the others wait.   *)
(***************************************************************************)
OneBuild ==
  down = "up" =>
    \A g \in Getters : gpc[g] \in Building =>
      /\ bots[Token(g)] = None
      /\ \A h \in Getters \ {g} : gpc[h] \in Building => Token(h) # Token(g)

(***************************************************************************)
(* While the server is up, all requests for a token get the same bot, and  *)
(* so share its update buffer and caches.                                  *)
(***************************************************************************)
OneBot ==
  down = "up" =>
    \A g \in Getters : gpc[g] \in {"found", "returned"} /\ gbot[g] # None =>
      gbot[g] = bots[Token(g)]

(***************************************************************************)
(* While the server is up, only failed builds leave anything behind: every *)
(* open connection is some token's bot or about to become it, unless its   *)
(* build failed, and so lost to Manager.Shutdown; every mutex in m.init    *)
(* has a request behind it, unless the token's last build failed.          *)
(* Shutdown stops the rest: what is connected when it is through comes     *)
(* from a failed build or from one that ended after it emptied the maps.   *)
(***************************************************************************)
InTheMaking(c) == \E g \in Getters : gpc[g] = "connected" /\ gbot[g] = c

OnlyFailuresLeak ==
  /\ down = "up" =>
       /\ \A c \in connected \ leaked : InTheMaking(c) \/ \E t \in Tokens : bots[t] = c
       /\ \A t \in Tokens \ failed : init[t] # None =>
            \E g \in Getters : Token(g) = t /\ Mutex(g) = init[t]
  /\ down = "down" => \A c \in connected \ leaked : InTheMaking(c) \/ c \in late

(***************************************************************************)
(* Every request gets an answer: neither a failed build nor a shutdown     *)
(* leaves the goroutines behind it waiting for its mutex.                  *)
(***************************************************************************)
GetReturns == \A g \in Getters : gpc[g] = "register" ~> gpc[g] = "returned"
=============================================================================
