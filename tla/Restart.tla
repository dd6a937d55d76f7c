------------------------------ MODULE Restart ------------------------------
(***************************************************************************)
(* A bot with a webhook across restarts of the process (main.go,           *)
(* internal/botmgr/botmgr.go, internal/storage/storage.go).  The bots row  *)
(* is in SQLite and survives; the update buffer, the deliverers and the    *)
(* calls in progress are memory.  Prewarm, or the first request, builds    *)
(* the bot again: with an empty buffer whose ids start at 1, and with no   *)
(* deliverer.                                                              *)
(*                                                                         *)
(* The process may end at any moment.  An orderly stop ends in the same    *)
(* state as a crash: Shutdown stops the deliverers and the clients, and    *)
(* what the handlers still store during it are steps before the end.       *)
(***************************************************************************)
EXTENDS Webhook

CONSTANTS
  MaxRestarts,     \* bound: how often the process is restarted
  Unsure           \* the value of answer when the calls do not tell

ASSUME RestartAssumption ==
  /\ MaxRestarts \in Nat
  /\ Unsure \notin Deliverers \cup {NoDrainer, NoRow}

VARIABLES
  built,       \* the registry holds the bot
  restarts     \* restarts so far

(* History variables: what the clients were told.                          *)
VARIABLES
  overlap,     \* two calls are under way together ("now"), were earlier in
               \* this life of the process ("past"), or never in it ("none")
  answered,    \* in this life a call has been answered with success
  answer       \* the webhook that, by the answers, the bot now has

toldVars == <<overlap, answered, answer>>
vars == <<bufVars, hookVars, built, restarts, toldVars>>

Init ==
  /\ BufInit /\ HookInit /\ row = NoRow
  /\ built = FALSE /\ restarts = 0
  /\ overlap = "none" /\ answered = FALSE /\ answer = NoDrainer

(* build's UpsertBot inserts the row when there is none.  When it fails    *)
(* the bot is built all the same, with a warning in the log.               *)
Build ==
  /\ ~built
  /\ built' = TRUE
  /\ \/ row' = IF row = NoRow THEN NoDrainer ELSE row
     \/ UNCHANGED row
  /\ UNCHANGED <<bufVars, runVars, stopped, current, hpc, hnew, htaken, firstID, seenVars,
                 restarts, toldVars>>

(***************************************************************************)
(* What a step of the handlers tells.  A call that ran alone and succeeded *)
(* says what the webhook is: its URL, or none.  Calls that overlapped do   *)
(* not, whatever each was told: their writes and their deliverers may have *)
(* come in different orders.                                               *)
(***************************************************************************)
Busy == {h \in Handlers : hpc[h] # "idle"}
CallsEnd == Busy # {} /\ Busy' = {}

Watch ==
  /\ overlap' = IF \E g, h \in Busy' : g # h THEN "now"
                ELSE IF overlap = "now" /\ CallsEnd THEN "past" ELSE overlap
  /\ \/ ~CallsEnd /\ UNCHANGED <<answered, answer>>
     \/ CallsEnd /\ overlap = "now" /\ answered' = TRUE /\ answer' = Unsure
     \/ /\ CallsEnd /\ overlap # "now"
        /\ \E h \in Busy :
             IF hpc[h] = "storing" THEN UNCHANGED <<answered, answer>>
             ELSE answered' = TRUE /\ answer' = hnew[h]

(* A webhook without a row is forgotten with the process.  A call that was *)
(* cut off may have stored or not; one still to store has not.             *)
AfterTheEnd ==
  IF row = NoRow THEN NoDrainer
  ELSE IF overlap = "now" \/ \E h \in Busy : hpc[h] # "storing" THEN Unsure
  ELSE answer

(* Memory is lost: what was running has ended, the row stays.  The         *)
(* histories start anew, as the ids do.                                    *)
EndOfProcess ==
  /\ restarts < MaxRestarts
  /\ restarts' = restarts + 1
  /\ built' = FALSE
  /\ items' = <<>> /\ nextID' = 1 /\ takeMu' = NoDrainer /\ lost' = {}
  /\ dpc' = [d \in Deliverers |-> IF At(d, "unused") THEN "unused" ELSE "exited"]
  /\ after' = [d \in Deliverers |-> "top"]
  /\ work' = [d \in Deliverers |-> <<>>]
  /\ pos' = [d \in Deliverers |-> 1]
  /\ lastAcked' = [d \in Deliverers |-> 0]
  /\ attempts' = [d \in Deliverers |-> [n \in IDs |-> 0]]
  /\ stopped' = {}
  /\ current' = NoDrainer
  /\ hpc' = [h \in Handlers |-> "idle"]
  /\ hnew' = [h \in Handlers |-> NoDrainer]
  /\ htaken' = [h \in Handlers |-> NoDrainer]
  /\ outcome' = [n \in IDs |-> "none"]
  /\ posts' = [d \in Deliverers |-> [n \in IDs |-> 0]]
  /\ late' = [d \in Deliverers |-> 0]
  /\ firstID' = [d \in Deliverers |-> 0]
  /\ overlap' = "none" /\ answered' = FALSE /\ answer' = AfterTheEnd
  /\ UNCHANGED row

Up(A) == built /\ A /\ Watch /\ UNCHANGED <<built, restarts>>

Next ==
  \/ Build
  \/ Up(HookNext)
  \/ EndOfProcess

Safety == Init /\ [][Next]_vars

(***************************************************************************)
(* What goes on by itself.  Prewarm builds the bots that have a row in the *)
(* database, and a call that has begun goes on.  A deliverer goes on: the  *)
(* http.Client's 60 s timeout ends every POST and the timer every backoff, *)
(* and sync's mutex is handed to a goroutine that has waited long enough.  *)
(* CollectNothing gets no fairness: a Wait with nothing pending may sit    *)
(* there for good (module BufferWait); nor does the arrival of a call.     *)
(***************************************************************************)
Spec ==
  /\ Safety
  /\ WF_vars(row # NoRow /\ Build)
  /\ \A h \in Handlers : WF_vars(Up(Continue(h)))
  /\ \A d \in Deliverers : WF_vars(Up(Progress(d))) /\ SF_vars(Up(DeliverLock(d)))

-----------------------------------------------------------------------------
(***************************************************************************)
(* Between calls, the database, the map and the goroutines agree with what *)
(* the clients were told, wherever the process ended and whichever stores  *)
(* failed.  The database has the webhook of the last call that succeeded   *)
(* -- no call was cut off after it, and no two overlapped since -- or has  *)
(* no row for the bot, and then forgets it with the process.  The deliverer*)
(* in the map is that webhook's if a call of this life set it, and there is*)
(* none otherwise.  And until calls overlap, the deliverer in the map is   *)
(* the only one that runs and is not stopped.                              *)
(***************************************************************************)
Running(d) == dpc[d] \notin {"unused", "reserved", "exited"}

ServedIsStored ==
  Busy = {} =>
    /\ answer # Unsure => row \in {answer, NoRow}
    /\ answer # Unsure \/ ~answered => current = IF answered THEN answer ELSE NoDrainer
    /\ overlap = "none" =>
         {d \in Deliverers : Running(d) /\ d \notin stopped} = {current} \ {NoDrainer}

(***************************************************************************)
(* "Everything survives restarts" (README.md:90): a webhook in the         *)
(* database gets its deliverer, unless it is changed or the process ends   *)
(* once more.  In the code only setWebhook starts a deliverer: after a     *)
(* restart getWebhookInfo reports the URL and nothing is POSTed to it.     *)
(***************************************************************************)
WebhookResumes ==
  \A d \in Deliverers : row = d ~> (row # d \/ current = d)
=============================================================================
