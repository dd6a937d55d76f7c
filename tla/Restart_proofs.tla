--------------------------- MODULE Restart_proofs ---------------------------
(***************************************************************************)
(* The webhook across any number of restarts.  Within each life of the     *)
(* process the deliverers keep what they keep without restarts; and who    *)
(* delivers is who the clients were told, wherever the process ended and   *)
(* however many calls there are.                                           *)
(***************************************************************************)
EXTENDS Restart, Webhook_proofs

HIDE DEF HookCore

-----------------------------------------------------------------------------
(* One life after another.                                                 *)

(* What EndOfProcess leaves is what a process begins with.                 *)
LEMMA EndBeginsAfresh ==
  ASSUME HookInv, EndOfProcess
  PROVE  Fresh'
<1>1. /\ BufInit' /\ UNCHANGED row
      /\ dpc' = [d \in Deliverers |-> IF At(d, "unused") THEN "unused" ELSE "exited"]
  BY DEF EndOfProcess, BufInit
<1>2. row' \in Deliverers \cup {NoDrainer, NoRow}
  BY <1>1 DEF HookInv, HookCore, HookTypeOK
<1>3. dpc' \in [Deliverers -> {"unused", "exited"}]
  BY <1>1
<1> QED BY <1>1, <1>2, <1>3 DEF EndOfProcess, Fresh

LEMMA FreshThen == Fresh' => HookInv'
BY FreshInv, PTL

(* Building writes the row and nothing else.                               *)
LEMMA BuildKeepsHook ==
  ASSUME HookInv, Build
  PROVE  HookInv'
<1>1. /\ UNCHANGED <<items, nextID, lost, takeMu, runVars, seenVars, stopped, current, hpc, hnew,
                     htaken, firstID>>
      /\ row' \in Deliverers \cup {NoDrainer, NoRow}
  BY SetupTyped DEF Build, HookInv, bufVars
<1>2. HookTypeOK' /\ Reserved'
  BY <1>1 DEF HookInv, HookCore, HookTypeOK, Reserved, runVars, seenVars
<1>3. HookCore'
  BY <1>1, <1>2, OthersKeepHook DEF HookInv, bufVars
<1>4. SettledOrKept'
  BY <1>1 DEF HookInv, SettledOrKept, PendingIDs, seenVars
<1> QED BY <1>3, <1>4 DEF HookInv

LEMMA RestartNextInv == HookInv /\ [Next]_vars => HookInv'
<1> SUFFICES ASSUME HookInv, [Next]_vars PROVE HookInv'
  OBVIOUS
<1>1. CASE EndOfProcess
  BY <1>1, EndBeginsAfresh, FreshThen
<1>2. CASE [HookNext]_<<bufVars, hookVars>>
  BY <1>2, HookNextInv
<1>3. CASE Build
  BY <1>3, BuildKeepsHook
<1>4. CASE UNCHANGED vars
  BY <1>2, <1>4 DEF vars
<1> QED BY <1>1, <1>2, <1>3, <1>4 DEF Next, Up

LEMMA RestartInvariant == Safety => []HookInv
<1>1. Init => HookInv
  BY HookInitInv DEF Init
<1> QED BY <1>1, RestartNextInv, PTL DEF Safety

(***************************************************************************)
(* Between one restart and the next, the webhook keeps every promise it    *)
(* keeps in a process that never ends, whatever deliverers and calls the   *)
(* end cut off and wherever it met them.                                   *)
(***************************************************************************)
THEOREM RestartKeepsWebhook ==
  Safety => [](/\ OnePostAtATime /\ SettledOnce /\ InOrder /\ SettledOrKept
               /\ EightAttempts /\ StopsPromptly /\ DroppedNotPosted)
BY RestartInvariant, HookInvSays, PTL

-----------------------------------------------------------------------------
(* Who delivers.                                                           *)

(* The deliverers that run and are not told to stop are the one in the map *)
(* and those that calls have taken out of it and are about to stop.        *)
Live == {d \in Deliverers : Running(d) /\ d \notin stopped}
Named == ({current} \cup {htaken[h] : h \in Handlers}) \ {NoDrainer}

(* A deliverer leaves its loop only when it is stopped, and only one that  *)
(* was started is stopped, or in the map.                                  *)
Started == {d \in Deliverers : dpc[d] \notin {"unused", "reserved"}}

StopsForGood ==
  /\ \A d \in Deliverers : after[d] = "exited" => d \in stopped
  /\ stopped \cup Named \subseteq Started

(* What a call holds.  A bot that is not built has no calls.               *)
CallsOK ==
  /\ \A h \in Handlers : hpc[h] = "idle" => hnew[h] = NoDrainer
  /\ \A h \in Handlers : htaken[h] # NoDrainer => hpc[h] = "closing"
  /\ ~built => Busy = {}

(* What overlap records.                                                   *)
OverlapOK ==
  /\ overlap # "now" => \A g, h \in Busy : g = h
  /\ overlap = "now" => Busy # {}

(* What was told holds until a call stores.                                *)
Told ==
  /\ answer # Unsure => row \in {answer, NoRow}
  /\ answer # Unsure \/ ~answered => current = IF answered THEN answer ELSE NoDrainer

(* How far h is, when the other calls are idle.  The row is written before *)
(* the deliverer changes.                                                  *)
Lone(h) ==
  /\ overlap = "none" => Live = {current, htaken[h]} \ {NoDrainer}
  /\ hpc[h] \in {"closing", "starting"} => current = NoDrainer
  /\ hpc[h] \in {"clearing", "taking", "closing", "starting"} => row \in {hnew[h], NoRow}
  /\ hpc[h] \in {"idle", "storing"} => Told

LoneOK ==
  /\ overlap = "none" => Live = Named
  /\ overlap # "now" => \A h \in Handlers :
       /\ hpc[h] \in {"closing", "starting"} => current = NoDrainer
       /\ hpc[h] \in {"clearing", "taking", "closing", "starting"} => row \in {hnew[h], NoRow}
  /\ overlap # "now" /\ (\A h \in Handlers : hpc[h] \in {"idle", "storing"}) => Told

(* A bot without a row is forgotten with the process.                      *)
NoRowForgets == ~built /\ row = NoRow => answer = NoDrainer

ServedInv ==
  StopsForGood /\ CallsOK /\ OverlapOK /\ LoneOK /\ NoRowForgets

(* What is typed.                                                          *)
LEMMA CallsTyped ==
  ASSUME HookInv
  PROVE  /\ dpc \in [Deliverers -> Labels] /\ after \in [Deliverers -> Ends]
         /\ stopped \subseteq Deliverers
         /\ current \in Deliverers \cup {NoDrainer}
         /\ hpc \in [Handlers -> {"idle", "storing", "clearing", "taking", "closing", "starting"}]
         /\ hnew \in [Handlers -> Deliverers \cup {NoDrainer}]
         /\ htaken \in [Handlers -> Deliverers \cup {NoDrainer}]
         /\ NoDrainer \notin Deliverers
BY BufferAssumption, WebhookAssumption DEF HookInv, HookCore, HookTypeOK, Labels, Ends

(* A step of run: it goes on, and ends only after its stop.                *)
LEMMA RunStays ==
  ASSUME HookInv, ServedInv, NEW d \in Deliverers, Run(d)
  PROVE  /\ UNCHANGED setupVars
         /\ \A e \in Deliverers : e # d => dpc'[e] = dpc[e] /\ after'[e] = after[e]
         /\ dpc[d] \notin {"unused", "reserved", "exited"}
         /\ dpc'[d] \notin {"unused", "reserved"}
         /\ dpc'[d] = "exited" => d \in stopped
         /\ after'[d] = "exited" => d \in stopped
<1>1. /\ dpc \in [Deliverers -> Labels] /\ after \in [Deliverers -> Ends]
      /\ after[d] \in Ends /\ (after[d] = "exited" => d \in stopped)
  BY CallsTyped DEF ServedInv, StopsForGood
<1>2. CASE Top(d) \/ DeliverLock(d) \/ CollectNothing(d) \/ Collect(d) \/ BackoffEnds(d)
  BY <1>1, <1>2 DEF Top, DeliverLock, CollectNothing, Collect, BackoffEnds, At, Go
<1>3. CASE NextItem(d) \/ Skip(d) \/ Post(d) \/ Accepted(d) \/ GiveUp(d)
  BY <1>1, <1>3 DEF NextItem, Skip, Post, Accepted, GiveUp, MovePast, At, Go
<1>4. CASE Rejected(d) \/ Settle(d) \/ Unlock(d)
  BY <1>1, <1>4 DEF Rejected, Settle, Unlock, At, Go, Ends
<1> QED BY <1>2, <1>3, <1>4 DEF Run

(* Watch sees nothing where no call moves.                                 *)
LEMMA WatchIdles ==
  ASSUME OverlapOK, Watch, UNCHANGED hpc
  PROVE  UNCHANGED toldVars
<1>1. Busy' = Busy
  BY DEF Busy
<1> QED BY <1>1 DEF Watch, CallsEnd, OverlapOK, toldVars

LEMMA RunKeepsServed ==
  ASSUME HookInv, ServedInv, NEW d \in Deliverers, Run(d), Watch, UNCHANGED built
  PROVE  ServedInv'
<1>1. UNCHANGED <<stopped, current, row, hpc, hnew, htaken>>
  BY RunStays DEF setupVars
<1>2. Live' = Live /\ Named' = Named /\ Started' = Started
  BY <1>1, RunStays DEF Live, Named, Started, Running
<1>3. StopsForGood'
  BY <1>1, <1>2, RunStays, CallsTyped DEF ServedInv, StopsForGood
<1>4. UNCHANGED <<overlap, answered, answer>>
  BY <1>1, WatchIdles DEF ServedInv, toldVars
<1>5. Busy' = Busy
  BY <1>1 DEF Busy
<1> QED BY <1>1, <1>2, <1>3, <1>4, <1>5
        DEF ServedInv, CallsOK, OverlapOK, LoneOK, Told, NoRowForgets

(* A step that moves only the call h.                                      *)
Moves(h) ==
  /\ built /\ built'
  /\ \A g \in Handlers \ {h} : hpc'[g] = hpc[g] /\ hnew'[g] = hnew[g] /\ htaken'[g] = htaken[g]
  /\ h \in Busy \cup Busy'

IsAlone(h) == overlap # "now" /\ \A g \in Handlers \ {h} : hpc[g] = "idle"

(* What Watch makes of the step of a call.  If the calls do not overlap    *)
(* after it, then either h is alone, or it ends the overlap.               *)
LEMMA WatchSees ==
  ASSUME OverlapOK, Watch, NEW h \in Handlers, Moves(h)
  PROVE  /\ OverlapOK'
         /\ overlap' = "now" \/ IsAlone(h)
            \/ (Busy' = {} /\ overlap' = "past" /\ answered' /\ answer' = Unsure)
<1>1. Busy' \ {h} = Busy \ {h}
  BY DEF Moves, Busy
<1>2. CASE \E g, k \in Busy' : g # k
  BY <1>2 DEF Watch, OverlapOK
<1>3. CASE ~(\E g, k \in Busy' : g # k) /\ overlap = "now"
  <2>1. CASE CallsEnd
    BY <1>3, <2>1 DEF Watch, OverlapOK, CallsEnd
  <2>2. CASE ~CallsEnd
    BY <1>3, <2>2 DEF Watch, OverlapOK, CallsEnd
  <2> QED BY <2>1, <2>2
<1>4. CASE ~(\E g, k \in Busy' : g # k) /\ overlap # "now"
  <2>1. overlap' = overlap
    BY <1>4 DEF Watch
  <2>2. \A g \in Busy : g = h
    BY <1>1, <1>4 DEF Moves, OverlapOK
  <2> QED BY <1>4, <2>1, <2>2 DEF OverlapOK, IsAlone, Busy
<1> QED BY <1>2, <1>3, <1>4

(* Of a call that is alone Watch records that it succeeded.                *)
LEMMA WatchLone ==
  ASSUME Watch, NEW h \in Handlers, Moves(h), IsAlone(h)
  PROVE  /\ overlap' = overlap
         /\ IF hpc'[h] = "idle" /\ hpc[h] # "storing"
              THEN answered' = TRUE /\ answer' = hnew[h]
              ELSE UNCHANGED <<answered, answer>>
<1>1. Busy \subseteq {h} /\ Busy' \subseteq {h}
  BY DEF IsAlone, Moves, Busy
<1>2. overlap' = overlap
  BY <1>1 DEF Watch, IsAlone
<1>3. CASE hpc'[h] = "idle"
  <2>1. Busy = {h} /\ Busy' = {}
    BY <1>1, <1>3 DEF Moves, Busy
  <2> QED BY <1>2, <1>3, <2>1 DEF Watch, CallsEnd, IsAlone
<1>4. CASE hpc'[h] # "idle"
  <2>1. Busy' = {h}
    BY <1>1, <1>4 DEF Busy
  <2> QED BY <1>2, <1>4, <2>1 DEF Watch, CallsEnd
<1> QED BY <1>2, <1>3, <1>4

(* What the invariant says of a call that is alone.                        *)
LEMMA LoneSays ==
  ASSUME ServedInv, NEW h \in Handlers, IsAlone(h)
  PROVE  Lone(h)
<1>1. \A g \in Handlers \ {h} : htaken[g] = NoDrainer
  BY DEF ServedInv, CallsOK, IsAlone
<1>2. Named = {current, htaken[h]} \ {NoDrainer}
  BY <1>1 DEF Named
<1> QED BY <1>2 DEF ServedInv, LoneOK, Lone, IsAlone

(* What is to be shown of a step of a call.                                *)
LEMMA CallKeepsServed ==
  ASSUME ServedInv, Watch, NEW h \in Handlers, Moves(h), StopsForGood',
         hpc'[h] = "idle" => hnew'[h] = NoDrainer,
         htaken'[h] # NoDrainer => hpc'[h] = "closing",
         IsAlone(h) => Lone(h)'
  PROVE  ServedInv'
<1>1. CallsOK'
  BY DEF ServedInv, CallsOK, Moves
<1>2. OverlapOK'
  BY WatchSees DEF ServedInv
<1>3. NoRowForgets'
  BY DEF NoRowForgets, Moves
<1>4. LoneOK'
  <2>1. CASE overlap' = "now"
    BY <2>1 DEF LoneOK
  <2>2. CASE Busy' = {} /\ overlap' = "past" /\ answered' /\ answer' = Unsure
    <3>1. \A g \in Handlers : hpc'[g] = "idle"
      BY <2>2 DEF Busy
    <3> QED BY <2>2, <3>1 DEF LoneOK, Told
  <2>3. CASE IsAlone(h)
    <3>1. \A g \in Handlers \ {h} : hpc'[g] = "idle" /\ htaken'[g] = NoDrainer
      BY <2>3, <1>1 DEF IsAlone, Moves, CallsOK
    <3>2. Named' = {current', htaken'[h]} \ {NoDrainer}
      BY <3>1 DEF Named
    <3> QED BY <2>3, <3>1, <3>2 DEF LoneOK, Lone
  <2> QED BY <2>1, <2>2, <2>3, WatchSees DEF ServedInv
<1> QED BY <1>1, <1>2, <1>3, <1>4 DEF ServedInv

(* What a call is about to start is not in the map, and is not stopped.    *)
LEMMA NewIsReserved ==
  ASSUME HookInv, ServedInv, NEW h \in Handlers, hpc[h] \in {"storing", "starting"}
  PROVE  hnew[h] \in Deliverers /\ dpc[hnew[h]] = "reserved" /\ hnew[h] \notin stopped
<1>1. Reserved /\ hnew[h] \in Deliverers \cup {NoDrainer}
  BY CallsTyped DEF HookInv, HookCore
<1> QED BY <1>1 DEF Reserved, ServedInv, StopsForGood, Started

-----------------------------------------------------------------------------
(* The steps of a call.                                                    *)

(* Steps that only write the row or clear the buffer.                      *)
LEMMA BookkeepingKeepsServed ==
  ASSUME HookInv, ServedInv, NEW h \in Handlers, Watch, built, UNCHANGED built,
         StoreWebhook(h) \/ DeleteWebhook(h) \/ DropPending(h)
  PROVE  ServedInv'
<1>1. PICK label \in {"taking", "clearing"} :
        /\ UNCHANGED <<dpc, after, stopped, current, htaken, hnew>>
        /\ hpc[h] \in {"storing", "idle", "clearing"}
        /\ hpc' = [hpc EXCEPT ![h] = label]
        /\ (hpc[h] = "clearing" /\ row' = row) \/ row' \in {hnew[h], NoRow}
  BY DEF StoreWebhook, DeleteWebhook, DropPending, HGo, Update, runVars, ServedInv, CallsOK
<1>2. Moves(h) /\ hpc'[h] = label /\ hnew'[h] = hnew[h] /\ htaken'[h] = htaken[h]
  BY <1>1, CallsTyped DEF Moves, Busy
<1>3. htaken[h] = NoDrainer
  BY <1>1 DEF ServedInv, CallsOK
<1>4. Live' = Live /\ Named' = Named /\ Started' = Started
  BY <1>1 DEF Live, Named, Started, Running
<1>5. StopsForGood'
  BY <1>1, <1>4 DEF ServedInv, StopsForGood
<1>6. ASSUME IsAlone(h) PROVE Lone(h)'
  <2>1. Lone(h) /\ overlap' = overlap
    BY <1>2, <1>6, LoneSays, WatchLone
  <2> QED BY <1>1, <1>2, <1>4, <2>1 DEF Lone
<1> QED BY <1>2, <1>3, <1>5, <1>6, CallKeepsServed

LEMMA SetWebhookKeepsServed ==
  ASSUME HookInv, ServedInv, NEW h \in Handlers, Watch, built, UNCHANGED built,
         NEW d \in Deliverers, NEW drop \in BOOLEAN, SetWebhook(h, d, drop)
  PROVE  ServedInv'
<1>1. /\ UNCHANGED <<after, stopped, current, htaken, row>>
      /\ dpc[d] = "unused" /\ dpc' = [dpc EXCEPT ![d] = "reserved"]
      /\ dpc \in [Deliverers -> Labels]
      /\ hpc[h] = "idle" /\ hpc' = [hpc EXCEPT ![h] = "storing"]
      /\ hnew' = [hnew EXCEPT ![h] = d]
  BY CallsTyped DEF SetWebhook, HGo, Go, At, StartAfresh
<1>2. Moves(h) /\ hpc'[h] = "storing" /\ htaken'[h] = htaken[h]
  BY <1>1, CallsTyped DEF Moves, Busy
<1>3. htaken[h] = NoDrainer
  BY <1>1 DEF ServedInv, CallsOK
<1>4. Live' = Live /\ Named' = Named /\ Started' = Started
  BY <1>1 DEF Live, Named, Started, Running
<1>5. StopsForGood'
  BY <1>1, <1>4 DEF ServedInv, StopsForGood
<1>6. ASSUME IsAlone(h) PROVE Lone(h)'
  <2>1. Lone(h) /\ UNCHANGED <<overlap, answered, answer>>
    BY <1>2, <1>6, LoneSays, WatchLone
  <2> QED BY <1>1, <1>2, <1>4, <2>1 DEF Lone, Told
<1> QED BY <1>2, <1>3, <1>5, <1>6, CallKeepsServed

LEMMA StoreFailsKeepsServed ==
  ASSUME HookInv, ServedInv, NEW h \in Handlers, Watch, built, UNCHANGED built, StoreFails(h)
  PROVE  ServedInv'
<1> DEFINE d == hnew[h]
<1>1. /\ UNCHANGED <<after, stopped, current, htaken, row>>
      /\ d \in Deliverers /\ dpc[d] = "reserved"
      /\ dpc' = [dpc EXCEPT ![d] = "unused"]
      /\ dpc \in [Deliverers -> Labels]
      /\ hpc[h] = "storing" /\ hpc' = [hpc EXCEPT ![h] = "idle"]
      /\ hnew' = [hnew EXCEPT ![h] = NoDrainer]
  BY CallsTyped, NewIsReserved DEF StoreFails, HGo, Go, StartAfresh
<1> HIDE DEF d
<1>2. Moves(h) /\ hpc'[h] = "idle" /\ hnew'[h] = NoDrainer /\ htaken'[h] = htaken[h]
  BY <1>1, CallsTyped DEF Moves, Busy
<1>3. htaken[h] = NoDrainer
  BY <1>1 DEF ServedInv, CallsOK
<1>4. Live' = Live /\ Named' = Named /\ Started' = Started
  BY <1>1 DEF Live, Named, Started, Running
<1>5. StopsForGood'
  BY <1>1, <1>4 DEF ServedInv, StopsForGood
<1>6. ASSUME IsAlone(h) PROVE Lone(h)'
  <2>1. Lone(h) /\ UNCHANGED <<overlap, answered, answer>>
    BY <1>1, <1>2, <1>6, LoneSays, WatchLone
  <2> QED BY <1>1, <1>2, <1>4, <2>1 DEF Lone, Told
<1> QED BY <1>2, <1>3, <1>5, <1>6, CallKeepsServed

LEMMA TakeKeepsServed ==
  ASSUME HookInv, ServedInv, NEW h \in Handlers, Watch, built, UNCHANGED built, Take(h)
  PROVE  ServedInv'
<1>1. /\ UNCHANGED <<dpc, after, stopped, row, hnew>>
      /\ current' = NoDrainer /\ htaken' = [htaken EXCEPT ![h] = current]
      /\ hpc[h] = "taking" /\ hpc' = [hpc EXCEPT ![h] = "closing"]
  BY CallsTyped DEF Take, HGo, runVars
<1>2. /\ Moves(h) /\ hpc'[h] = "closing" /\ hnew'[h] = hnew[h] /\ htaken'[h] = current
      /\ \A g \in Handlers : htaken'[g] \in {current, htaken[g]}
  BY <1>1, CallsTyped DEF Moves, Busy
<1>3. htaken[h] = NoDrainer
  BY <1>1 DEF ServedInv, CallsOK
<1>4. Live' = Live /\ Started' = Started /\ Named' \subseteq Named
  BY <1>1, <1>2 DEF Live, Named, Started, Running
<1>5. StopsForGood'
  BY <1>1, <1>4 DEF ServedInv, StopsForGood
<1>6. ASSUME IsAlone(h) PROVE Lone(h)'
  <2>1. Lone(h) /\ overlap' = overlap
    BY <1>2, <1>6, LoneSays, WatchLone
  <2> QED BY <1>1, <1>2, <1>3, <1>4, <2>1 DEF Lone
<1> QED BY <1>2, <1>5, <1>6, CallKeepsServed

LEMMA CloseStopKeepsServed ==
  ASSUME HookInv, ServedInv, NEW h \in Handlers, Watch, built, UNCHANGED built, CloseStop(h)
  PROVE  ServedInv'
<1>1. PICK label \in {"idle", "starting"} :
        /\ UNCHANGED <<dpc, after, current, row, hnew>>
        /\ htaken' = [htaken EXCEPT ![h] = NoDrainer]
        /\ stopped' = stopped \cup ({htaken[h]} \ {NoDrainer})
        /\ hpc[h] = "closing" /\ hpc' = [hpc EXCEPT ![h] = label]
        /\ label = "idle" <=> hnew[h] = NoDrainer
  BY CallsTyped DEF CloseStop, HGo, runVars
<1>2. /\ Moves(h) /\ hpc'[h] = label /\ hnew'[h] = hnew[h] /\ htaken'[h] = NoDrainer
      /\ \A g \in Handlers : htaken'[g] \in {NoDrainer, htaken[g]}
  BY <1>1, CallsTyped DEF Moves, Busy
<1>3. Started' = Started /\ stopped' \cup Named' \subseteq stopped \cup Named
  BY <1>1, <1>2 DEF Named, Started
<1>4. StopsForGood'
  BY <1>1, <1>3 DEF ServedInv, StopsForGood
<1>5. ASSUME IsAlone(h) PROVE Lone(h)'
  <2>1. /\ Lone(h) /\ overlap' = overlap
        /\ label = "idle" => answered' = TRUE /\ answer' = hnew[h]
    BY <1>1, <1>2, <1>5, LoneSays, WatchLone
  <2>2. current = NoDrainer /\ row \in {hnew[h], NoRow}
    BY <1>1, <2>1 DEF Lone
  <2>3. overlap = "none" => Live' = {}
    <3>1. overlap = "none" => Live \subseteq {htaken[h]} \ {NoDrainer}
      BY <2>1, <2>2 DEF Lone
    <3> QED BY <1>1, <3>1 DEF Live, Running
  <2> QED BY <1>1, <1>2, <2>1, <2>2, <2>3 DEF Lone, Told
<1> QED BY <1>1, <1>2, <1>4, <1>5, CallKeepsServed

LEMMA StartRunKeepsServed ==
  ASSUME HookInv, ServedInv, NEW h \in Handlers, Watch, built, UNCHANGED built, StartRun(h)
  PROVE  ServedInv'
<1> DEFINE d == hnew[h]
<1>1. /\ UNCHANGED <<after, stopped, row, htaken>>
      /\ d \in Deliverers /\ dpc[d] = "reserved" /\ d \notin stopped
      /\ dpc' = [dpc EXCEPT ![d] = "top"] /\ dpc \in [Deliverers -> Labels]
      /\ current' = d /\ hnew' = [hnew EXCEPT ![h] = NoDrainer]
      /\ hpc[h] = "starting" /\ hpc' = [hpc EXCEPT ![h] = "idle"]
  BY CallsTyped, NewIsReserved DEF StartRun, HGo, Go
<1>2. Moves(h) /\ hpc'[h] = "idle" /\ hnew'[h] = NoDrainer /\ htaken'[h] = htaken[h]
  BY <1>1, CallsTyped DEF Moves, Busy
<1>3. htaken[h] = NoDrainer /\ d # NoDrainer
  BY <1>1, CallsTyped DEF ServedInv, CallsOK
<1>4. ASSUME IsAlone(h) PROVE Lone(h)'
  <2>1. Lone(h) /\ overlap' = overlap /\ answered' = TRUE /\ answer' = d
    BY <1>1, <1>2, <1>4, LoneSays, WatchLone
  <2>2. current = NoDrainer /\ row \in {d, NoRow} /\ (overlap = "none" => Live = {})
    BY <1>1, <1>3, <2>1 DEF Lone
  <2> HIDE DEF d
  <2>3. overlap = "none" => Live' = {d}
    BY <1>1, <2>2 DEF Live, Running
  <2> QED BY <1>1, <1>2, <1>3, <2>1, <2>2, <2>3 DEF Lone, Told
<1> HIDE DEF d
<1>5. Started \cup {d} \subseteq Started' /\ Named' \subseteq Named \cup {d}
  BY <1>1 DEF Named, Started
<1>6. StopsForGood'
  BY <1>1, <1>5 DEF ServedInv, StopsForGood
<1> QED BY <1>2, <1>3, <1>4, <1>6, CallKeepsServed

-----------------------------------------------------------------------------
(* The other steps.                                                        *)

LEMMA BuildKeepsServed ==
  ASSUME ServedInv, Build
  PROVE  ServedInv'
<1>1. /\ UNCHANGED <<dpc, after, stopped, current, hpc, hnew, htaken, overlap, answered, answer>>
      /\ row' = row \/ (row = NoRow /\ row' = NoDrainer)
      /\ ~built /\ built' = TRUE
  <2>1. ~built /\ built' = TRUE
    BY DEF Build
  <2>2. UNCHANGED <<dpc, after, stopped, current, hpc, hnew, htaken, overlap, answered, answer>>
    BY DEF Build, runVars, toldVars
  <2>3. row' = row \/ (row = NoRow /\ row' = NoDrainer)
    BY DEF Build
  <2> QED BY <2>1, <2>2, <2>3
<1>2. Live' = Live /\ Named' = Named /\ Started' = Started /\ Busy' = Busy
  BY <1>1 DEF Live, Named, Started, Running, Busy
<1>3. \A h \in Handlers : hpc[h] = "idle"
  BY <1>1 DEF ServedInv, CallsOK, Busy
<1>4. row = NoRow => answer = NoDrainer
  BY <1>1 DEF ServedInv, NoRowForgets
<1>5. Told => Told'
  BY <1>1, <1>4 DEF Told
<1>6. LoneOK'
  BY <1>1, <1>2, <1>3, <1>5 DEF ServedInv, LoneOK
<1> QED BY <1>1, <1>2, <1>6 DEF ServedInv, StopsForGood, CallsOK, OverlapOK, NoRowForgets

LEMMA EndKeepsServed ==
  ASSUME HookInv, ServedInv, EndOfProcess
  PROVE  ServedInv'
<1>1. /\ stopped' = {} /\ current' = NoDrainer /\ row' = row /\ built' = FALSE
      /\ dpc' \in [Deliverers -> {"unused", "exited"}]
      /\ \A d \in Deliverers : after'[d] = "top"
      /\ \A h \in Handlers : hpc'[h] = "idle" /\ hnew'[h] = NoDrainer /\ htaken'[h] = NoDrainer
      /\ overlap' = "none" /\ answered' = FALSE /\ answer' = AfterTheEnd
  BY DEF EndOfProcess
<1>2. Live' = {} /\ Named' = {} /\ Busy' = {}
  BY <1>1 DEF Live, Named, Running, Busy
<1>3. AfterTheEnd # Unsure => row \in {AfterTheEnd, NoRow}
  <2>1. SUFFICES ASSUME row # NoRow, overlap # "now", \A h \in Busy : hpc[h] = "storing"
                 PROVE  answer # Unsure => row = answer
    BY DEF AfterTheEnd
  <2>2. Told
    BY <2>1 DEF Busy, ServedInv, LoneOK
  <2> QED BY <2>1, <2>2 DEF Told
<1>4. row = NoRow => AfterTheEnd = NoDrainer
  BY DEF AfterTheEnd
<1> HIDE DEF AfterTheEnd
<1>5. Told'
  BY <1>1, <1>3 DEF Told
<1> QED BY <1>1, <1>2, <1>4, <1>5
        DEF ServedInv, StopsForGood, CallsOK, OverlapOK, LoneOK, NoRowForgets

LEMMA ServedNextInv == HookInv /\ ServedInv /\ [Next]_vars => ServedInv'
<1> SUFFICES ASSUME HookInv, ServedInv, [Next]_vars PROVE ServedInv'
  OBVIOUS
<1>1. CASE UNCHANGED <<dpc, after, stopped, current, row, hpc, hnew, htaken, built, toldVars>>
  <2>1. Busy' = Busy /\ Live' = Live /\ Named' = Named /\ Started' = Started
    BY <1>1 DEF Live, Named, Started, Running, Busy
  <2> QED BY <1>1, <2>1 DEF toldVars, ServedInv, StopsForGood, CallsOK, OverlapOK, LoneOK, Told,
          NoRowForgets
<1>2. CASE EndOfProcess \/ Build
  BY <1>2, EndKeepsServed, BuildKeepsServed
<1>3. CASE UNCHANGED vars
  BY <1>1, <1>3 DEF vars, hookVars, runVars, setupVars
<1>4. CASE Up(HookNext)
  <2>1. built /\ HookNext /\ Watch /\ UNCHANGED built
    BY <1>4 DEF Up
  <2>2. ASSUME NEW d \in Deliverers, Run(d) PROVE ServedInv'
    BY <2>1, <2>2, RunKeepsServed
  <2>3. ASSUME NEW h \in Handlers, Handle(h) PROVE ServedInv'
    BY <2>1, <2>3, SetWebhookKeepsServed, BookkeepingKeepsServed, StoreFailsKeepsServed,
       TakeKeepsServed, CloseStopKeepsServed, StartRunKeepsServed DEF Handle
  <2>4. CASE UNCHANGED hookVars
    <3>1. UNCHANGED toldVars
      BY <2>1, <2>4, WatchIdles DEF hookVars, setupVars, ServedInv
    <3> QED BY <1>1, <2>1, <2>4, <3>1 DEF hookVars, runVars, setupVars
  <2> QED BY <2>1, <2>2, <2>3, <2>4 DEF HookNext
<1> QED BY <1>2, <1>3, <1>4 DEF Next

(***************************************************************************)
(* For any number of calls, whichever of their stores fail, whether or not *)
(* the bot has a row, and however often the process ends in the middle of  *)
(* one: between calls the database has what the last answered call set, or *)
(* no row; the deliverer in the map is the one it set, if that was in this *)
(* life; and until calls overlap no other deliverer runs unstopped.        *)
(***************************************************************************)
THEOREM ServedFollowsRow == Safety => []ServedIsStored
<1>1. Init => ServedInv
  <2> SUFFICES ASSUME Init PROVE ServedInv
    OBVIOUS
  <2>1. Live = {} /\ Named = {} /\ Busy = {} /\ Started = {}
    BY DEF Init, HookInit, Live, Named, Running, Busy, Started
  <2> QED BY <2>1 DEF Init, HookInit, ServedInv, StopsForGood, CallsOK, OverlapOK, LoneOK, Told,
          NoRowForgets
<1>2. HookInv /\ ServedInv /\ [Next]_vars => ServedInv'
  BY ServedNextInv
<1>3. ServedInv => ServedIsStored
  <2> SUFFICES ASSUME ServedInv, Busy = {}
               PROVE  Told /\ (overlap = "none" => Live = {current} \ {NoDrainer})
    BY DEF ServedIsStored, Told, Live
  <2>1. \A h \in Handlers : hpc[h] = "idle" /\ htaken[h] = NoDrainer
    BY DEF ServedInv, CallsOK, Busy
  <2>2. Named = {current} \ {NoDrainer}
    BY <2>1 DEF Named
  <2>3. overlap # "now"
    BY DEF ServedInv, OverlapOK
  <2> QED BY <2>1, <2>2, <2>3 DEF ServedInv, LoneOK
<1> QED BY <1>1, <1>2, <1>3, RestartInvariant, PTL DEF Safety
=============================================================================
