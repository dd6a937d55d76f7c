------------------------------ MODULE Delivery ------------------------------
(***************************************************************************)
(* Both consumers of one bot's buffer at once.  getUpdates does not refuse *)
(* while a webhook is set, so calls and deliverers drain side by side,     *)
(* with only the drain lock between them; setWebhook and deleteWebhook     *)
(* clear the buffer without it.                                            *)
(***************************************************************************)
EXTENDS LongPoll, Webhook

ASSUME DeliveryAssumption == Pollers \cap Deliverers = {}

vars == <<bufVars, pollVars, hookVars>>

Init == BufInit /\ PollInit /\ HookInit

Next ==
  \/ (\E p \in Pollers : PollStep(p)) /\ UNCHANGED hookVars
  \/ (\E d \in Deliverers : Run(d)) /\ UNCHANGED pollVars
  \/ (\E h \in Handlers : Handle(h)) /\ UNCHANGED pollVars
  \/ (\E ok \in BOOLEAN : Push(ok)) /\ UNCHANGED <<pollVars, hookVars>>

Spec == Init /\ [][Next]_vars

(***************************************************************************)
(* An update the endpoint has accepted, or the deliverer has given up, is  *)
(* in no response a call puts together: a deliverer acks what it settled   *)
(* before any call gets the drain lock.                                    *)
(***************************************************************************)
SettledNotPolled ==
  \A p \in Pollers : pollPC[p] = "translating" =>
    \A n \in BatchIDs(p) : outcome[n] = "none"

(***************************************************************************)
(* What an offset has confirmed is never POSTed.                           *)
(***************************************************************************)
ConfirmedNotPosted ==
  \A d \in Deliverers : At(d, "posting") => Current(d).id >= confirmed

(***************************************************************************)
(* Between them the consumers lose nothing: an update that left the buffer *)
(* was settled by a deliverer, put before a call, passed by an offset, or  *)
(* evicted or dropped.                                                     *)
(***************************************************************************)
NothingSlipsThrough ==
  \A n \in 1..(nextID - 1) :
    n \in PendingIDs \cup lost \cup examined \/ n < asked \/ outcome[n] # "none"

(***************************************************************************)
(* However calls, deliverers and handlers interleave, they use the buffer  *)
(* as BufSpec says it may be used: only the holder of the drain lock acks, *)
(* and every update_id is assigned once.                                   *)
(***************************************************************************)
ImplementsBuffer == BufSpec
=============================================================================
