----------------------------- MODULE MCWebhook -----------------------------
(* Deliverers replacing one another on one buffer; they are                *)
(* interchangeable, and so are the calls that start them.  No property of  *)
(* these runs looks at the row, so the bot begins with one.                *)
EXTENDS Webhook, TLC

Symmetry == Permutations(Deliverers) \cup Permutations(Handlers)

StoredStart == HookStart /\ row = NoDrainer
StoredSafety == StoredStart /\ [][HookNext]_<<bufVars, hookVars>>
StoredSpec == StoredSafety /\ HookFairness
=============================================================================
