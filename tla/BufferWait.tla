----------------------------- MODULE BufferWait -----------------------------
(***************************************************************************)
(* UpdateBuffer.Wait statement by statement (internal/botmgr/updates.go):  *)
(* one call that waits on the condition variable while pushes, clears, the *)
(* timer and the request's cancellation go on.  There is one waiter at a   *)
(* time: the caller holds the drain lock.                                  *)
(*                                                                         *)
(* sync.Cond.Wait joins the notify list, then unlocks mu, then sleeps, and *)
(* locks mu again when notified; Broadcast needs no lock and wakes only    *)
(* who is in the list.  Push and Clear run under mu.  Time is a counter    *)
(* that starts with the call.                                              *)
(***************************************************************************)
EXTENDS Integers

CONSTANTS
  Timeout,     \* the timeout argument; 0 does not wait
  Drift,       \* bound: time that may pass between arming the timer and
               \* computing the deadline
  MaxPushes    \* bound: pushes during the call

ASSUME WaitAssumption == Timeout \in Nat /\ Drift \in Nat /\ MaxPushes \in Nat

VARIABLES
  wpc,         \* where the waiter is
  mu,          \* who holds b.mu: "waiter" or "free"
  listed,      \* the waiter is in the notify list
  ready,       \* hasReady(b.items, offset)
  pushes,      \* pushes so far
  now,         \* time since the call
  deadline,    \* the deadline variable
  timer,       \* the AfterFunc timer: "off", "armed", "fired"
  ctx,         \* the context: "live", "cancelled"
  watcher,     \* the goroutine that waits for ctx.Done: "off", "on", "done"
  result       \* what Wait returned: "none", "items", "nothing"

vars == <<wpc, mu, listed, ready, pushes, now, deadline, timer, ctx, watcher, result>>

Inside == {"armed", "test", "ctx", "join", "park", "asleep", "return"}
MaxNow == Timeout + Drift + 1

Init ==
  /\ wpc = "call"
  /\ mu = "free"
  /\ listed = FALSE
  /\ ready \in BOOLEAN
  /\ pushes = 0
  /\ now = 0
  /\ deadline = 0
  /\ timer = "off"
  /\ ctx \in {"live", "cancelled"}
  /\ watcher = "off"
  /\ result = "none"

-----------------------------------------------------------------------------
(* The waiter.                                                             *)

LockMu ==
  /\ wpc = "call"
  /\ mu = "free"
  /\ mu' = "waiter"
  /\ wpc' = "enter"
  /\ UNCHANGED <<listed, ready, pushes, now, deadline, timer, ctx, watcher, result>>

(* Ready, or a timeout of 0: return at once.                               *)
ReturnAtOnce ==
  /\ wpc = "enter"
  /\ ready \/ Timeout = 0
  /\ result' = IF ready THEN "items" ELSE "nothing"
  /\ mu' = "free"
  /\ wpc' = "done"
  /\ UNCHANGED <<listed, ready, pushes, now, deadline, timer, ctx, watcher>>

(* The watcher goroutine starts and the timer is armed.                    *)
Arm ==
  /\ wpc = "enter"
  /\ ~ready /\ Timeout > 0
  /\ watcher' = "on"
  /\ timer' = "armed"
  /\ wpc' = "armed"
  /\ UNCHANGED <<mu, listed, ready, pushes, now, deadline, ctx, result>>

SetDeadline ==
  /\ wpc = "armed"
  /\ deadline' = now + Timeout
  /\ wpc' = "test"
  /\ UNCHANGED <<mu, listed, ready, pushes, now, timer, ctx, watcher, result>>

TestLoop_IgnoresDeadline ==
  /\ wpc = "test"
  /\ wpc' = IF ~ready THEN "ctx" ELSE "return"
  /\ UNCHANGED <<mu, listed, ready, pushes, now, deadline, timer, ctx, watcher, result>>

(* for !hasReady(...) && time.Now().Before(deadline)                       *)
TestLoop ==
  /\ wpc = "test"
  /\ wpc' = IF ~ready /\ now < deadline THEN "ctx" ELSE "return"
  /\ UNCHANGED <<mu, listed, ready, pushes, now, deadline, timer, ctx, watcher, result>>

TestCtx ==
  /\ wpc = "ctx"
  /\ wpc' = IF ctx = "cancelled" THEN "return" ELSE "join"
  /\ UNCHANGED <<mu, listed, ready, pushes, now, deadline, timer, ctx, watcher, result>>

(* sync.Cond.Wait: join the list, unlock, sleep, and lock again.           *)
Join ==
  /\ wpc = "join"
  /\ listed' = TRUE
  /\ wpc' = "park"
  /\ UNCHANGED <<mu, ready, pushes, now, deadline, timer, ctx, watcher, result>>

Park ==
  /\ wpc = "park"
  /\ mu' = "free"
  /\ wpc' = "asleep"
  /\ UNCHANGED <<listed, ready, pushes, now, deadline, timer, ctx, watcher, result>>

WakeUp_NoRetest ==
  /\ wpc = "asleep"
  /\ ~listed
  /\ mu = "free"
  /\ mu' = "waiter"
  /\ wpc' = "return"
  /\ UNCHANGED <<listed, ready, pushes, now, deadline, timer, ctx, watcher, result>>

WakeUp ==
  /\ wpc = "asleep"
  /\ ~listed
  /\ mu = "free"
  /\ mu' = "waiter"
  /\ wpc' = "test"
  /\ UNCHANGED <<listed, ready, pushes, now, deadline, timer, ctx, watcher, result>>

(* The snapshot is taken, and the deferred Stop and close(done) run.       *)
Leave ==
  /\ wpc = "return"
  /\ result' = IF ready THEN "items" ELSE "nothing"
  /\ mu' = "free"
  /\ wpc' = "done"
  /\ timer' = "off"
  /\ watcher' = "off"
  /\ UNCHANGED <<listed, ready, pushes, now, deadline, ctx>>

Waiter ==
  \/ LockMu \/ ReturnAtOnce \/ Arm \/ SetDeadline \/ TestLoop \/ TestCtx
  \/ Join \/ Park \/ WakeUp \/ Leave

-----------------------------------------------------------------------------
(* Everybody else.                                                         *)

Broadcast == listed' = FALSE

(* A push of an update with an id below the offset makes nothing ready.    *)
Push_NoBroadcast ==
  /\ mu = "free"
  /\ pushes < MaxPushes
  /\ pushes' = pushes + 1
  /\ ready' \in {ready, TRUE}
  /\ UNCHANGED <<wpc, mu, listed, now, deadline, timer, ctx, watcher, result>>

Push ==
  /\ mu = "free"
  /\ pushes < MaxPushes
  /\ pushes' = pushes + 1
  /\ ready' \in {ready, TRUE}
  /\ Broadcast
  /\ UNCHANGED <<wpc, mu, now, deadline, timer, ctx, watcher, result>>

Clear ==
  /\ mu = "free"
  /\ ready
  /\ ready' = FALSE
  /\ UNCHANGED <<wpc, mu, listed, pushes, now, deadline, timer, ctx, watcher, result>>

Fire ==
  /\ timer = "armed"
  /\ now >= Timeout
  /\ timer' = "fired"
  /\ Broadcast
  /\ UNCHANGED <<wpc, mu, ready, pushes, now, deadline, ctx, watcher, result>>

Cancel ==
  /\ ctx = "live"
  /\ ctx' = "cancelled"
  /\ UNCHANGED <<wpc, mu, listed, ready, pushes, now, deadline, timer, watcher, result>>

Watch ==
  /\ watcher = "on"
  /\ ctx = "cancelled"
  /\ watcher' = "done"
  /\ Broadcast
  /\ UNCHANGED <<wpc, mu, ready, pushes, now, deadline, timer, ctx, result>>

(* Time passes; at most Drift of it between Arm and SetDeadline.  (Arm     *)
(* takes no time, so the timer is due at Timeout.)                         *)
Tick ==
  /\ wpc \in Inside
  /\ now < MaxNow
  /\ wpc = "armed" => now < Drift
  /\ now' = now + 1
  /\ UNCHANGED <<wpc, mu, listed, ready, pushes, deadline, timer, ctx, watcher, result>>

Next == Waiter \/ Push \/ Clear \/ Fire \/ Cancel \/ Watch \/ Tick

Safety == Init /\ [][Next]_vars

(***************************************************************************)
(* Goroutines run, an armed timer fires, time goes on.  Whether anything   *)
(* is pushed, cleared or cancelled is up to others.                        *)
(***************************************************************************)
Spec ==
  /\ Safety
  /\ WF_vars(Waiter) /\ WF_vars(Fire) /\ WF_vars(Watch) /\ WF_vars(Tick)
  /\ SF_vars(LockMu) /\ SF_vars(WakeUp)

-----------------------------------------------------------------------------
(***************************************************************************)
(* However the pieces of Wait interleave with pushes, clears, the timer    *)
(* and the cancellation, a call looks like one step to its caller: what it *)
(* returns is what was ready at that moment, a wake-up meant for another   *)
(* update or for one that was cleared again does not end it, and it comes  *)
(* back with nothing only at its deadline, for a cancelled request, or     *)
(* when told not to wait.                                                  *)
(***************************************************************************)
Over == Timeout = 0 \/ ctx = "cancelled" \/ (deadline > 0 /\ now >= deadline)

OneStep == INSTANCE OneStepWait WITH over <- Over

ImplementsOneStep == OneStep!Spec

(***************************************************************************)
(* A push ends the wait, unless a clear takes the update away first.       *)
(***************************************************************************)
PushEndsWait == wpc = "asleep" /\ ready ~> wpc = "done" \/ ~ready

(***************************************************************************)
(* A sleeper that has reason to give up, and whose timer has yet to fire,  *)
(* ends: the timer's broadcast reaches it and it does not go back to       *)
(* sleep.  The code promises no more.  The timer fires once, and is armed  *)
(* before the deadline is computed (updates.go:147, :149): a waiter that   *)
(* its broadcast finds before the deadline, or between the tests and the   *)
(* join of the notify list, sleeps on until the next push.                 *)
(***************************************************************************)
DueTimerEndsWait == wpc = "asleep" /\ timer = "armed" /\ Over ~> wpc = "done"
=============================================================================
