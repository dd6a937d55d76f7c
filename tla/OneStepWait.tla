---------------------------- MODULE OneStepWait ----------------------------
(***************************************************************************)
(* What UpdateBuffer.Wait promises the long poll and the deliverer, whose  *)
(* models take the call in one step: the snapshot it returns is that of    *)
(* the moment it returns, and it comes back with nothing only when nothing *)
(* is ready and there is no more reason to wait.                           *)
(***************************************************************************)
VARIABLES
  ready,       \* an update the caller waits for is in the buffer
  over,        \* the time is up, or the request cancelled
  result       \* "none" while the call waits, then "items" or "nothing"

Init ==
  /\ ready \in BOOLEAN
  /\ over \in BOOLEAN
  /\ result = "none"

ReturnItems ==
  /\ result = "none" /\ ready
  /\ result' = "items"
  /\ UNCHANGED <<ready, over>>

ReturnNothing ==
  /\ result = "none" /\ ~ready /\ over
  /\ result' = "nothing"
  /\ UNCHANGED <<ready, over>>

(* Updates come and go; once there is no reason to wait there is none.     *)
Others ==
  /\ ready' \in BOOLEAN
  /\ over' \in BOOLEAN /\ (over => over')
  /\ UNCHANGED result

Spec == Init /\ [][ReturnItems \/ ReturnNothing \/ Others]_<<ready, over, result>>
=============================================================================
