----------------------------- MODULE MCRequests -----------------------------
(* The requests of the Bot API methods this server has.                    *)
EXTENDS Requests, MoreMethods
=============================================================================
