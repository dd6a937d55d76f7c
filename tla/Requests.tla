------------------------------ MODULE Requests ------------------------------
(***************************************************************************)
(* HTTP requests on their way through the server: Server.handle and        *)
(* handleFileDownload (internal/server), the temporary files of uploads,   *)
(* the counters of /stats, and the shutdown of main.go around them.        *)
(*                                                                         *)
(* Every request is served by a goroutine; they share the temporary        *)
(* directory, the counters and the process.  A method's handler is one of  *)
(* Paths (module Methods): steps, each of which may end it.  A download is *)
(* two goroutines with a pipe between them.                                *)
(***************************************************************************)
EXTENDS FiniteSets, Naturals, Sequences

CONSTANTS
  Requests,    \* the requests that are ever made
  Files,       \* names for temporary files
  Paths,       \* what a method's handler may do, step by step
  MaxChunks    \* chunks in the longest download

ASSUME RequestsAssumption ==
  /\ IsFiniteSet(Requests)
  /\ MaxChunks \in Nat

VARIABLES
  proc,        \* the process: "up", "closing", then "bye" or "cut"
  pc,          \* where each request is
  steps,       \* what its handler has yet to do
  outcome,     \* how it ended: "none" yet, "ok", "refused", "failed"
  changed,     \* it changed something, at Telegram or of the bot's
  disk,        \* the temporary files there are
  removes,     \* the files its handler's defers will remove
  kept,        \* the files uploadStickerFile made
  dl,          \* a download's second goroutine
  chunks,      \* chunks it has fetched
  broken,      \* nothing more can be written to the client of a download
  requests,    \* metrics.Requests
  errors       \* metrics.Errors

fileVars == <<disk, removes, kept>>
streamVars == <<dl, chunks, broken>>
counters == <<requests, errors>>
vars == <<proc, pc, steps, outcome, changed, fileVars, streamVars, counters>>

Streaming == {"copy", "await"}
Active == {"bot", "filebot", "dispatch", "verify", "run", "answer", "countrequest", "counterror"}
            \cup Streaming
InProgress(r) == pc[r] \in Active

TypeOK ==
  /\ proc \in {"up", "closing", "bye", "cut"}
  /\ pc \in [Requests -> {"new", "done"} \cup Active]
  /\ outcome \in [Requests -> {"none", "ok", "refused", "failed"}]
  /\ changed \in [Requests -> BOOLEAN]
  /\ disk \subseteq Files
  /\ removes \in [Requests -> SUBSET Files]
  /\ kept \subseteq Files
  /\ dl \in [Requests -> {"none", "fetching", "writing", "ended"}]
  /\ chunks \in [Requests -> 0..MaxChunks]
  /\ broken \in [Requests -> BOOLEAN]
  /\ requests \in Nat
  /\ errors \in Nat
  /\ \A r \in Requests : steps[r] # <<>> => pc[r] = "run"
  /\ \A r \in Requests : removes[r] # {} => pc[r] \in {"run", "answer"}
  /\ \A r \in Requests : pc[r] \in {"answer", "countrequest", "counterror"} => outcome[r] # "none"

Init ==
  /\ proc = "up"
  /\ pc = [r \in Requests |-> "new"]
  /\ steps = [r \in Requests |-> <<>>]
  /\ outcome = [r \in Requests |-> "none"]
  /\ changed = [r \in Requests |-> FALSE]
  /\ disk = {}
  /\ removes = [r \in Requests |-> {}]
  /\ kept = {}
  /\ dl = [r \in Requests |-> "none"]
  /\ chunks = [r \in Requests |-> 0]
  /\ broken = [r \in Requests |-> FALSE]
  /\ requests = 0
  /\ errors = 0

Running == proc \in {"up", "closing"}
At(r, label) == Running /\ pc[r] = label
Go(r, label) == pc' = [pc EXCEPT ![r] = label]
End(r, how, label) == outcome' = [outcome EXCEPT ![r] = how] /\ Go(r, label)

-----------------------------------------------------------------------------
(* handle, up to the method.                                               *)

(* A new connection, while the listener is open.  "/", /stats and a path   *)
(* that names no bot are answered at once.                                 *)
Accept(r) ==
  /\ proc = "up"
  /\ pc[r] = "new"
  /\ \/ \E label \in {"bot", "filebot"} : Go(r, label) /\ UNCHANGED outcome
     \/ \E how \in {"ok", "refused"} : End(r, how, "done")
  /\ UNCHANGED <<proc, steps, changed, fileVars, streamVars, counters>>

(* Manager.Get (module BotRegistry)                                        *)
GetBot(r) ==
  /\ \/ At(r, "bot") /\ Go(r, "dispatch") /\ UNCHANGED outcome
     \/ At(r, "filebot") /\ Go(r, "verify") /\ UNCHANGED outcome
     \/ (At(r, "bot") \/ At(r, "filebot")) /\ End(r, "failed", "done")
  /\ UNCHANGED <<proc, steps, changed, fileVars, streamVars, counters>>

(* getMe's cache; no such method; a body that does not parse, which is not *)
(* counted; and a handler.                                                 *)
Dispatch(r) ==
  /\ At(r, "dispatch")
  /\ \/ End(r, "ok", "countrequest") /\ UNCHANGED steps
     \/ End(r, "refused", "countrequest") /\ UNCHANGED steps
     \/ End(r, "refused", "done") /\ UNCHANGED steps
     \/ \E path \in Paths :
          /\ steps' = [steps EXCEPT ![r] = path]
          /\ Go(r, "run")
          /\ UNCHANGED outcome
  /\ UNCHANGED <<proc, changed, fileVars, streamVars, counters>>

-----------------------------------------------------------------------------
(* A handler.                                                              *)

NextStep(r, kinds) == At(r, "run") /\ steps[r] # <<>> /\ Head(steps[r]) \in kinds

Advance(r) ==
  /\ steps' = [steps EXCEPT ![r] = Tail(@)]
  /\ UNCHANGED <<pc, outcome>>

(* return nil, err                                                         *)
GiveUp(r, how) ==
  /\ steps' = [steps EXCEPT ![r] = <<>>]
  /\ End(r, how, "answer")

Check(r) ==
  /\ \/ NextStep(r, {"check"}) /\ Advance(r)
     \/ NextStep(r, {"check", "refuse"}) /\ GiveUp(r, "refused")
  /\ UNCHANGED <<proc, changed, fileVars, streamVars, counters>>

(* The RPC, or the test of what an earlier one returned.                   *)
Ask(r) ==
  /\ NextStep(r, {"ask", "confirm"})
  /\ Advance(r) \/ GiveUp(r, "failed")
  /\ UNCHANGED <<proc, changed, fileVars, streamVars, counters>>

(* Telegram did it and says so; did not; or did it and the answer is lost. *)
Change(r) ==
  /\ NextStep(r, {"do"})
  /\ \/ Advance(r) /\ changed' = [changed EXCEPT ![r] = TRUE]
     \/ GiveUp(r, "failed") /\ changed' \in {changed, [changed EXCEPT ![r] = TRUE]}
  /\ UNCHANGED <<proc, fileVars, streamVars, counters>>

(* os.CreateTemp, the copy, and the handler's defer os.Remove.             *)
WriteFile(r) ==
  /\ NextStep(r, {"file", "thumb"})
  /\ \E f \in Files \ disk :
       /\ disk' = disk \cup {f}
       /\ removes' = [removes EXCEPT ![r] = @ \cup {f}]
  /\ Advance(r)
  /\ UNCHANGED <<proc, changed, kept, streamVars, counters>>

WriteSticker(r) ==
  /\ NextStep(r, {"keep"})
  /\ \E f \in Files \ disk :
       /\ disk' = disk \cup {f}
       /\ kept' = kept \cup {f}
  /\ Advance(r)
  /\ UNCHANGED <<proc, changed, removes, streamVars, counters>>

(* A file id, which needs no file.                                         *)
ReferFile(r) ==
  /\ NextStep(r, {"file", "thumb", "keep"})
  /\ Advance(r)
  /\ UNCHANGED <<proc, changed, fileVars, streamVars, counters>>

(* No such part, a URL that cannot be fetched, a copy that fails and whose *)
(* file is removed at once.  A thumbnail is given up instead.              *)
FileFails(r) ==
  /\ \/ NextStep(r, {"file", "keep"}) /\ GiveUp(r, "refused")
     \/ NextStep(r, {"thumb"}) /\ Advance(r)
  /\ UNCHANGED <<proc, changed, fileVars, streamVars, counters>>

(* getUpdates has waited for the drain lock and for updates (modules       *)
(* LongPoll and BufferWait).                                               *)
PollReturns(r) ==
  /\ NextStep(r, {"wait"})
  /\ Advance(r)
  /\ UNCHANGED <<proc, changed, fileVars, streamVars, counters>>

Return(r) ==
  /\ At(r, "run")
  /\ steps[r] = <<>>
  /\ End(r, "ok", "answer")
  /\ UNCHANGED <<proc, steps, changed, fileVars, streamVars, counters>>

Answer_OnlyOnSuccess(r) ==
  /\ At(r, "answer")
  /\ disk' = IF outcome[r] = "ok" THEN disk \ removes[r] ELSE disk
  /\ removes' = [removes EXCEPT ![r] = {}]
  /\ Go(r, "countrequest")
  /\ UNCHANGED <<proc, steps, outcome, changed, kept, streamVars, counters>>

(* The defers, then writeOK or writeError.                                 *)
Answer(r) ==
  /\ At(r, "answer")
  /\ disk' = disk \ removes[r]
  /\ removes' = [removes EXCEPT ![r] = {}]
  /\ Go(r, "countrequest")
  /\ UNCHANGED <<proc, steps, outcome, changed, kept, streamVars, counters>>

-----------------------------------------------------------------------------
(* recordCall: the request is counted before its error is.                 *)

CountRequest_ErrorFirst(r) ==
  /\ At(r, "countrequest")
  /\ errors' = errors + (IF outcome[r] = "ok" THEN 0 ELSE 1)
  /\ Go(r, "counterror")
  /\ UNCHANGED <<proc, steps, outcome, changed, fileVars, streamVars, requests>>

CountRequest(r) ==
  /\ At(r, "countrequest")
  /\ requests' = requests + 1
  /\ Go(r, IF outcome[r] = "ok" THEN "done" ELSE "counterror")
  /\ UNCHANGED <<proc, steps, outcome, changed, fileVars, streamVars, errors>>

CountError(r) ==
  /\ At(r, "counterror")
  /\ errors' = errors + 1
  /\ Go(r, "done")
  /\ UNCHANGED <<proc, steps, outcome, changed, fileVars, streamVars, requests>>

-----------------------------------------------------------------------------
(* handleFileDownload                                                      *)

(* The signature; then the goroutine that downloads into the pipe.         *)
Verify(r) ==
  /\ At(r, "verify")
  /\ \/ Go(r, "copy") /\ dl' = [dl EXCEPT ![r] = "fetching"] /\ UNCHANGED outcome
     \/ End(r, "refused", "done") /\ UNCHANGED dl
  /\ UNCHANGED <<proc, steps, changed, fileVars, chunks, broken, counters>>

(* DownloadMedia has a chunk to write to the pipe.                         *)
Fetch(r) ==
  /\ Running
  /\ dl[r] = "fetching"
  /\ chunks[r] < MaxChunks
  /\ chunks' = [chunks EXCEPT ![r] = @ + 1]
  /\ dl' = [dl EXCEPT ![r] = "writing"]
  /\ UNCHANGED <<proc, pc, steps, outcome, changed, fileVars, broken, counters>>

FetchEnds_PipeOpen(r) ==
  /\ Running
  /\ dl[r] = "fetching"
  /\ dl' = [dl EXCEPT ![r] = "none"]
  /\ UNCHANGED <<proc, pc, steps, outcome, changed, fileVars, chunks, broken, counters>>

(* It returns, and its goroutine closes the pipe and says so.              *)
FetchEnds(r) ==
  /\ Running
  /\ dl[r] = "fetching"
  /\ dl' = [dl EXCEPT ![r] = "ended"]
  /\ UNCHANGED <<proc, pc, steps, outcome, changed, fileVars, chunks, broken, counters>>

(* The client hangs up, or the server's WriteTimeout of 65 s has passed    *)
(* since its request: writing to it fails from now on.  Earlier, or in a   *)
(* method, it makes no difference to the handler.                          *)
Break(r) ==
  /\ At(r, "copy")
  /\ broken' = [broken EXCEPT ![r] = TRUE]
  /\ UNCHANGED <<proc, pc, steps, outcome, changed, fileVars, dl, chunks, counters>>

(* io.Copy takes a chunk, in pieces, and passes it on.  When that fails it *)
(* returns, and nobody reads the pipe any more: the downloader has written *)
(* the chunk, or still writes the rest of it.                              *)
CopyChunk(r) ==
  /\ At(r, "copy")
  /\ dl[r] = "writing"
  /\ \/ dl' = [dl EXCEPT ![r] = "fetching"] /\ UNCHANGED pc
     \/ broken[r] /\ Go(r, "await") /\ dl' \in {dl, [dl EXCEPT ![r] = "fetching"]}
  /\ UNCHANGED <<proc, steps, outcome, changed, fileVars, chunks, broken, counters>>

CopyEnds(r) ==
  /\ At(r, "copy")
  /\ dl[r] = "ended"
  /\ Go(r, "await")
  /\ UNCHANGED <<proc, steps, outcome, changed, fileVars, streamVars, counters>>

StreamEnds_NotAwaited(r) ==
  /\ At(r, "await")
  /\ End(r, "ok", "done")
  /\ UNCHANGED <<proc, steps, changed, fileVars, streamVars, counters>>

(* <-done.  An error of the download is only logged.                       *)
StreamEnds(r) ==
  /\ At(r, "await")
  /\ dl[r] = "ended"
  /\ End(r, "ok", "done")
  /\ UNCHANGED <<proc, steps, changed, fileVars, streamVars, counters>>

-----------------------------------------------------------------------------
(* main.go: SIGTERM closes the listener; ListenAndServe waits for the      *)
(* requests in progress, five seconds at most, and the process exits.      *)

Signal ==
  /\ proc = "up"
  /\ proc' = "closing"
  /\ UNCHANGED <<pc, steps, outcome, changed, fileVars, streamVars, counters>>

Drain ==
  /\ proc = "closing"
  /\ \A r \in Requests : ~InProgress(r)
  /\ proc' = "bye"
  /\ UNCHANGED <<pc, steps, outcome, changed, fileVars, streamVars, counters>>

(* os.Exit(1): the requests are cut off, and their defers do not run.      *)
Deadline ==
  /\ proc = "closing"
  /\ \E r \in Requests : InProgress(r)
  /\ proc' = "cut"
  /\ UNCHANGED <<pc, steps, outcome, changed, fileVars, streamVars, counters>>

-----------------------------------------------------------------------------
HandlerStep(r) ==
  \/ GetBot(r) \/ Dispatch(r) \/ Check(r) \/ Ask(r) \/ Change(r)
  \/ WriteFile(r) \/ WriteSticker(r) \/ ReferFile(r) \/ FileFails(r)
  \/ Return(r) \/ Answer(r) \/ CountRequest(r) \/ CountError(r)
  \/ Verify(r) \/ CopyChunk(r) \/ CopyEnds(r) \/ StreamEnds(r)

DownloaderStep(r) == Fetch(r) \/ FetchEnds(r)

Next ==
  \/ \E r \in Requests :
       Accept(r) \/ HandlerStep(r) \/ PollReturns(r) \/ DownloaderStep(r) \/ Break(r)
  \/ Signal
  \/ Drain
  \/ Deadline

Safety == Init /\ [][Next]_vars

(***************************************************************************)
(* A goroutine that can run does, RPCs and downloads return, and a process *)
(* told to stop does so.  Nobody has to send requests or signals, and a    *)
(* poll may wait for good: its Wait may miss its timeout (BufferWait).     *)
(***************************************************************************)
Spec ==
  /\ Safety
  /\ \A r \in Requests : WF_vars(HandlerStep(r)) /\ WF_vars(DownloaderStep(r))
  /\ WF_vars(Drain \/ Deadline)

-----------------------------------------------------------------------------
(***************************************************************************)
(* A request that the server itself refuses has changed nothing: every     *)
(* test of the parameters and of the peers they name comes before the      *)
(* change, in every handler, so that a client may correct the request and  *)
(* send it again.  (A request that fails, with a 5xx or Telegram's error,  *)
(* may have done its work.)                                                *)
(***************************************************************************)
RefusedChangesNothing ==
  \A r \in Requests : outcome[r] = "refused" => ~changed[r]

(***************************************************************************)
(* The temporary files are those of requests whose handler is running,     *)
(* each with one owner that removes it, and those of uploadStickerFile,    *)
(* which stay for ever: a request leaves none behind however it ends, and  *)
(* none is removed from under another request.                             *)
(***************************************************************************)
FilesHaveOwners ==
  /\ disk = kept \cup UNION {removes[r] : r \in Requests}
  /\ \A r \in Requests : removes[r] \cap kept = {}
  /\ \A r, s \in Requests : r # s => removes[r] \cap removes[s] = {}
  /\ \A r \in Requests : removes[r] # {} => InProgress(r)

(***************************************************************************)
(* At no moment do the counters hold more errors than requests, or more    *)
(* requests than were answered, with calls of recordCall under way; and no *)
(* request that changed something and was answered is missing from them.   *)
(* (handleStats loads the two one after the other, the requests first: it  *)
(* may show errors of requests that it does not show.)                     *)
(***************************************************************************)
CountsAddUp ==
  /\ errors <= requests
  /\ requests <= Cardinality({r \in Requests : outcome[r] # "none"})
  /\ Cardinality({r \in Requests : changed[r] /\ pc[r] = "done"}) <= requests

(***************************************************************************)
(* No download goes on without its request: the handler does not return    *)
(* before the goroutine that downloads has closed the pipe and said so.    *)
(* And a handler that waits for that with the pipe unread does so because  *)
(* the reply broke, and for no other reason.                               *)
(***************************************************************************)
NoStrayDownload ==
  \A r \in Requests :
    /\ dl[r] \in {"fetching", "writing"} => pc[r] \in Streaming
    /\ pc[r] = "await" => dl[r] = "ended" \/ broken[r]

(***************************************************************************)
(* Every request is answered, unless the process is cut off, and a process *)
(* that ends by itself has answered all it accepted.  What may hang is a   *)
(* poll, and a download whose reply broke, because its client hung up or   *)
(* 65 s have passed: io.Copy has returned, and the goroutine that          *)
(* downloads waits for somebody to read the pipe.                          *)
(***************************************************************************)
Polling(r) == pc[r] = "run" /\ steps[r] # <<>> /\ Head(steps[r]) = "wait"
Hung(r) == broken[r] /\ pc[r] = "await" /\ dl[r] = "writing"

RequestsEnd ==
  \A r \in Requests :
    InProgress(r) ~> (pc[r] = "done" \/ proc = "cut" \/ Polling(r) \/ Hung(r))
=============================================================================
