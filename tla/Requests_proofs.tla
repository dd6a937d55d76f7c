--------------------------- MODULE Requests_proofs ---------------------------
(***************************************************************************)
(* For any number of requests and files, and any methods: a temporary file *)
(* has one owner that removes it, the counters add up, and no download     *)
(* outlives its request.  For any methods whose handlers test before they  *)
(* change: a request that is refused has changed nothing.                  *)
(***************************************************************************)
EXTENDS Requests, FiniteSetTheorems, TLAPS

USE DEF At, Running, Go, End, NextStep, Advance, GiveUp

-----------------------------------------------------------------------------
(* Temporary files.                                                        *)

(* Only a handler between its first step and its answer has defers, and    *)
(* the files uploadStickerFile keeps are of nobody.                        *)
FilesInv ==
  /\ pc \in [Requests -> {"new", "done"} \cup Active]
  /\ removes \in [Requests -> SUBSET Files]
  /\ disk = kept \cup UNION {removes[r] : r \in Requests}
  /\ \A r \in Requests : removes[r] \cap kept = {}
  /\ \A r, s \in Requests : r # s => removes[r] \cap removes[s] = {}
  /\ \A r \in Requests : removes[r] # {} => pc[r] \in {"run", "answer"}

LEMMA FilesInit == Init => FilesInv
BY DEF Init, FilesInv, Active, Streaming, InProgress

(* Steps of a request that leave the files alone: whatever it has to       *)
(* remove, it goes on to where its defers still run.                       *)
LEMMA OtherStepsKeepFiles ==
  ASSUME FilesInv, Running, UNCHANGED <<proc, fileVars>>, NEW r \in Requests,
         NEW label \in {"new", "done"} \cup Active, pc' = [pc EXCEPT ![r] = label],
         pc[r] \in {"run", "answer"} => label \in {"run", "answer"}
  PROVE  FilesInv'
BY DEF FilesInv, fileVars, InProgress

LEMMA WriteFileKeepsFiles ==
  ASSUME FilesInv, NEW r \in Requests, WriteFile(r)
  PROVE  FilesInv'
<1>1. PICK f \in Files \ disk :
        /\ disk' = disk \cup {f}
        /\ removes' = [removes EXCEPT ![r] = @ \cup {f}]
  BY DEF WriteFile
<1>2. pc[r] = "run" /\ UNCHANGED <<proc, pc, kept>>
  BY DEF WriteFile
<1>3. removes \in [Requests -> SUBSET Files]
  BY DEF FilesInv
<1>4. removes' \in [Requests -> SUBSET Files]
  BY <1>1, <1>3
<1>5. \A s \in Requests : f \notin removes[s]
  BY <1>1 DEF FilesInv
<1>6. \A s \in Requests : removes'[s] = IF s = r THEN removes[r] \cup {f} ELSE removes[s]
  BY <1>1, <1>3
<1>7. disk' = kept' \cup UNION {removes'[s] : s \in Requests}
  <2>1. disk = kept \cup UNION {removes[s] : s \in Requests}
    BY DEF FilesInv
  <2>2. UNION {removes'[s] : s \in Requests} = (UNION {removes[s] : s \in Requests}) \cup {f}
    BY <1>6
  <2> QED BY <1>1, <1>2, <2>1, <2>2
<1>8. f \notin kept
  BY <1>1 DEF FilesInv
<1> QED BY <1>2, <1>4, <1>5, <1>6, <1>7, <1>8 DEF FilesInv

LEMMA WriteStickerKeepsFiles ==
  ASSUME FilesInv, NEW r \in Requests, WriteSticker(r)
  PROVE  FilesInv'
<1>1. PICK f \in Files \ disk : disk' = disk \cup {f} /\ kept' = kept \cup {f}
  BY DEF WriteSticker
<1>2. UNCHANGED <<proc, pc, removes>>
  BY DEF WriteSticker
<1>3. \A s \in Requests : f \notin removes[s]
  BY <1>1 DEF FilesInv
<1> QED BY <1>1, <1>2, <1>3 DEF FilesInv, InProgress

LEMMA AnswerKeepsFiles ==
  ASSUME FilesInv, NEW r \in Requests, Answer(r)
  PROVE  FilesInv'
<1>1. /\ disk' = disk \ removes[r] /\ removes' = [removes EXCEPT ![r] = {}]
      /\ pc' = [pc EXCEPT ![r] = "countrequest"] /\ UNCHANGED <<proc, kept>>
  BY DEF Answer
<1>2. \A s \in Requests : removes'[s] = IF s = r THEN {} ELSE removes[s]
  BY <1>1 DEF FilesInv
<1>3. disk' = kept' \cup UNION {removes'[s] : s \in Requests}
  <2>1. disk = kept \cup UNION {removes[s] : s \in Requests}
    BY DEF FilesInv
  <2>2. UNION {removes'[s] : s \in Requests} = (UNION {removes[s] : s \in Requests}) \ removes[r]
    BY <1>2 DEF FilesInv
  <2>3. removes[r] \cap kept = {}
    BY DEF FilesInv
  <2> QED BY <1>1, <2>1, <2>2, <2>3
<1> QED BY <1>1, <1>2, <1>3 DEF FilesInv, Active, InProgress

LEMMA HandlerKeepsFiles ==
  ASSUME FilesInv, NEW r \in Requests, HandlerStep(r) \/ PollReturns(r)
  PROVE  FilesInv'
<1> USE DEF Active, Streaming
<1>1. CASE GetBot(r)
  BY <1>1, OtherStepsKeepFiles DEF GetBot
<1>2. CASE Dispatch(r)
  BY <1>2, OtherStepsKeepFiles DEF Dispatch
<1>3. CASE Check(r) \/ Ask(r) \/ Change(r) \/ ReferFile(r) \/ PollReturns(r) \/ FileFails(r)
  <2>1. /\ UNCHANGED <<proc, fileVars>> /\ pc[r] = "run" /\ Running
        /\ UNCHANGED pc \/ pc' = [pc EXCEPT ![r] = "answer"]
    BY <1>3 DEF Check, Ask, Change, ReferFile, PollReturns, FileFails
  <2>2. UNCHANGED pc => pc' = [pc EXCEPT ![r] = "run"]
    BY <2>1 DEF FilesInv
  <2> QED BY <2>1, <2>2, OtherStepsKeepFiles
<1>4. CASE WriteFile(r)
  BY <1>4, WriteFileKeepsFiles
<1>5. CASE WriteSticker(r)
  BY <1>5, WriteStickerKeepsFiles
<1>6. CASE Return(r)
  BY <1>6, OtherStepsKeepFiles DEF Return
<1>7. CASE Answer(r)
  BY <1>7, AnswerKeepsFiles
<1>8. CASE CountRequest(r) \/ CountError(r)
  BY <1>8, OtherStepsKeepFiles DEF CountRequest, CountError
<1>9. CASE Verify(r)
  BY <1>9, OtherStepsKeepFiles DEF Verify
<1>10. CASE CopyChunk(r)
  <2>1. UNCHANGED pc => pc' = [pc EXCEPT ![r] = "copy"]
    BY <1>10 DEF CopyChunk, FilesInv
  <2> QED BY <1>10, <2>1, OtherStepsKeepFiles DEF CopyChunk
<1>11. CASE CopyEnds(r) \/ StreamEnds(r)
  BY <1>11, OtherStepsKeepFiles DEF CopyEnds, StreamEnds
<1> QED BY <1>1, <1>2, <1>3, <1>4, <1>5, <1>6, <1>7, <1>8, <1>9, <1>10, <1>11 DEF HandlerStep

LEMMA FilesStep == FilesInv /\ [Next]_vars => FilesInv'
<1> SUFFICES ASSUME FilesInv, [Next]_vars PROVE FilesInv'
  OBVIOUS
<1>1. ASSUME NEW r \in Requests, Accept(r) PROVE FilesInv'
  <2>1. PICK label \in {"bot", "filebot", "done"} : pc' = [pc EXCEPT ![r] = label]
    BY <1>1 DEF Accept
  <2> QED BY <1>1, <2>1, OtherStepsKeepFiles DEF Accept, Active
<1>2. ASSUME NEW r \in Requests, HandlerStep(r) \/ PollReturns(r) PROVE FilesInv'
  BY <1>2, HandlerKeepsFiles
<1>3. ASSUME NEW r \in Requests, DownloaderStep(r) \/ Break(r) PROVE FilesInv'
  BY <1>3 DEF DownloaderStep, Fetch, FetchEnds, Break, FilesInv, fileVars, InProgress
<1>4. CASE Signal \/ Drain \/ Deadline
  BY <1>4 DEF Signal, Drain, Deadline, FilesInv, fileVars, InProgress
<1>5. CASE UNCHANGED vars
  BY <1>5 DEF vars, FilesInv, fileVars, InProgress
<1> QED BY <1>1, <1>2, <1>3, <1>4, <1>5 DEF Next

LEMMA FilesAlways == Safety => []FilesInv
BY FilesInit, FilesStep, PTL DEF Safety

(***************************************************************************)
(* Whatever happens to the requests, each temporary file has exactly one   *)
(* defer that removes it, and belongs to a request in progress, but for    *)
(* those of uploadStickerFile.                                             *)
(***************************************************************************)
THEOREM FilesAreOwned == Safety => []FilesHaveOwners
<1>1. FilesInv => FilesHaveOwners
  BY DEF FilesInv, FilesHaveOwners, InProgress, Active
<1> QED BY <1>1, FilesAlways, PTL

-----------------------------------------------------------------------------
(* Refusals.                                                               *)

Labels == {"new", "done"} \cup Active
Outcomes == {"none", "ok", "refused", "failed"}
Kinds == {"check", "ask", "do", "confirm", "file", "thumb", "keep", "wait", "refuse"}

(* What may refuse a request.                                              *)
Refusing == {"check", "refuse", "file", "keep"}

(* Nothing refuses after a change, in the path of a handler.               *)
ChangesLast(path) ==
  \A i, j \in 1..Len(path) : i < j /\ path[i] = "do" => path[j] \notin Refusing

ChecksFirst == Paths \subseteq {path \in Seq(Kinds) : ChangesLast(path)}

NoRefusal(path) == \A i \in 1..Len(path) : path[i] \notin Refusing

Early == {"new", "bot", "filebot", "dispatch", "verify"}

(* A request that has changed something is past its last test; one that is *)
(* still before its handler has changed nothing.                           *)
RefusalInv ==
  /\ pc \in [Requests -> Labels]
  /\ outcome \in [Requests -> Outcomes]
  /\ changed \in [Requests -> BOOLEAN]
  /\ steps \in [Requests -> Seq(Kinds)]
  /\ \A r \in Requests : ChangesLast(steps[r])
  /\ \A r \in Requests : changed[r] => NoRefusal(steps[r]) /\ outcome[r] # "refused"
  /\ \A r \in Requests : pc[r] \in Early => ~changed[r]
  /\ \A r \in Requests : pc[r] \in {"run"} \cup Early => outcome[r] # "refused"

(* What a handler has left to do after a step.                             *)
LEMMA Shorter ==
  ASSUME NEW path \in Seq(Kinds), path # <<>>, ChangesLast(path)
  PROVE  /\ Head(path) \in Kinds /\ Tail(path) \in Seq(Kinds)
         /\ ChangesLast(Tail(path))
         /\ NoRefusal(path) => Head(path) \notin Refusing /\ NoRefusal(Tail(path))
         /\ Head(path) = "do" => NoRefusal(Tail(path))
<1>1. /\ Len(path) \in Nat \ {0} /\ Head(path) = path[1] /\ Tail(path) \in Seq(Kinds)
      /\ Len(Tail(path)) = Len(path) - 1
      /\ \A i \in 1..Len(Tail(path)) : Tail(path)[i] = path[i + 1]
  OBVIOUS
<1>2. Head(path) \in Kinds
  OBVIOUS
<1>3. ChangesLast(Tail(path))
  BY <1>1 DEF ChangesLast
<1>4. NoRefusal(path) => Head(path) \notin Refusing /\ NoRefusal(Tail(path))
  BY <1>1 DEF NoRefusal
<1>5. Head(path) = "do" => NoRefusal(Tail(path))
  <2> SUFFICES ASSUME Head(path) = "do", NEW i \in 1..Len(Tail(path))
               PROVE  Tail(path)[i] \notin Refusing
    BY DEF NoRefusal
  <2>1. i + 1 \in 1..Len(path) /\ 1 \in 1..Len(path) /\ 1 < i + 1
    BY <1>1
  <2> QED BY <1>1, <2>1 DEF ChangesLast
<1> QED BY <1>1, <1>2, <1>3, <1>4, <1>5

LEMMA EmptyPath == <<>> \in Seq(Kinds) /\ ChangesLast(<<>>) /\ NoRefusal(<<>>)
BY DEF ChangesLast, NoRefusal

LEMMA RefusalInit == Init => RefusalInv
<1> SUFFICES ASSUME Init PROVE RefusalInv
  OBVIOUS
<1>1. /\ pc \in [Requests -> Labels] /\ outcome \in [Requests -> Outcomes]
      /\ changed \in [Requests -> BOOLEAN]
  BY DEF Init, Labels, Outcomes
<1>2. steps \in [Requests -> Seq(Kinds)] /\ \A r \in Requests : ChangesLast(steps[r])
  <2>1. \A r \in Requests : steps[r] = <<>>
    BY DEF Init
  <2>2. steps = [r \in Requests |-> steps[r]]
    BY DEF Init
  <2> QED BY <2>1, <2>2, EmptyPath
<1>3. \A r \in Requests : ~changed[r] /\ outcome[r] # "refused"
  BY DEF Init
<1> QED BY <1>1, <1>2, <1>3 DEF RefusalInv

LEMMA AdvanceKeepsRefusals ==
  ASSUME RefusalInv, NEW r \in Requests, steps[r] # <<>>, pc[r] = "run", Advance(r),
         \/ UNCHANGED changed
         \/ Head(steps[r]) = "do" /\ changed' = [changed EXCEPT ![r] = TRUE]
  PROVE  RefusalInv'
<1>1. /\ steps[r] \in Seq(Kinds) /\ ChangesLast(steps[r])
      /\ steps' = [steps EXCEPT ![r] = Tail(steps[r])] /\ UNCHANGED <<pc, outcome>>
  BY DEF RefusalInv
<1>2. /\ Tail(steps[r]) \in Seq(Kinds) /\ ChangesLast(Tail(steps[r]))
      /\ NoRefusal(steps[r]) => NoRefusal(Tail(steps[r]))
      /\ Head(steps[r]) = "do" => NoRefusal(Tail(steps[r]))
  BY <1>1, Shorter
<1>3. /\ changed' \in [Requests -> BOOLEAN] /\ steps' \in [Requests -> Seq(Kinds)]
      /\ \A s \in Requests : changed'[s] => changed[s] \/ (s = r /\ Head(steps[r]) = "do")
  <2>1. changed \in [Requests -> BOOLEAN] /\ steps \in [Requests -> Seq(Kinds)]
    BY DEF RefusalInv
  <2>2. steps' \in [Requests -> Seq(Kinds)]
    BY <1>1, <1>2, <2>1
  <2> QED BY <2>1, <2>2
<1>4. \A s \in Requests : steps'[s] = IF s = r THEN Tail(steps[r]) ELSE steps[s]
  BY <1>1 DEF RefusalInv
<1>5. \A s \in Requests : ChangesLast(steps'[s]) /\ (changed'[s] => NoRefusal(steps'[s]))
  BY <1>2, <1>3, <1>4 DEF RefusalInv
<1>6. outcome[r] # "refused"
  BY DEF RefusalInv
<1>7. \A s \in Requests : /\ changed'[s] => outcome[s] # "refused"
                          /\ pc[s] \in Early => ~changed'[s]
  BY <1>3, <1>6 DEF RefusalInv, Early
<1> QED BY <1>1, <1>3, <1>5, <1>7 DEF RefusalInv

LEMMA GiveUpKeepsRefusals ==
  ASSUME RefusalInv, NEW r \in Requests, steps[r] # <<>>, pc[r] = "run",
         NEW how \in Outcomes, GiveUp(r, how),
         \/ UNCHANGED changed /\ Head(steps[r]) \in Refusing
         \/ how # "refused" /\ changed' \in {changed, [changed EXCEPT ![r] = TRUE]}
  PROVE  RefusalInv'
<1>1. /\ steps[r] \in Seq(Kinds) /\ ChangesLast(steps[r])
      /\ steps' = [steps EXCEPT ![r] = <<>>]
      /\ outcome' = [outcome EXCEPT ![r] = how] /\ pc' = [pc EXCEPT ![r] = "answer"]
  BY DEF RefusalInv
<1>2. Head(steps[r]) \in Refusing => ~changed[r]
  BY <1>1, Shorter DEF RefusalInv
<1>3. /\ pc' \in [Requests -> Labels] /\ outcome' \in [Requests -> Outcomes]
      /\ changed' \in [Requests -> BOOLEAN] /\ steps' \in [Requests -> Seq(Kinds)]
  <2>1. /\ pc \in [Requests -> Labels] /\ outcome \in [Requests -> Outcomes]
        /\ changed \in [Requests -> BOOLEAN] /\ steps \in [Requests -> Seq(Kinds)]
    BY DEF RefusalInv
  <2>2. "answer" \in Labels /\ <<>> \in Seq(Kinds)
    BY EmptyPath DEF Labels, Active
  <2>3. pc' \in [Requests -> Labels] /\ outcome' \in [Requests -> Outcomes]
    BY <1>1, <2>1, <2>2
  <2>4. steps' \in [Requests -> Seq(Kinds)]
    BY <1>1, <2>1, <2>2
  <2>5. changed' \in [Requests -> BOOLEAN]
    BY <2>1
  <2> QED BY <2>3, <2>4, <2>5
<1>4. \A s \in Requests : ChangesLast(steps'[s]) /\ (changed'[s] => NoRefusal(steps'[s]))
  BY <1>1, EmptyPath DEF RefusalInv
<1>5. \A s \in Requests : changed'[s] => outcome'[s] # "refused"
  BY <1>1, <1>2 DEF RefusalInv
<1>6. \A s \in Requests : /\ pc'[s] \in Early => ~changed'[s]
                          /\ pc'[s] \in {"run"} \cup Early => outcome'[s] # "refused"
  BY <1>1 DEF RefusalInv, Early
<1> QED BY <1>3, <1>4, <1>5, <1>6 DEF RefusalInv

(* Steps outside the handler's own: the request goes on, or ends.          *)
LEMMA MoveKeepsRefusals ==
  ASSUME RefusalInv, NEW r \in Requests, UNCHANGED <<steps, changed>>,
         NEW label \in Labels, NEW how \in Outcomes,
         pc' = [pc EXCEPT ![r] = label], outcome' = [outcome EXCEPT ![r] = how],
         label \in Early => pc[r] \in Early,
         label \in {"run"} \cup Early => how # "refused",
         how = "refused" => ~changed[r]
  PROVE  RefusalInv'
<1>1. pc' \in [Requests -> Labels] /\ outcome' \in [Requests -> Outcomes]
  BY DEF RefusalInv
<1>2. \A s \in Requests : /\ pc'[s] = IF s = r THEN label ELSE pc[s]
                          /\ outcome'[s] = IF s = r THEN how ELSE outcome[s]
  BY DEF RefusalInv
<1> QED BY <1>1, <1>2 DEF RefusalInv

LEMMA HandlerKeepsRefusals ==
  ASSUME ChecksFirst, RefusalInv, NEW r \in Requests, HandlerStep(r) \/ PollReturns(r)
  PROVE  RefusalInv'
<1>1. outcome[r] \in Outcomes /\ outcome = [outcome EXCEPT ![r] = outcome[r]]
      /\ (pc[r] \in Early => ~changed[r] /\ outcome[r] # "refused")
  BY DEF RefusalInv
<1>2. changed[r] => outcome[r] # "refused"
  BY DEF RefusalInv
<1>3. CASE GetBot(r)
  <2>1. PICK label \in {"dispatch", "verify", "done"}, how \in Outcomes :
          /\ pc[r] \in Early /\ UNCHANGED <<steps, changed>> /\ how # "refused"
          /\ pc' = [pc EXCEPT ![r] = label] /\ outcome' = [outcome EXCEPT ![r] = how]
    BY <1>1, <1>3 DEF GetBot, Early, Outcomes
  <2>2. label \in Labels
    BY DEF Labels, Active
  <2> QED BY <2>1, <2>2, MoveKeepsRefusals
<1>4. CASE Dispatch(r)
  <2>1. CASE \E label \in {"countrequest", "done"}, how \in {"ok", "refused"} :
               End(r, how, label) /\ UNCHANGED steps
    <3>1. PICK label \in {"countrequest", "done"}, how \in {"ok", "refused"} :
            /\ pc' = [pc EXCEPT ![r] = label] /\ outcome' = [outcome EXCEPT ![r] = how]
            /\ UNCHANGED steps
      BY <2>1
    <3>2. ~changed[r] /\ UNCHANGED changed
      BY <1>1, <1>4 DEF Dispatch, Early
    <3>3. label \in Labels /\ label \notin {"run"} \cup Early /\ how \in Outcomes
      BY DEF Labels, Active, Outcomes, Early
    <3> QED BY <3>1, <3>2, <3>3, MoveKeepsRefusals
  <2>2. CASE \E path \in Paths : /\ steps' = [steps EXCEPT ![r] = path]
                                 /\ pc' = [pc EXCEPT ![r] = "run"]
                                 /\ UNCHANGED outcome
    <3>1. pc[r] = "dispatch" /\ UNCHANGED changed
      BY <1>4 DEF Dispatch
    <3>2. PICK path \in Paths : /\ steps' = [steps EXCEPT ![r] = path]
                                /\ pc' = [pc EXCEPT ![r] = "run"]
      BY <2>2
    <3>3. path \in Seq(Kinds) /\ ChangesLast(path)
      BY DEF ChecksFirst
    <3>4. "run" \in Labels /\ ~changed[r] /\ outcome[r] # "refused"
      BY <1>1, <3>1 DEF Labels, Active, Early
    <3> HIDE DEF Labels
    <3>5. pc' \in [Requests -> Labels] /\ steps' \in [Requests -> Seq(Kinds)]
      BY <3>2, <3>3, <3>4 DEF RefusalInv
    <3>6. UNCHANGED <<outcome, changed>>
      BY <2>2, <3>1
    <3>7. \A q \in Requests : /\ steps'[q] = IF q = r THEN path ELSE steps[q]
                              /\ pc'[q] = IF q = r THEN "run" ELSE pc[q]
      BY <3>2 DEF RefusalInv
    <3> QED BY <3>3, <3>4, <3>5, <3>6, <3>7 DEF RefusalInv
  <2> QED BY <1>4, <2>1, <2>2 DEF Dispatch
<1>5. CASE Check(r)
  <2>1. steps[r] # <<>> /\ pc[r] = "run" /\ Head(steps[r]) \in Refusing /\ UNCHANGED changed
    BY <1>5 DEF Check, Refusing
  <2>2. Advance(r) \/ GiveUp(r, "refused")
    BY <1>5 DEF Check
  <2> QED BY <2>1, <2>2, AdvanceKeepsRefusals, GiveUpKeepsRefusals DEF Outcomes
<1>6. CASE Ask(r)
  <2>1. steps[r] # <<>> /\ pc[r] = "run" /\ UNCHANGED changed
    BY <1>6 DEF Ask
  <2>2. Advance(r) \/ GiveUp(r, "failed")
    BY <1>6 DEF Ask
  <2> QED BY <2>1, <2>2, AdvanceKeepsRefusals, GiveUpKeepsRefusals DEF Outcomes
<1>7. CASE Change(r)
  <2>1. steps[r] # <<>> /\ pc[r] = "run" /\ Head(steps[r]) = "do"
    BY <1>7 DEF Change
  <2>2. \/ Advance(r) /\ changed' = [changed EXCEPT ![r] = TRUE]
        \/ GiveUp(r, "failed") /\ changed' \in {changed, [changed EXCEPT ![r] = TRUE]}
    BY <1>7 DEF Change
  <2> QED BY <2>1, <2>2, AdvanceKeepsRefusals, GiveUpKeepsRefusals DEF Outcomes
<1>8. CASE WriteFile(r) \/ WriteSticker(r) \/ ReferFile(r) \/ PollReturns(r)
  BY <1>8, AdvanceKeepsRefusals DEF WriteFile, WriteSticker, ReferFile, PollReturns
<1>9. CASE FileFails(r)
  <2>1. steps[r] # <<>> /\ pc[r] = "run" /\ UNCHANGED changed
    BY <1>9 DEF FileFails
  <2>2. Advance(r) \/ (GiveUp(r, "refused") /\ Head(steps[r]) \in Refusing)
    BY <1>9 DEF FileFails, Refusing
  <2> QED BY <2>1, <2>2, AdvanceKeepsRefusals, GiveUpKeepsRefusals DEF Outcomes
<1>10. CASE Return(r) \/ StreamEnds(r)
  <2>1. PICK label \in {"answer", "done"} :
          /\ pc' = [pc EXCEPT ![r] = label] /\ outcome' = [outcome EXCEPT ![r] = "ok"]
          /\ UNCHANGED <<steps, changed>>
    BY <1>10 DEF Return, StreamEnds
  <2>2. label \in Labels /\ label \notin {"run"} \cup Early /\ "ok" \in Outcomes
    BY DEF Labels, Active, Early, Outcomes
  <2> QED BY <2>1, <2>2, MoveKeepsRefusals
<1>11. CASE Answer(r) \/ CountRequest(r) \/ CountError(r) \/ CopyEnds(r)
  <2>1. PICK label \in {"countrequest", "counterror", "done", "await"} :
          pc' = [pc EXCEPT ![r] = label] /\ UNCHANGED <<steps, outcome, changed>>
    BY <1>11 DEF Answer, CountRequest, CountError, CopyEnds
  <2>2. label \in Labels /\ label \notin {"run"} \cup Early
    BY DEF Labels, Active, Streaming, Early
  <2> QED BY <1>1, <1>2, <2>1, <2>2, MoveKeepsRefusals
<1>12. CASE CopyChunk(r)
  <2>1. pc[r] = "copy" /\ pc = [pc EXCEPT ![r] = "copy"]
    BY <1>12 DEF CopyChunk, RefusalInv
  <2>2. PICK label \in {"copy", "await"} :
          pc' = [pc EXCEPT ![r] = label] /\ UNCHANGED <<steps, outcome, changed>>
    BY <1>12, <2>1 DEF CopyChunk
  <2>3. label \in Labels /\ label \notin {"run"} \cup Early
    BY DEF Labels, Active, Streaming, Early
  <2> QED BY <1>1, <1>2, <2>2, <2>3, MoveKeepsRefusals
<1>13. CASE Verify(r)
  <2>1. ~changed[r] /\ UNCHANGED <<steps, changed>>
    BY <1>1, <1>13 DEF Verify, Early
  <2>2. PICK label \in {"copy", "done"}, how \in Outcomes :
          pc' = [pc EXCEPT ![r] = label] /\ outcome' = [outcome EXCEPT ![r] = how]
    BY <1>1, <1>13 DEF Verify, Outcomes
  <2>3. label \in Labels /\ label \notin {"run"} \cup Early
    BY DEF Labels, Active, Streaming, Early
  <2> QED BY <2>1, <2>2, <2>3, MoveKeepsRefusals
<1> QED BY <1>3, <1>4, <1>5, <1>6, <1>7, <1>8, <1>9, <1>10, <1>11, <1>12, <1>13 DEF HandlerStep

LEMMA RefusalStep == ASSUME ChecksFirst, RefusalInv, [Next]_vars PROVE RefusalInv'
<1>1. ASSUME NEW r \in Requests, Accept(r) PROVE RefusalInv'
  <2>1. /\ outcome[r] \in Outcomes /\ outcome = [outcome EXCEPT ![r] = outcome[r]]
        /\ pc[r] \in Early /\ ~changed[r] /\ outcome[r] # "refused"
    BY <1>1 DEF Accept, RefusalInv, Early
  <2>2. PICK label \in {"bot", "filebot", "done"}, how \in Outcomes :
          /\ UNCHANGED <<steps, changed>> /\ (label \in Early => how # "refused")
          /\ pc' = [pc EXCEPT ![r] = label] /\ outcome' = [outcome EXCEPT ![r] = how]
    BY <1>1, <2>1 DEF Accept, Outcomes, Early
  <2>3. label \in Labels /\ label # "run"
    BY DEF Labels, Active
  <2> QED BY <2>1, <2>2, <2>3, MoveKeepsRefusals
<1>2. ASSUME NEW r \in Requests, HandlerStep(r) \/ PollReturns(r) PROVE RefusalInv'
  BY <1>2, HandlerKeepsRefusals
<1>3. ASSUME NEW r \in Requests, DownloaderStep(r) \/ Break(r) PROVE RefusalInv'
  BY <1>3 DEF DownloaderStep, Fetch, FetchEnds, Break, RefusalInv
<1>4. CASE Signal \/ Drain \/ Deadline
  BY <1>4 DEF Signal, Drain, Deadline, RefusalInv
<1>5. CASE UNCHANGED vars
  BY <1>5 DEF vars, RefusalInv
<1> QED BY <1>1, <1>2, <1>3, <1>4, <1>5 DEF Next

(***************************************************************************)
(* If no handler tests, refuses or reads a file after it has changed       *)
(* something, then a refused request has changed nothing, whatever else    *)
(* happens.  (The run evaluates the invariant for the handlers there are.) *)
(***************************************************************************)
THEOREM RefusalsAreClean ==
  ASSUME ChecksFirst
  PROVE  Safety => []RefusedChangesNothing
<1>1. Init => RefusalInv
  BY RefusalInit
<1>2. RefusalInv /\ [Next]_vars => RefusalInv'
  BY RefusalStep
<1>3. RefusalInv => RefusedChangesNothing
  BY DEF RefusalInv, RefusedChangesNothing
<1> QED BY <1>1, <1>2, <1>3, PTL DEF Safety


-----------------------------------------------------------------------------
(* The counters.                                                           *)

(* Requests that are counted and whose error is not yet; requests that     *)
(* ended and are not, or no longer, waiting to be counted; and requests    *)
(* that changed something and are counted.                                 *)
Erring == {r \in Requests : pc[r] = "counterror"}
Passed == {r \in Requests : outcome[r] # "none" /\ pc[r] \notin {"answer", "countrequest"}}
Shown == {r \in Requests : changed[r] /\ pc[r] \in {"done", "counterror"}}

CountsTyped ==
  /\ pc \in [Requests -> Labels]
  /\ outcome \in [Requests -> Outcomes]
  /\ changed \in [Requests -> BOOLEAN]

(* What a request counts for depends on how far it is.                     *)
Ended == {"answer", "countrequest", "counterror", "done"}
Stages ==
  \A r \in Requests :
    /\ pc[r] \in Ended <=> outcome[r] # "none"
    /\ changed[r] => pc[r] \in {"run"} \cup Ended

(* The errors still to be counted have their request counted already, and  *)
(* no request is counted twice.                                            *)
Bounds ==
  /\ requests \in Nat /\ errors \in Nat
  /\ errors + Cardinality(Erring) <= requests
  /\ requests <= Cardinality(Passed)
  /\ Cardinality(Shown) <= requests

CountsInv == CountsTyped /\ Stages /\ Bounds

(* Sets of requests are finite, and grow with what is in them.             *)
LEMMA Counting ==
  ASSUME NEW S \in SUBSET Requests
  PROVE  /\ Cardinality(S) \in Nat
         /\ \A T \in SUBSET S : Cardinality(T) <= Cardinality(S)
         /\ \A r : r \notin S => Cardinality(S \cup {r}) = Cardinality(S) + 1
         /\ \A r : Cardinality(S \cup {r}) <= Cardinality(S) + 1
         /\ \A r \in S : Cardinality(S \ {r}) = Cardinality(S) - 1
<1>1. IsFiniteSet(S)
  BY RequestsAssumption, FS_Subset
<1>2. Cardinality(S) \in Nat
  BY <1>1, FS_CardinalityType
<1>3. \A T \in SUBSET S : Cardinality(T) <= Cardinality(S)
  BY <1>1, FS_Subset
<1>4. \A r : Cardinality(S \cup {r}) = IF r \in S THEN Cardinality(S) ELSE Cardinality(S) + 1
  BY <1>1, FS_AddElement
<1>5. \A r \in S : Cardinality(S \ {r}) = Cardinality(S) - 1
  BY <1>1, FS_RemoveElement
<1> QED BY <1>2, <1>3, <1>4, <1>5

(* A step of one request, or of none, that counts nothing.                 *)
LEMMA UncountedKeeps ==
  ASSUME CountsInv, CountsTyped', Stages', UNCHANGED counters,
         \A r \in Requests : /\ pc'[r] = "counterror" => pc[r] = "counterror"
                             /\ r \in Passed => pc'[r] = pc[r] /\ outcome'[r] = outcome[r]
                             /\ r \in Shown' => r \in Shown
  PROVE  CountsInv'
<1>1. Erring' \subseteq Erring /\ Passed \subseteq Passed' /\ Shown' \subseteq Shown
  BY DEF Erring, Passed, Shown, Stages, Ended
<1>2. /\ Erring \subseteq Requests /\ Erring' \subseteq Requests /\ Passed \subseteq Requests
      /\ Passed' \subseteq Requests /\ Shown \subseteq Requests /\ Shown' \subseteq Requests
  BY DEF Erring, Passed, Shown
<1>3. /\ Cardinality(Erring') <= Cardinality(Erring)
      /\ Cardinality(Passed) <= Cardinality(Passed')
      /\ Cardinality(Shown') <= Cardinality(Shown)
  BY <1>1, <1>2, Counting
<1>4. /\ Cardinality(Erring) \in Nat /\ Cardinality(Erring') \in Nat
      /\ Cardinality(Passed) \in Nat /\ Cardinality(Passed') \in Nat
      /\ Cardinality(Shown) \in Nat /\ Cardinality(Shown') \in Nat
  BY <1>2, Counting
<1>5. Bounds'
  BY <1>3, <1>4 DEF CountsInv, Bounds, counters
<1> QED BY <1>5 DEF CountsInv

LEMMA CountRequestKeeps ==
  ASSUME CountsInv, NEW r \in Requests, CountRequest(r)
  PROVE  CountsInv'
<1>1. /\ requests' = requests + 1 /\ UNCHANGED <<errors, outcome, changed>>
      /\ pc[r] = "countrequest" /\ outcome[r] # "none"
      /\ \A s \in Requests : s # r => pc'[s] = pc[s]
      /\ pc'[r] \in {"done", "counterror"}
  BY DEF CountRequest, CountsInv, CountsTyped, Stages, Ended
<1>2. CountsTyped' /\ Stages'
  BY DEF CountRequest, CountsInv, CountsTyped, Stages, Ended, Labels, Active
<1>3. Erring' \subseteq Erring \cup {r} /\ Passed' = Passed \cup {r} /\ r \notin Passed
      /\ Shown' \subseteq Shown \cup {r}
  BY <1>1 DEF Erring, Passed, Shown
<1>4. /\ Erring \cup {r} \in SUBSET Requests /\ Shown \cup {r} \in SUBSET Requests
      /\ Erring \in SUBSET Requests /\ Passed \in SUBSET Requests /\ Shown \in SUBSET Requests
      /\ Erring' \in SUBSET Requests /\ Shown' \in SUBSET Requests
  BY DEF Erring, Passed, Shown
<1>5. /\ Cardinality(Erring') <= Cardinality(Erring) + 1
      /\ Cardinality(Erring') \in Nat /\ Cardinality(Erring) \in Nat
  <2>1. /\ Cardinality(Erring') <= Cardinality(Erring \cup {r})
        /\ Cardinality(Erring \cup {r}) \in Nat
    BY <1>3, <1>4, Counting
  <2>2. /\ Cardinality(Erring \cup {r}) <= Cardinality(Erring) + 1
        /\ Cardinality(Erring') \in Nat /\ Cardinality(Erring) \in Nat
    BY <1>4, Counting
  <2> QED BY <2>1, <2>2
<1>6. Cardinality(Passed') = Cardinality(Passed) + 1 /\ Cardinality(Passed) \in Nat
  BY <1>3, <1>4, Counting
<1>7. /\ Cardinality(Shown') <= Cardinality(Shown) + 1
      /\ Cardinality(Shown') \in Nat /\ Cardinality(Shown) \in Nat
  <2>1. /\ Cardinality(Shown') <= Cardinality(Shown \cup {r})
        /\ Cardinality(Shown \cup {r}) \in Nat
    BY <1>3, <1>4, Counting
  <2>2. /\ Cardinality(Shown \cup {r}) <= Cardinality(Shown) + 1
        /\ Cardinality(Shown') \in Nat /\ Cardinality(Shown) \in Nat
    BY <1>4, Counting
  <2> QED BY <2>1, <2>2
<1>8. Bounds'
  BY <1>1, <1>5, <1>6, <1>7 DEF CountsInv, Bounds
<1> QED BY <1>2, <1>8 DEF CountsInv

LEMMA CountErrorKeeps ==
  ASSUME CountsInv, NEW r \in Requests, CountError(r)
  PROVE  CountsInv'
<1>1. /\ errors' = errors + 1 /\ UNCHANGED <<requests, outcome, changed>>
      /\ pc[r] = "counterror" /\ pc'[r] = "done"
      /\ \A s \in Requests : s # r => pc'[s] = pc[s]
  BY DEF CountError, CountsInv, CountsTyped
<1>2. CountsTyped' /\ Stages'
  BY DEF CountError, CountsInv, CountsTyped, Stages, Ended, Labels
<1>3. Erring' = Erring \ {r} /\ r \in Erring /\ Passed' = Passed /\ Shown' = Shown
  BY <1>1 DEF Erring, Passed, Shown
<1>4. Erring \in SUBSET Requests
  BY DEF Erring
<1>5. Cardinality(Erring') = Cardinality(Erring) - 1 /\ Cardinality(Erring) \in Nat
  BY <1>3, <1>4, Counting
<1>6. Bounds'
  BY <1>1, <1>3, <1>5 DEF CountsInv, Bounds
<1> QED BY <1>2, <1>6 DEF CountsInv

(* A request that goes on, or ends, without being counted.                 *)
LEMMA MoveKeepsCounts ==
  ASSUME CountsInv, NEW r \in Requests, UNCHANGED counters,
         NEW label \in Labels, NEW how \in Outcomes, NEW did \in BOOLEAN,
         pc' = [pc EXCEPT ![r] = label], outcome' = [outcome EXCEPT ![r] = how],
         changed' = [changed EXCEPT ![r] = did],
         pc[r] \notin {"done", "countrequest", "counterror"}, label # "counterror",
         label \in Ended <=> how # "none",
         did => label \in {"run"} \cup Ended,
         did /\ label = "done" => FALSE
  PROVE  CountsInv'
<1>1. CountsTyped'
  BY DEF CountsInv, CountsTyped
<1>2. \A s \in Requests : /\ pc'[s] = IF s = r THEN label ELSE pc[s]
                          /\ outcome'[s] = IF s = r THEN how ELSE outcome[s]
                          /\ changed'[s] = IF s = r THEN did ELSE changed[s]
  BY DEF CountsInv, CountsTyped
<1>3. Stages'
  BY <1>2 DEF CountsInv, Stages
<1>4. r \notin Passed
  BY DEF CountsInv, Stages, Passed, Ended
<1>5. \A s \in Requests : /\ pc'[s] = "counterror" => pc[s] = "counterror"
                          /\ s \in Passed => pc'[s] = pc[s] /\ outcome'[s] = outcome[s]
                          /\ s \in Shown' => s \in Shown
  BY <1>2, <1>4 DEF Shown
<1> QED BY <1>1, <1>3, <1>5, UncountedKeeps

LEMMA HandlerKeepsCounts ==
  ASSUME CountsInv, NEW r \in Requests, HandlerStep(r) \/ PollReturns(r)
  PROVE  CountsInv'
<1> DEFINE Moved(label, how, did) ==
      /\ pc' = [pc EXCEPT ![r] = label] /\ outcome' = [outcome EXCEPT ![r] = how]
      /\ changed' = [changed EXCEPT ![r] = did]
<1>1. /\ pc = [pc EXCEPT ![r] = pc[r]] /\ outcome = [outcome EXCEPT ![r] = outcome[r]]
      /\ changed = [changed EXCEPT ![r] = changed[r]]
      /\ pc[r] \in Labels /\ outcome[r] \in Outcomes /\ changed[r] \in BOOLEAN
  BY DEF CountsInv, CountsTyped
<1>2. /\ pc[r] \in Ended <=> outcome[r] # "none"
      /\ changed[r] => pc[r] \in {"run"} \cup Ended
  BY DEF CountsInv, Stages
<1>3. CASE CountRequest(r)
  BY <1>3, CountRequestKeeps
<1>4. CASE CountError(r)
  BY <1>4, CountErrorKeeps
<1>5. CASE GetBot(r) \/ Dispatch(r) \/ Verify(r) \/ CopyEnds(r) \/ StreamEnds(r)
  <2>1. PICK label \in {"dispatch", "verify", "copy", "await", "countrequest", "run", "done"},
             how \in Outcomes :
          /\ Moved(label, how, changed[r]) /\ UNCHANGED counters
          /\ pc[r] \in {"bot", "filebot", "dispatch", "verify", "copy", "await"}
          /\ how = "none" <=> label \notin {"countrequest", "done"}
    BY <1>1, <1>2, <1>5 DEF GetBot, Dispatch, Verify, CopyEnds, StreamEnds, Outcomes, Ended
  <2> HIDE DEF Moved
  <2>2. ~changed[r]
    BY <1>2, <2>1 DEF Ended
  <2>3. label \in Labels
    BY <2>1 DEF Labels, Active, Streaming
  <2> QED BY <1>1, <2>1, <2>2, <2>3, MoveKeepsCounts DEF Moved, Ended
<1>6. CASE CopyChunk(r)
  <2>1. PICK label \in {"copy", "await"} :
          /\ Moved(label, outcome[r], changed[r]) /\ UNCHANGED counters
          /\ pc[r] = "copy"
    BY <1>1, <1>6 DEF CopyChunk
  <2>2. ~changed[r] /\ outcome[r] = "none" /\ label \in Labels
    BY <1>2, <2>1 DEF Ended, Labels, Active, Streaming
  <2> QED BY <1>1, <2>1, <2>2, MoveKeepsCounts DEF Ended
<1>7. CASE Answer(r)
  <2>1. /\ Moved("countrequest", outcome[r], changed[r]) /\ UNCHANGED counters
        /\ pc[r] = "answer"
    BY <1>1, <1>7 DEF Answer
  <2>2. "countrequest" \in Labels /\ outcome[r] # "none"
    BY <1>2, <2>1 DEF Ended, Labels, Active
  <2> QED BY <1>1, <2>1, <2>2, MoveKeepsCounts DEF Ended
<1>8. CASE \/ Check(r) \/ Ask(r) \/ Change(r) \/ WriteFile(r) \/ WriteSticker(r)
           \/ ReferFile(r) \/ PollReturns(r) \/ FileFails(r) \/ Return(r)
  <2>1. PICK label \in {"run", "answer"}, how \in Outcomes, did \in BOOLEAN :
          /\ Moved(label, how, did) /\ UNCHANGED counters
          /\ pc[r] = "run"
          /\ how = "none" <=> label = "run"
    BY <1>1, <1>2, <1>8 DEF Check, Ask, Change, WriteFile, WriteSticker, ReferFile, PollReturns,
       FileFails, Return, Outcomes, Ended
  <2>2. label \in Labels
    BY <2>1 DEF Labels, Active
  <2> QED BY <2>1, <2>2, MoveKeepsCounts DEF Ended
<1> QED BY <1>3, <1>4, <1>5, <1>6, <1>7, <1>8 DEF HandlerStep

LEMMA CountsInit == Init => CountsInv
<1> SUFFICES ASSUME Init PROVE CountsInv
  OBVIOUS
<1>1. CountsTyped /\ Stages
  BY DEF Init, CountsTyped, Stages, Ended, Labels, Outcomes
<1>2. Erring = {} /\ Passed = {} /\ Shown = {}
  BY DEF Init, Erring, Passed, Shown
<1> QED BY <1>1, <1>2, FS_EmptySet DEF Init, CountsInv, Bounds

LEMMA CountsStep == CountsInv /\ [Next]_vars => CountsInv'
<1> SUFFICES ASSUME CountsInv, [Next]_vars PROVE CountsInv'
  OBVIOUS
<1>1. ASSUME NEW r \in Requests, Accept(r) PROVE CountsInv'
  <2>1. /\ pc \in [Requests -> Labels] /\ outcome \in [Requests -> Outcomes]
        /\ changed \in [Requests -> BOOLEAN]
        /\ outcome[r] = "none" /\ ~changed[r] /\ pc[r] = "new"
    BY <1>1 DEF Accept, CountsInv, CountsTyped, Stages, Ended
  <2>2. PICK label \in {"bot", "filebot", "done"}, how \in Outcomes :
          /\ pc' = [pc EXCEPT ![r] = label] /\ outcome' = [outcome EXCEPT ![r] = how]
          /\ how = "none" <=> label # "done"
    BY <1>1, <2>1 DEF Accept, Outcomes
  <2>3. changed' = [changed EXCEPT ![r] = FALSE] /\ UNCHANGED counters
    BY <1>1, <2>1 DEF Accept
  <2>4. label \in Labels
    BY <2>2 DEF Labels, Active
  <2> QED BY <2>1, <2>2, <2>3, <2>4, MoveKeepsCounts DEF Ended
<1>2. ASSUME NEW r \in Requests, HandlerStep(r) \/ PollReturns(r) PROVE CountsInv'
  BY <1>2, HandlerKeepsCounts
<1>3. CASE UNCHANGED <<pc, outcome, changed, counters>>
  BY <1>3 DEF CountsInv, CountsTyped, Stages, Bounds, Erring, Passed, Shown, counters
<1>4. ASSUME NEW r \in Requests, DownloaderStep(r) \/ Break(r) PROVE CountsInv'
  BY <1>3, <1>4 DEF DownloaderStep, Fetch, FetchEnds, Break
<1>5. CASE Signal \/ Drain \/ Deadline
  BY <1>3, <1>5 DEF Signal, Drain, Deadline
<1>6. CASE UNCHANGED vars
  BY <1>3, <1>6 DEF vars
<1> QED BY <1>1, <1>2, <1>4, <1>5, <1>6 DEF Next

(***************************************************************************)
(* Whatever requests are answered at the same time, the counters of /stats *)
(* never hold more errors than requests, nor more requests than ended, and *)
(* miss none that changed something and was answered.                      *)
(***************************************************************************)
THEOREM CountersAddUp == Safety => []CountsAddUp
<1>1. Init => CountsInv
  BY CountsInit
<1>2. CountsInv => CountsAddUp
  <2> SUFFICES ASSUME CountsInv PROVE CountsAddUp
    OBVIOUS
  <2> DEFINE All == {r \in Requests : outcome[r] # "none"}
             Gone == {r \in Requests : changed[r] /\ pc[r] = "done"}
  <2>1. /\ Passed \in SUBSET All /\ All \in SUBSET Requests
        /\ Gone \in SUBSET Shown /\ Shown \in SUBSET Requests
        /\ Erring \in SUBSET Requests /\ Passed \in SUBSET Requests /\ Gone \in SUBSET Requests
    BY DEF Passed, Shown, Erring
  <2> HIDE DEF All, Gone
  <2>2. Cardinality(Passed) <= Cardinality(All) /\ Cardinality(Gone) <= Cardinality(Shown)
    BY <2>1, Counting
  <2>3. /\ Cardinality(Passed) \in Nat /\ Cardinality(All) \in Nat /\ Cardinality(Gone) \in Nat
        /\ Cardinality(Shown) \in Nat /\ Cardinality(Erring) \in Nat
    BY <2>1, Counting
  <2>4. errors <= requests /\ requests <= Cardinality(All) /\ Cardinality(Gone) <= requests
    BY <2>2, <2>3 DEF CountsInv, Bounds
  <2> QED BY <2>4 DEF CountsAddUp, All, Gone
<1> QED BY <1>1, <1>2, CountsStep, PTL DEF Safety


-----------------------------------------------------------------------------
(* Types.                                                                  *)

(* What the invariants above do not say.                                   *)
StepsOK ==
  /\ steps = [r \in Requests |-> steps[r]]
  /\ \A r \in Requests : steps[r] # <<>> => pc[r] = "run"

StreamOK ==
  /\ dl \in [Requests -> {"none", "fetching", "writing", "ended"}]
  /\ chunks \in [Requests -> 0..MaxChunks]
  /\ broken \in [Requests -> BOOLEAN]

RestOK ==
  /\ proc \in {"up", "closing", "bye", "cut"}
  /\ kept \subseteq Files
  /\ StepsOK
  /\ StreamOK

TypeInv == FilesInv /\ CountsInv /\ RestOK

LEMMA StepsKeep ==
  ASSUME CountsTyped, StepsOK, NEW r \in Requests, NEW label, NEW path,
         pc' = [pc EXCEPT ![r] = label], steps' = [steps EXCEPT ![r] = path],
         path # <<>> => label = "run"
  PROVE  StepsOK'
<1>1. \A s \in Requests : /\ pc'[s] = IF s = r THEN label ELSE pc[s]
                          /\ steps'[s] = IF s = r THEN path ELSE steps[s]
  BY DEF CountsTyped, StepsOK
<1>2. steps' = [s \in Requests |-> steps'[s]]
  BY DEF StepsOK
<1> QED BY <1>1, <1>2 DEF StepsOK

(* A handler starts its path where it runs it, and has left it, or is      *)
(* through, when it goes on.                                               *)
LEMMA HandlerKeepsSteps ==
  ASSUME CountsTyped, StepsOK, NEW r \in Requests, HandlerStep(r) \/ PollReturns(r)
  PROVE  StepsOK'
<1>1. /\ pc = [pc EXCEPT ![r] = pc[r]] /\ steps = [steps EXCEPT ![r] = steps[r]]
      /\ steps[r] # <<>> => pc[r] = "run"
  BY DEF CountsTyped, StepsOK
<1>2. CASE Dispatch(r)
  <2>1. PICK label, path : /\ pc' = [pc EXCEPT ![r] = label]
                           /\ steps' = [steps EXCEPT ![r] = path]
                           /\ path # <<>> => label = "run"
    BY <1>1, <1>2 DEF Dispatch
  <2> QED BY <2>1, StepsKeep
<1>3. CASE \/ Check(r) \/ Ask(r) \/ Change(r) \/ WriteFile(r) \/ WriteSticker(r)
           \/ ReferFile(r) \/ PollReturns(r) \/ FileFails(r)
  <2>1. CASE Advance(r) /\ pc[r] = "run"
    <3>1. pc' = [pc EXCEPT ![r] = "run"] /\ steps' = [steps EXCEPT ![r] = Tail(steps[r])]
      BY <1>1, <2>1
    <3> QED BY <3>1, StepsKeep
  <2>2. CASE \E how : GiveUp(r, how)
    <3>1. pc' = [pc EXCEPT ![r] = "answer"] /\ steps' = [steps EXCEPT ![r] = <<>>]
      BY <2>2
    <3> QED BY <3>1, StepsKeep
  <2> QED BY <1>3, <2>1, <2>2 DEF Check, Ask, Change, WriteFile, WriteSticker, ReferFile,
          PollReturns, FileFails
<1>4. CASE \/ GetBot(r) \/ Return(r) \/ Answer(r) \/ CountRequest(r) \/ CountError(r)
           \/ Verify(r) \/ CopyChunk(r) \/ CopyEnds(r) \/ StreamEnds(r)
  <2>1. PICK label : pc' = [pc EXCEPT ![r] = label] /\ steps[r] = <<>>
    BY <1>1, <1>4 DEF GetBot, Return, Answer, CountRequest, CountError, Verify, CopyChunk,
       CopyEnds, StreamEnds
  <2>2. steps' = [steps EXCEPT ![r] = steps[r]]
    BY <1>1, <1>4 DEF GetBot, Return, Answer, CountRequest, CountError, Verify, CopyChunk,
       CopyEnds, StreamEnds
  <2> QED BY <2>1, <2>2, StepsKeep
<1> QED BY <1>2, <1>3, <1>4 DEF HandlerStep

LEMMA HandlerKeepsRest ==
  ASSUME StreamOK, kept \subseteq Files, NEW r \in Requests, HandlerStep(r) \/ PollReturns(r)
  PROVE  StreamOK' /\ kept' \subseteq Files /\ UNCHANGED proc
<1>1. CASE \/ GetBot(r) \/ Dispatch(r) \/ Check(r) \/ Ask(r) \/ Change(r) \/ WriteFile(r)
           \/ ReferFile(r) \/ PollReturns(r) \/ FileFails(r) \/ Return(r) \/ Answer(r)
           \/ CountRequest(r) \/ CountError(r) \/ CopyEnds(r) \/ StreamEnds(r)
  <2>1. UNCHANGED <<proc, kept, dl, chunks, broken>>
    BY <1>1 DEF GetBot, Dispatch, Check, Ask, Change, WriteFile, ReferFile, PollReturns,
       FileFails, Return, Answer, CountRequest, CountError, CopyEnds, StreamEnds, fileVars, streamVars
  <2> QED BY <2>1 DEF StreamOK
<1>2. CASE WriteSticker(r)
  BY <1>2 DEF WriteSticker, StreamOK, streamVars
<1>3. CASE Verify(r) \/ CopyChunk(r)
  <2>1. PICK state \in {"none", "fetching", "writing", "ended"} :
          dl' = [dl EXCEPT ![r] = state] /\ UNCHANGED <<proc, kept, chunks, broken>>
    BY <1>3 DEF Verify, CopyChunk, StreamOK, fileVars
  <2> QED BY <2>1 DEF StreamOK
<1> QED BY <1>1, <1>2, <1>3 DEF HandlerStep

LEMMA RestStep == TypeInv /\ [Next]_vars => RestOK'
<1> SUFFICES ASSUME TypeInv, [Next]_vars PROVE RestOK'
  OBVIOUS
<1>1. CountsTyped /\ RestOK /\ StepsOK /\ StreamOK /\ kept \subseteq Files
  BY DEF TypeInv, CountsInv, RestOK
<1>2. ASSUME NEW r \in Requests, HandlerStep(r) \/ PollReturns(r) PROVE RestOK'
  BY <1>1, <1>2, HandlerKeepsSteps, HandlerKeepsRest DEF RestOK
<1>3. ASSUME NEW r \in Requests, Accept(r) PROVE RestOK'
  <2>1. PICK label : pc' = [pc EXCEPT ![r] = label]
    BY <1>3 DEF Accept
  <2>2. steps[r] = <<>> /\ steps' = [steps EXCEPT ![r] = steps[r]]
    BY <1>1, <1>3 DEF Accept, StepsOK
  <2>3. StepsOK'
    BY <1>1, <2>1, <2>2, StepsKeep
  <2> QED BY <1>1, <1>3, <2>3 DEF Accept, RestOK, StreamOK, fileVars, streamVars
<1>4. ASSUME NEW r \in Requests, DownloaderStep(r) \/ Break(r) PROVE RestOK'
  <2>1. UNCHANGED <<proc, kept, pc, steps>>
    BY <1>4 DEF DownloaderStep, Fetch, FetchEnds, Break, fileVars
  <2>2. CASE Fetch(r)
    <3>1. chunks[r] + 1 \in 0..MaxChunks
      BY <1>1, <2>2, RequestsAssumption DEF Fetch, StreamOK
    <3> QED BY <1>1, <2>1, <2>2, <3>1 DEF Fetch, RestOK, StepsOK, StreamOK
  <2>3. CASE FetchEnds(r) \/ Break(r)
    BY <1>1, <2>1, <2>3 DEF FetchEnds, Break, RestOK, StepsOK, StreamOK
  <2> QED BY <1>4, <2>2, <2>3 DEF DownloaderStep
<1>5. CASE Signal \/ Drain \/ Deadline \/ UNCHANGED vars
  BY <1>1, <1>5 DEF Signal, Drain, Deadline, vars, RestOK, StepsOK, StreamOK, fileVars, streamVars
<1> QED BY <1>2, <1>3, <1>4, <1>5 DEF Next

LEMMA TypeAlways == Safety => []TypeInv
<1>1. Init => RestOK
  BY RequestsAssumption DEF Init, RestOK, StepsOK, StreamOK
<1>2. Init => TypeInv
  BY <1>1, CountsInit, FilesInit DEF TypeInv
<1>3. TypeInv /\ [Next]_vars => TypeInv'
  BY FilesStep, CountsStep, RestStep DEF TypeInv
<1> QED BY <1>2, <1>3, PTL DEF Safety

(***************************************************************************)
(* Every state of the server is well-typed: among others, a handler is     *)
(* through with its steps and has removed its files when it is counted,    *)
(* and what is answered has an outcome.                                    *)
(***************************************************************************)
THEOREM RequestsTypeCorrect == Safety => []TypeOK
<1>1. TypeInv => TypeOK
  <2> SUFFICES ASSUME TypeInv PROVE TypeOK
    OBVIOUS
  <2>1. /\ removes \in [Requests -> SUBSET Files]
        /\ \A r \in Requests : removes[r] # {} => pc[r] \in {"run", "answer"}
        /\ disk = kept \cup UNION {removes[r] : r \in Requests}
    BY DEF TypeInv, FilesInv
  <2>2. disk \subseteq Files /\ kept \subseteq Files
    BY <2>1 DEF TypeInv, RestOK
  <2>3. /\ pc \in [Requests -> {"new", "done"} \cup Active]
        /\ outcome \in [Requests -> {"none", "ok", "refused", "failed"}]
        /\ changed \in [Requests -> BOOLEAN] /\ requests \in Nat /\ errors \in Nat
        /\ \A r \in Requests :
             pc[r] \in {"answer", "countrequest", "counterror"} => outcome[r] # "none"
    BY DEF TypeInv, CountsInv, CountsTyped, Stages, Bounds, Ended, Labels, Outcomes
  <2> QED BY <2>1, <2>2, <2>3 DEF TypeInv, RestOK, StepsOK, StreamOK, TypeOK
<1> QED BY <1>1, TypeAlways, PTL

-----------------------------------------------------------------------------
(* Downloads.                                                              *)

(* A step of a handler that neither reads the pipe nor waits for it.       *)
LEMMA OthersKeepDownloads ==
  ASSUME TypeInv, NoStrayDownload, NEW r \in Requests, NEW label \in Labels \ Streaming,
         UNCHANGED streamVars, pc[r] \notin Streaming, pc' = [pc EXCEPT ![r] = label]
  PROVE  NoStrayDownload'
<1>1. \A s \in Requests : pc'[s] = IF s = r THEN label ELSE pc[s]
  BY DEF TypeInv, FilesInv
<1> QED BY <1>1 DEF NoStrayDownload, streamVars, Streaming

LEMMA HandlerKeepsDownloads ==
  ASSUME TypeInv, NoStrayDownload, NEW r \in Requests, HandlerStep(r) \/ PollReturns(r)
  PROVE  NoStrayDownload'
<1>1. /\ pc = [pc EXCEPT ![r] = pc[r]] /\ pc \in [Requests -> {"new", "done"} \cup Active]
      /\ dl \in [Requests -> {"none", "fetching", "writing", "ended"}]
  BY DEF TypeInv, FilesInv, RestOK, StreamOK
<1>2. CASE GetBot(r) \/ Dispatch(r) \/ Answer(r) \/ CountRequest(r) \/ CountError(r)
  <2>1. PICK label \in Labels \ Streaming : pc' = [pc EXCEPT ![r] = label]
    BY <1>1, <1>2 DEF GetBot, Dispatch, Answer, CountRequest, CountError, Labels, Active, Streaming
  <2>2. UNCHANGED streamVars /\ pc[r] \notin Streaming
    BY <1>2 DEF GetBot, Dispatch, Answer, CountRequest, CountError, Streaming
  <2> QED BY <2>1, <2>2, OthersKeepDownloads
<1>3. CASE \/ Check(r) \/ Ask(r) \/ Change(r) \/ WriteFile(r) \/ WriteSticker(r)
           \/ ReferFile(r) \/ PollReturns(r) \/ FileFails(r) \/ Return(r)
  <2>1. pc[r] = "run" /\ UNCHANGED streamVars
    BY <1>3 DEF Check, Ask, Change, WriteFile, WriteSticker, ReferFile, PollReturns,
       FileFails, Return
  <2>2. pc' = [pc EXCEPT ![r] = "run"] \/ pc' = [pc EXCEPT ![r] = "answer"]
    BY <1>1, <1>3, <2>1 DEF Check, Ask, Change, WriteFile, WriteSticker, ReferFile, PollReturns,
       FileFails, Return
  <2>3. {"run", "answer"} \subseteq Labels \ Streaming /\ pc[r] \notin Streaming
    BY <2>1 DEF Labels, Active, Streaming
  <2> QED BY <2>1, <2>2, <2>3, OthersKeepDownloads
<1>4. CASE Verify(r) \/ CopyChunk(r) \/ CopyEnds(r) \/ StreamEnds(r)
  BY <1>1, <1>4 DEF Verify, CopyChunk, CopyEnds, StreamEnds, NoStrayDownload, Streaming, streamVars
<1> QED BY <1>2, <1>3, <1>4 DEF HandlerStep

LEMMA DownloadsStep == TypeInv /\ NoStrayDownload /\ [Next]_vars => NoStrayDownload'
<1> SUFFICES ASSUME TypeInv, NoStrayDownload, [Next]_vars PROVE NoStrayDownload'
  OBVIOUS
<1>1. ASSUME NEW r \in Requests, Accept(r) PROVE NoStrayDownload'
  <2>1. PICK label \in {"bot", "filebot", "done"} : pc' = [pc EXCEPT ![r] = label]
    BY <1>1 DEF Accept
  <2>2. label \in Labels \ Streaming /\ pc[r] \notin Streaming /\ UNCHANGED streamVars
    BY <1>1 DEF Accept, Labels, Active, Streaming
  <2> QED BY <2>1, <2>2, OthersKeepDownloads
<1>2. ASSUME NEW r \in Requests, HandlerStep(r) \/ PollReturns(r) PROVE NoStrayDownload'
  BY <1>2, HandlerKeepsDownloads
<1>3. ASSUME NEW r \in Requests, DownloaderStep(r) \/ Break(r) PROVE NoStrayDownload'
  <2>1. /\ dl \in [Requests -> {"none", "fetching", "writing", "ended"}]
        /\ broken \in [Requests -> BOOLEAN]
    BY DEF TypeInv, RestOK, StreamOK
  <2> QED BY <1>3, <2>1 DEF DownloaderStep, Fetch, FetchEnds, Break, NoStrayDownload
<1>4. CASE Signal \/ Drain \/ Deadline \/ UNCHANGED vars
  BY <1>4 DEF Signal, Drain, Deadline, vars, NoStrayDownload, streamVars
<1> QED BY <1>1, <1>2, <1>3, <1>4 DEF Next

(***************************************************************************)
(* However many downloads run, and whenever their replies break: none goes *)
(* on without its request, and a handler leaves the pipe unread only when  *)
(* its reply broke.                                                        *)
(***************************************************************************)
THEOREM DownloadsAreAwaited == Safety => []NoStrayDownload
<1>1. Init => NoStrayDownload
  BY DEF Init, NoStrayDownload
<1> QED BY <1>1, TypeAlways, DownloadsStep, PTL DEF Safety
=============================================================================
