# A TLA+ model of tgbotd

tgbotd is a server that speaks the Telegram Bot API over HTTP and Telegram's MTProto underneath
(through the `gogram` library). This directory holds TLA+ modules for the parts of it where order
matters, the TLC configurations that check them on small instances, and theorems about them checked
by TLAPS. Paths below are relative to `src/`.

- [Inventory](#inventory)
- [Modules](#modules)
- [Runs](#runs)
- [Fairness](#fairness)
- [Proofs](#proofs)
- [Findings](#findings)
- [Plan](#plan)
- [Not modelled](#not-modelled)

## Inventory

| component | state | operations | hard behaviour | what makes it correct |
|---|---|---|---|---|
| update buffer (`internal/botmgr/updates.go`) | `items`, `nextID`, the drain lock `takeMu`, the condition variable | `Push`, `TakeLock`, `Wait`, `Ack`, `Clear`, `PendingCount` | overflow drops the oldest while a drainer holds a snapshot; `Wait` mixes a condition variable with a timer and a context | ids are gap-free and never reused; no wake-up is lost |
| getUpdates (`internal/server/methods_updates.go:15-93`) | per call: offset, limit, snapshot | lock, confirm, wait, translate, ack an untranslatable tail | acts on a snapshot after the buffer's mutex was released; callers overlap | what an offset confirmed is never served again; no holes in a response; nothing vanishes unexamined |
| webhook deliverer (`internal/botmgr/webhook.go`) | `attempts`, `lastAcked`, `stopCh`, `delivererMap` | `run`, `deliverOne`, `StartWebhook`, `StopWebhook` | stop and replacement during a POST; a failing endpoint; overflow during a backoff | order, exact number of attempts, acked only when settled, one POST at a time |
| setWebhook, deleteWebhook (`methods_updates.go:95-155`) | the `bots` row | clear, store, switch deliverers | several steps, no lock over them; the store may fail, or match no row | between calls, database, map and goroutines agree with what clients were told |
| bot registry (`internal/botmgr/botmgr.go`) | `bots`, `init` (a mutex per token) | `Get`, `build`, `Shutdown`, `Prewarm` | double-checked lookup, a mutex per token, `build` fails half way, `Shutdown` races `Get` | one connection per token; every caller is answered |
| generation caches (`botmgr.go:46-118`, `methods_bot_config.go`) | cached values and generation counters | `CachedCommands`, `SetCachedCommands`, `InvalidateCommands`, the same for `BotInfo` | a read that started before a write fills the cache after it | no stale value after a setter has returned |
| transport tap (`botmgr.go:253-314`) | none | unpack a container, push what is in it | five kinds of container; updates between connect and registration | every update reaches the buffer |
| storage (`internal/storage`) | SQLite | `SetWebhook`, `GetBot`, `UpsertBot`, ... | the process ends between two statements | what was acknowledged survives |
| server lifecycle (`main.go`, `internal/server/server.go`) | HTTP server, manager | start, graceful shutdown | requests in flight while the manager shuts down | requests end before what they use is gone |
| uploads and downloads (`input_file.go`, `methods_file.go`) | temp files, a pipe | receive, send, stream | the reply breaks while the download goroutine writes; temp files on error paths | temp files removed, no goroutine stuck |
| request handling (`server.go`, `handlers.go`, `internal/botapi/envelope.go`) | per request: a goroutine | parse, dispatch, handler, answer, count | early returns on every path | a refused request changed nothing; every request is answered |
| methods (`methods_*.go`) | none | test, ask, write files, change | several tests, files and RPCs in one method; one of them fails | tests before changes |
| metrics, stats (`metrics.go`, `stats.go`) | atomic counters | count, read | counters written and read one by one | totals consistent |
| file ids, inline ids (`internal/fileid`, `inline_msg_id.go`, `methods_file.go:25-184`) | what the client keeps | make an id or a path, read it back | zero runs at 255, length bytes that wrap, optional fields told by length, integers cut to int32, text from elsewhere | an id leads back to what it was given for |
| update translation (`internal/tlate`) | per round: the known users and chats | TL to Bot API | look-ups fail half way; groups and channels share ids in one map; two switches decide what a document is | no chat or file is shown as another; what is known stays known |
| configuration, logging, API types | none | - | - | - |

How they interact. gogram's goroutines call the transport tap, which pushes into the bot's buffer. A
getUpdates request and the bot's webhook deliverer drain the same buffer, one at a time under
`takeMu`; a request does not check whether a webhook is set, so both may be at work. setWebhook and
deleteWebhook clear the buffer without `takeMu`, write the bots row, and start or stop deliverers.
Every request goes through `Manager.Get`, which builds the bot on first use. The cached getters keep
their values in the bot and the setters invalidate them. `Shutdown` stops deliverers and clients.

The hazards, each at its line and with the properties about it, are in `PROJECT.json`.

## Modules

```
                 UpdateBuffer            the queue; BufSpec is the abstract specification
                 /          \
          LongPoll           Webhook -- MCWebhook     its two consumers
                 \          /     \
                  Delivery         Restart -- MCRestart
   BufferWait     GenCache     BotRegistry       on their own
       |
   OneStepWait                                  what BufferWait implements

   FileIds    InlineIds    Translation          what updates carry and clients hand back
          \       |       /
              MCContent

   Methods  --  MoreMethods                     what each method's handler does, in order
                    |
   Requests -- MCRequests                       requests on their way through the server
```

`MCLongPoll`, `MCWebhook`, `MCRestart` and `MCGenCache` add the symmetry sets TLC uses, `MCWebhook` also specifications that begin
with a row (nothing its runs check looks at it); `MCRequests` puts the methods into `Requests`; `MCContent` gives the three modules about content their small widths, files, texts and updates. A definition named
`X_Something` next to a definition `X` is a variant of it with a plausible bug. No specification uses
the variants; each shows that a property would notice such a bug (`mutants` in `PROJECT.json`).

**UpdateBuffer.** `items` is `b.items`, cut down to the id and to whether the update translates
(`ok`); `nextID` is `b.nextID`; `takeMu` names the holder of the drain lock. `lost` is a history
variable: ids evicted by overflow or removed by `Clear`. One action per method. Go runs each method
body under `b.mu`, which makes it one step. `Stops(k, upTo)` says that the scan over ids ends after
`k` items, and serves `Ack` and `Wait`, which scan alike. `BufSpec` is the abstract specification:
anyone may push or clear, only the holder of the drain lock may ack. `MaxID` bounds the updates pushed.

**LongPoll.** One handler is a program counter and its local variables. A step is what happens
between two lock operations: `Call` (parse and clamp), `PollLock`, `Confirm` (the `Ack(offset)`),
`WaitReady` or `WaitEmpty`, `Translate` (with the `Ack(lastID + 1)` of an untranslatable tail),
`Return` (the deferred unlock). Pushes, evictions and clears happen between any two. The offset may be
anything up to `MaxID + 1`, so it may lie ahead of the newest update. Negative offsets are
clamped to 0 by the code and appear as 0. The history variables are `confirmed` (the offsets acted on,
limited to the updates that existed then), `asked` (not limited) and `examined`.

**Webhook.** A deliverer is a goroutine running `deliverer.run`; `dpc` names its statements, `work`,
`pos`, `lastAcked` and `attempts` are its variables, `stopped` is the set of closed `stopCh`. The
endpoint accepts or rejects each attempt as it likes; `posts` counts attempts, those included that end before anything
is sent. Whether the POST ends by a status, an error or the
client's 60 s timeout makes no difference to `run`. Of the backoff only its end and its being
interrupted remain. A handler is a call of setWebhook or deleteWebhook in the code's order: drop pending,
store, take the old deliverer out of the map, close its channel, start the new one. The store may fail.
`current` is `delivererMap[b]`, `row` is `bots.webhook_url`, or `NoRow` when the bot's row was never
inserted: `Update` then succeeds without effect, as an UPDATE that matches nothing does. `HookSpec` adds the fairness under which
`PipelineMoves` is checked. A deliverer stands for its URL as well,
so two calls that set the same URL are two deliverers. `RoundLimit` and `MaxAttempts` are
the code's 100 and 8.

**Delivery** runs LongPoll and Webhook on one buffer.

**Restart** puts Webhook under a process that may end at any step. The row survives. Buffer,
deliverers and calls do not. `Build` inserts the row with `UpsertBot` if there is none, or fails to, which the code only logs. Three
history variables keep what the clients know: `answered` says whether a call of this life of the process has succeeded, `answer` is the
webhook that the last one gave the bot, and `overlap` whether calls are, or were, under way together; after calls that overlapped, or that the
end of the process cut off after they may have stored, `answer` is `Unsure`, until a call that runs alone succeeds. `ServedIsStored` compares
row, map and goroutines with these.

**BufferWait** opens `Wait`, which the modules above take as one step, into its statements: the mutex, joining
the list of the condition variable, unlocking and parking (as `sync.Cond.Wait` does), the timer's one broadcast, the
goroutine that watches the context. Time is an integer clock: the timer fires at or after its
time, and the deadline is computed from a later reading of the clock than the one the timer was armed
with. `ready` says whether an update satisfies the caller.

**OneStepWait** is what the long poll and the deliverer take `Wait` for: one step that returns the snapshot of
that moment, or nothing when nothing is ready and there is no more reason to wait. BufferWait implements it
under the mapping `over <- Over` (the time is up, the request cancelled, or no time was given); everything the waiter does before it
returns is a stutter there.

**GenCache** is the read-through protocol of both caches: `Miss` notes the generation, `Read` asks the
server, `Put` stores if the generation is unchanged; a writer applies its change at the server and invalidates when
the reply comes. A write may change several keys and its reply may get lost. Values are version
numbers. `acked` is a history variable: per key, the newest version a setter has returned for.
`unannounced` holds the keys changed by a write that has not been, or never will be, announced.

**BotRegistry** has one action per section of `Get` that runs under `m.mu` or between two
operations on the token's mutex. `build` is three steps: connect a new client, then either fail or publish. Calls of
`Prewarm` are calls of `Get`. History variables hold what builds leave behind: `leaked` the clients whose log-in
failed after `Connect`, which nobody stops, and `failed` the tokens whose mutex stays in `m.init`; a third, `late`, the
clients whose bots were published after `Shutdown` had emptied the maps.

**Methods** and **MoreMethods** hold, for each registered method of the Bot API, the paths its handler can take to the end, as sequences of steps: `check` (a
test, refused with 4xx), `ask` (an RPC that changes nothing), `do` (one that does), `confirm` (a test
of the answer to `do`), `file`, `thumb`, `keep` (temporary files), `wait` (getUpdates, whose steps are LongPoll's), `refuse` (501). They are grouped
as the source groups them. What the messages say is left out; what may end a request, and after what, is not.

**Requests** runs these paths. A request is `Server.handle`: `Accept`, `GetBot`, `Dispatch` (with
getMe's cache, the unknown method and the body that does not parse), the handler's steps, `Answer`
(the defers, then the response), `CountRequest` and `CountError` (`recordCall`). Each step ends as it
may: an RPC may fail before or after it took effect, a file may be refused, a thumbnail is given up.
A download is a copier and a fetcher with a pipe between them (`dl`): `Fetch` puts a chunk, `CopyChunk`
takes it. After `Break`, when the client has hung up or the server's WriteTimeout of 65 s has passed, it may fail instead, and the handler
waits (`await`) with nobody reading the pipe. `proc` is the process: `Signal`, then `Drain` ("bye") or
`Deadline` (five seconds, exit status 1). `disk` is the directory of temporary files, `removes` the
defers, `kept` the files for which uploadStickerFile has a defer that removes nothing.

**FileIds** follows one file from the message that shows it (`Show`: photoSizes, fillFromDocument, `Info.Encode`,
`UniqueID`) to getFile and the download of its signed path, or to sending it again by id. Byte strings are sequences
over `Radix` values, integers little-endian words of `Narrow` or `Wide` bytes. `rleEncode`, `rleDecode`, `Encode`,
`Decode` and the payload of a path work on those as the code does on bytes, with the run limit `Radix - 1` and length
bytes that wrap at `Radix`. A client may also bring a text from elsewhere. A text that Base64 refuses fares as one
that is too short. `DocumentType` and `DocumentField` are the two switches of fillFromDocument.

**InlineIds** writes an inline_message_id of either form and reads it back with `jsonParseInt`, which accumulates
in an int64 that may wrap; `decodeInlineMessageID` cuts to int32 what is one. An int64 is in `-Long..(Long - 1)`, an int32 in `-Short..(Short - 1)`.

**Translation** is the way of an update from a container to a Bot API field. `dispatchIntercepted` unpacks (the
pushes of one container are one step here; the delivery models interleave them), `BuildTranslateContext` begins a round with the bot
as the only user known, `UpdateToBotAPI` translates the next one. Its look-ups, in the code's order, succeed or fail as they like, and what
they find stays in `users` and `chats` for the round. `chats` is one map under bare ids. `shown` records what each update became:
its field, the id, type and details of its chat, and whether its user is named. `ContainersAssumption` says what Telegram sends:
an update that belongs to a chat names it.

## Runs

| run | instance | shows |
|---|---|---|
| `long_poll` | 2 callers, capacity 2, 3 updates, limits 1 and 3 | ids gap-free and never reused, drains exclude each other, confirmed updates not served again, no holes, nothing vanishes unexamined |
| `long_poll_consume` | the same, 2 updates | a counterexample, see Findings |
| `webhook_race` | 2 deliverers, 2 calls, 2 updates, 1 attempt | however the calls interleave (one deliverer may be left running for good): one POST at a time, at most one POST begun after the stop, nothing settled POSTed again, nothing dropped POSTed |
| `webhook_retry` | 1 deliverer, 1 call, capacity 2, 3 updates, 3 attempts | order, attempt count, ack only what is settled, with overflow, stops and drop_pending_updates in between; no update, one behind a failing one included, waits for ever while a deliverer is there |
| `delivery` | 1 caller, 1 deliverer, 1 call, 2 updates | neither consumer sees what the other settled or confirmed; nothing is lost between them; they implement `BufSpec` |
| `restart` | 2 deliverers, 2 calls, 1 update, 1 attempt, 1 restart | between calls, database, map and goroutines agree with what the clients were told, with calls that overlap, stores that fail, no row, and calls cut off |
| `restart_resumes` | 2 deliverers, 1 call, 1 update, 2 attempts, 1 restart | a counterexample, see Findings |
| `gen_cache` | 2 readers, 2 writers, 2 keys, 3 writes | nothing older than an acknowledged write is cached; a stale entry means an unannounced write |
| `buffer_wait` | timeout 2, drift 1, 2 pushes | `Wait` implements `OneStepWait`; a push ends it, and so does a timer still to fire |
| `bot_registry` | 3 callers, 1 token, 3 mutexes, 2 clients | one build at a time, one bot, every caller answered, nothing left behind but by builds that fail |
| `requests` | 2 requests of any method or download, 3 file names, 2 chunks | a refused request changed nothing; each file is removed by the one request that made it; counters agree; no download outlives its handler; an orderly exit has answered everything; only a poll, or a download whose reply broke, may hang |
| `content` | bytes of 8 values, words of 2 and 3 bytes, files of every kind, byte strings from elsewhere; integers of 6 and 4 bits; rounds of 3 updates, a group and a channel with one id | ids and paths lead back to their file and tell files apart, inline ids are read as they were written, no chat is shown as another, what a round knows it keeps |

Why these bounds. Capacity 2 with 3 updates is the least instance with an eviction that leaves
something behind, and an eviction between a snapshot and the ack based on it. In
`webhook_race` and `delivery` 2 updates do not overflow, but `Clear` opens the same gap; eviction under a
consumer is what `long_poll` and `webhook_retry` have the third update for. Two callers or two deliverers are enough for
each race: the drain lock admits one, and a third waits as the second does. Two deliverers allow one
replacement, and with two calls also the case where each call takes a different one out of the map. Three attempts tell
"first", "middle" and "last" apart. `webhook_retry` has one deliverer, so that an update that waits is its affair alone; that one
that stops lets go of the drain lock for the next is part of `OnePostAtATime`. In `restart` two calls are what it takes to overlap, and a
slot is used again when its call has ended, so calls also follow one another and an overlap; both may run on either side of the restart. One attempt and one
update are enough, as the deliverer only has to be able to run and to stop. In `gen_cache` three writes let a reader's value be older than the current one by one and by two.
Three callers of `Get` are the builder, one that waits for the token's mutex, and one that arrives later;
two clients allow one failed build. Where a run has `CHECK_DEADLOCK FALSE` the modelled work really
ends: the one `Wait` returned (`BufferWait`), all writes were made (`GenCache`), or the process exited (`Requests`).
Two requests are what the shared directory and counters need, and every pair of paths is among them. A request
writes two files at most in the paths listed (an album is cut down to two attached files), so 3 names let two
requests compete for the last one; in a fourth's place stands `FileFails`. Two chunks let a reply break
before, between and after them.

In `content` a byte has 8 values, so a run of zeros is cut after 7 and a length wraps at 8: references of 7, 8, 9, 15, 16 and
17 bytes, all zeros, none or both, lie on either side of both limits, and ids with zeros in either byte make runs that cross
from one field into the next. In integers of 6 and 4 bits a text of two digits overflows both. The three parts of this run share no state; a
behaviour is about one of them. A round of three updates has the one that names a chat or user, one of another chat with the same bare id,
and one that profits from what is known; 5 is a basic group and a broadcast channel, 7 a supergroup.

The types are invariants of `long_poll` (`PollOK`); the type invariants of GenCache, BotRegistry and Requests are part of
what is proved.

`StopsPromptly` allows one POST after the stop on purpose: `run` tests `stopCh` at the head of the loop over
items, and a stop after that test cannot prevent the POST.

## Fairness

Only where a liveness property is checked, and only for what the code does by itself.

- *BufferWait*: the waiting goroutine runs when it can and gets the mutex in the end (strong
  fairness: since Go 1.9 `sync.Mutex` hands itself to a waiter of more than 1 ms); the timer fires,
  the context's watcher runs, the clock goes on up to its bound. Pushes, clears and cancellations are not fair.
- *Webhook* (`HookSpec`) and *Restart*: each step of a deliverer (the POST ends by the client's timeout, the backoff by
  its timer) and of a handler that has begun, and in Restart `Prewarm`, which builds the bots that have a row. Taking the drain lock gets strong
  fairness for the reason above. There is none for a `Wait` with nothing to collect, for the arrival of
  requests, or for an endpoint ever accepting anything.
- *BotRegistry*: each caller goes on; the mutex of the token is handed on as above; `Connect`
  ends, in success or failure. Nothing makes a build succeed.
- *Requests*: the goroutine of a request and that of its download go on when they can, and RPCs and
  downloads return (gogram's calls time out); a closing server drains or meets its deadline. Requests
  and signals need not come, and replies need not break. A poll need not return (`PollReturns` has no fairness): its `Wait` may miss
  its timeout, see Findings. A POST or an RPC has a timeout of its own, but a broken reply is noticed only when it is written to.

## Proofs

TLAPS proves the following for every value of the constants, under the assumptions named in
the modules (`BufferAssumption`, `PollAssumption`, `WebhookAssumption`, `DeliveryAssumption`, `RestartAssumption`,
`CacheAssumption`, `RegistryAssumption`, `RequestsAssumption`, `WaitAssumption`, `TranslationAssumption`, `ContainersAssumption`,
`FileIdsAssumption`, `FilesAssumption`, `InlineIdsAssumption`, `TextsAssumption`): capacities and limits are positive, requests finite,
`NoDrainer` and `None` are none of the things they stand beside, calls of getUpdates and deliverers are different users
of the buffer, ids of users, groups and channels are positive and those of groups below 10^12, and an update that belongs
to a chat names one that exists. For the ids: a byte has more than four values, the DC and the type are words of at least two
bytes, the fields of a file fit the words they are written in, its size letter is one byte at most, the types of files have no use for the byte
`Decode` does not read; an int32 is no wider than an int64, and the integers of an inline id fit theirs. Of strings and texts from elsewhere
nothing is assumed but what they are made of. One theorem, `RefusalsAreClean`, has a hypothesis of its own, given in the table.

| theorem | states |
|---|---|
| `Webhook_proofs!BufferGapFree` | the pending ids are a run that ends at the last one assigned |
| `Webhook_proofs!BufferNeverReturns` | an update that left does not come back; one that stays keeps its id |
| `Delivery_proofs!PollTypeCorrect` | `PollOK` |
| `Delivery_proofs!PollMutualExclusion` | who drains holds the drain lock |
| `Delivery_proofs!PollConfirmed` | `ConfirmedStaysConfirmed` |
| `Delivery_proofs!PollNoHoles` | `ResponseHasNoHoles` |
| `Delivery_proofs!PollNothingLost` | `NothingLostUnseen` |
| `Delivery_proofs!PollImplementsBuffer` | the long poll implements `BufSpec` |
| `Delivery_proofs!PollKeepsBuffer` | so `GapFree` and `NeverReturns` hold of it |
| `Webhook_proofs!HookTypeCorrect` | `HookOK` |
| `Webhook_proofs!HookOneAtATime` | `OnePostAtATime` |
| `Webhook_proofs!HookSettledOnce` | `SettledOnce` |
| `Webhook_proofs!HookInOrder` | `InOrder` |
| `Webhook_proofs!HookSettledOrKept` | `SettledOrKept` |
| `Webhook_proofs!HookEightAttempts` | `EightAttempts` |
| `Webhook_proofs!HookStopsPromptly` | `StopsPromptly` |
| `Webhook_proofs!HookDroppedNotPosted` | `DroppedNotPosted` |
| `Webhook_proofs!HookImplementsBuffer` | deliverers and handlers implement `BufSpec` |
| `Delivery_proofs!DeliverySettledNotPolled` | `SettledNotPolled` |
| `Delivery_proofs!DeliveryConfirmedNotPosted` | `ConfirmedNotPosted` |
| `Delivery_proofs!DeliveryNothingSlips` | `NothingSlipsThrough` |
| `Delivery_proofs!DeliveryKeepsBoth` | eight invariants of LongPoll and Webhook hold of Delivery too |
| `Delivery_proofs!DeliveryImplementsBuffer` | both consumers together implement `BufSpec` |
| `Delivery_proofs!DeliveryKeepsBuffer` | so `GapFree` and `NeverReturns` hold of them |
| `Restart_proofs!RestartKeepsWebhook` | seven invariants of Webhook hold between one restart and the next |
| `Restart_proofs!ServedFollowsRow` | `ServedIsStored` |
| `GenCache_proofs!CacheShowsAcked` | `AckedIsVisible` |
| `GenCache_proofs!CacheStaleOnlyMeanwhile` | `StaleOnlyUnannounced` |
| `BotRegistry_proofs!RegistryBuildsOnce` | `OneBuild` |
| `BotRegistry_proofs!RegistryHasOneBot` | `OneBot` |
| `BotRegistry_proofs!RegistryLeaksOnlyFailures` | `OnlyFailuresLeak` |
| `Requests_proofs!FilesAreOwned` | `FilesHaveOwners` |
| `Requests_proofs!DownloadsAreAwaited` | `NoStrayDownload` |
| `Requests_proofs!RefusalsAreClean` | `RefusedChangesNothing`, if `ChecksFirst` holds of `Paths` |
| `Requests_proofs!CountersAddUp` | `CountsAddUp` |
| `Requests_proofs!RequestsTypeCorrect` | `TypeOK` |
| `Round_proofs!WaitIsOneStep` | the safety part of BufferWait implements `OneStepWait` |
| `Round_proofs!RoundTellsApart` | `ChatsToldApart` |
| `Round_proofs!RoundStaysKnown` | `OnceKnownStaysKnown` |
| `Ids_proofs!FilesLeadBack` | `FileIdsLeadBack` |
| `Ids_proofs!FilesPathsServe` | `PathsServeTheId` |
| `Ids_proofs!FilesToldApart` | `UniqueIdsTellApart` |
| `Ids_proofs!InlineReadBack` | `InlineIdsReadBack` |

*The buffer.* The inductive invariant is `BufInv`: types and `GapFree`. `GapFree` gives the id of
the item at each position, from which the lemmas say what `Ack`, a push at capacity and a snapshot do to
the set of ids. `NeverReturns` follows: a new id is `nextID`, which is above everything ever pending.

*The long poll.* `PollImplementsBuffer` shows first that each step is a step of the buffer or leaves
it alone, so `BufInv` carries over. `PollCore` adds: whoever drains holds the lock (`LockHeld`); nothing below
`confirmed` is pending and `confirmed` is at most `nextID` (`ConfirmedGone`); a call past its own ack is counted in
`asked` (`AskedCounted`); a snapshot is in id order and below `nextID` (`BatchOrdered`). `ConfirmedStaysConfirmed`
needs mutual exclusion: `confirmed` grows only under the drain lock, when nobody holds a
snapshot. `PollInv` is `PollCore` and `NothingLostUnseen`, the one part that other consumers would break: each step of a call
accounts for what it takes from the buffer (`Accounted`). An id that a tail ack removes lies in the snapshot, which has no holes and
starts at the call's offset or at the head of the buffer at that time, or else below something already accounted for.

*The webhook.* `HookCore` says what a round is (`Round`): while a deliverer is between `Collect` and `Settle`, its items are consecutive ids, the oldest that
were pending, those before `pos` are settled and the others are not, and `lastAcked` is one above the last settled. Every property of the
run but the counts follows from it: nothing settled is POSTed again, since a settled update that is still pending is about to be
acked by the deliverer that holds the lock (`SettledIsLeaving`), whoever collects next; the order, since what is older
than the item in hand is before it in the round or had left the buffer. A round survives what happens meanwhile, because evictions and drops only take from the
front of the buffer and pushes only add at its end (`RoundsFrame`). `Reserved` keeps two calls from starting one deliverer, `LateOnce` has one
that began a POST after its stop on its way out, `Counted` equates POSTs with the failed attempts in `run`'s map, plus the one
on its way, and `DropsGone` says that what a call dropped is not pending. `HookInv` adds `SettledOrKept`, from what a step accounts for (`Accounts`).

*Both consumers.* To each of them the other is one more user of the buffer who acks under the drain lock: `OthersKeepPoll` and
`OthersKeepHook` show that `PollCore` and `HookCore` survive any step of `BufSpec` that leaves their own variables alone, unless it
acks while they hold the lock, which the lock forbids (`Excluded`). `DeliveryInv` joins them to `SettledNotPolled`, `NothingSlipsThrough` and
`ConfirmedNotTaken` (a round under way holds nothing that an offset has confirmed: `ConfirmedNotPosted` alone speaks only of the item being
POSTed and does not survive `NextItem`).

*Restart.* What `EndOfProcess` leaves is what a process begins with (`Fresh`, which implies `HookInv`), so that what Webhook guarantees holds in every life of the
process; the histories start anew with it. `ServedInv` gives `ServedIsStored` its form for the time within a call. A deliverer leaves its loop only when
stopped (`StopsForGood`). As long as no two calls have overlapped, those who run unstopped are the one in the map and the one a call has taken out and
not stopped yet; for a call that runs alone, now that an overlap is over, the row names who the call will start from the moment it is written
until the call ends, or the bot has no row, and what `answer` tells holds until it stores and again when it ends (`LoneOK`). `OverlapOK` says what `overlap` means,
`CallsOK` what a call holds at each step, and `NoRowForgets` that a bot without a row has no webhook when it is built. Of calls that overlap, any number of
them, the theorem says what the code keeps: they may store in one order and start in the other, so nothing is asked of them but that the next call
that runs alone makes row and map agree again, whatever state they left behind.

*The cache.* `CacheInv` speaks about the reads under way (`Fresh`): one whose noted generation is still current
has read a value no older than anything a setter returned for, since setters invalidate before they return. The
cached value inherits this at `Put`.

*The registry.* `RegistryInv`: a caller past `Acquire` holds its mutex (`MutexHeld`), and while a token has no
bot every caller past `Register` is there with the mutex that `m.init` still has for the token (`OneMutex`). Two
builds of one token would hold the same mutex. `OneBuild` and `OneBot` are about the time before `Shutdown`, which removes
bots while callers are under way. `LeakInv` adds, for `OnlyFailuresLeak`: each connection is accounted for (`ConnectionsInv`), the
bots of the time after `Shutdown` came after it (`LateBots`), a published bot's mutex has left the map (`BotsNeedNoMutex`), and
a caller whose build failed keeps others from publishing until it has let go (`Failing`).

*Requests.* `FilesInv`: only a handler between its first step and its answer has files to remove, and no two have the
same one. `NoStrayDownload` is inductive together with the types. `RefusalInv`: what a handler that has changed something has
left to do contains nothing that refuses. That needs the paths to test before they change; `RefusalsAreClean` has
this as its hypothesis (`ChecksFirst`), since the paths are the one constant that is about the program's text. The run
checks the invariant with the paths of the real methods, each of which it takes to the end. `CountsInv` bounds the counters by sets of
requests that a step changes by one: errors and those whose error is still to be counted (`Erring`) are at most the requests counted, these at most
the requests that ended and are not waiting to be counted (`Passed`), and those that changed something and are counted (`Shown`)
at most the requests counted. `CountsAddUp` by itself is not inductive: `errors <= requests` would not survive `CountError`.

*A round's two halves.* What the consumers' models take for one step each. `WaitInv` says that the waiter holds `mu` wherever it
looks at the buffer, so that what made it leave the loop is still so when it returns, and that the deadline is set before it is compared; each
statement is then a return of `OneStepWait` or a step of the others. For the translation, `RoundInv` says that each
entry was made from a well-formed update and some state of the two maps (`Entries`). `ChatsToldApart` follows entry by entry, from the ranges
of ids that users, groups and channels are given (`IdsTellApart`). `OnceKnownStaysKnown` is about two entries at different
times: `ShownIsKnown` says that what an entry shows is in the maps now, since these only grow (`Grows`), and the next entry
shows what is in the maps when it is made (`KnownIsShown`).

*Ids.* `FilesInv` and `InlineInv` (those of `Ids_proofs`) only say what a client holds at each step: an id that was encoded from its file or is from
elsewhere, a path signed over what `Decode` read, a text written from its id. The four invariants follow from them by
what the coders compute, for byte strings, words and digits of every length. The coders are recursive functions and each such fact is an induction; the library's
rules for both take operators as parameters, which the installed provers cannot instantiate. `LeastNumber`, `ByNumber` and `ByLength` state induction with sets,
and `RecursionDefines` shows with functions that a definition whose recursive call is on something of a smaller measure has the one solution it describes; what follows
(`PowerDef`, `ValueDef`, `rleEncodeDef`, `rleDecodeDef`, `DigitsOfDef`, `NumberDef`, `AccumulatedDef`) are the equations of
the coders. Then:

- `rleReversed`: decoding undoes encoding on every byte string, however its zeros lie; the step is one byte that is no zero, or one run.
- `WordValue`, `ValueBelow`: a word gives back the number it was written from, and any bytes read as one give a number that can be written back.
- `FiveParts`, `PartsFound`: fields of fixed widths are found where they were put. With these `EncodeDecodes` says what `Decode` makes of an
  encoded file, `PayloadReads` that a download reads what getFile signed, also for ids from elsewhere (`DecodeFits`), and
  `RefRead` which references survive the length byte.
- `UniqueIDTells`: type, id and size letter are found in a unique id. `DocumentKinds`: the two switches of fillFromDocument agree.
- `DigitsSpell`: the digits of a number spell it. `AccumulatedWraps`: a parser that wraps at every digit ends with the wrapped value of what
  the text spells (`WrapStep`), so a number that has its place in a field arrives (`FieldRead`), -2^63 too, whose digits alone have none.

Only model-checked: liveness (`PipelineMoves`, `PushEndsWait`, `DueTimerEndsWait`, `GetReturns`, `RequestsEnd`), since
TLAPS has no support here for `ENABLED`, which fairness is made of. The two properties that a counterexample refutes are TLC's as well.

## Findings

1. `methods_updates.go:84`. If the snapshot ends in untranslatable updates, getUpdates acks
   everything up to its last id, the translatable updates it has just put into the response included. The
   comment above says that only an offset consumes. A client that loses this response does not get them again
   (`long_poll_consume`).
2. `botmgr.go:258`. A bot built after a restart gets no deliverer though its row names a webhook, while the
   project's README says everything survives restarts (`restart_resumes`).

Noticed while modelling, visible in the actions, and not the subject of a run of their own:

- `updates.go:149`: the timer of `Wait` broadcasts once, and its callback may run before the deadline, which is
  computed after the timer was armed; a waiter woken by it then sleeps again, until the next push. A cancellation between the test of the context and
  `cond.Wait` is missed as well. `DueTimerEndsWait` says what is left of the promise "blocks up to `timeout`" (`updates.go:123`).
- `fileid.go:97-107`: `Decode` does not read the photo size. getFile returns another file_unique_id for a photo than the
  message had, and the size letter of a photo without a reference is read as its reference. `fileid.go:57`: references of 256 bytes and more come back cut.
- `media.go:172`: a document's thumbnail gets the type of a photo and the id of the document; it is downloaded as a photo with that id.
- `methods_file.go:162`: whichever size of a photo an id was made for, size "x" is downloaded.
- `updates.go:60` (tlate): while the look-up of a channel fails, its posts are `message`s. `updates_helpers.go:57`: a chat_member
  update of a channel that the round has not looked up has no chat type at all; `:104`: no participant is shown as "member", also for a user who left.
- `updates.go:193` (tlate): user_chat_id of a join request is the id of the group.
- `methods_file.go:202`: uploadStickerFile's defer assigns `tmp` to nothing; its file stays, though
  `input_file.go:194-196` says files are removed after the request.
- `methods_file.go:144`: when the reply of a download breaks, because the client hung up or because the WriteTimeout of 65 s
  (`server.go:47`) has passed with the client still there, nobody closes the reading end of the
  pipe. If the download has more to write, both goroutines stay until the process exits. `RequestsEnd` excepts this case.
- `storage.go:163`, `botmgr.go:229`: a bot whose `UpsertBot` failed has no row. setWebhook then updates nothing, answers true and starts a
  deliverer; getWebhookInfo shows no URL, and the webhook is forgotten with the process.
- `methods_updates.go:110`: the deliverer that a call replaces may POST one more of the updates the call dropped. Calls of setWebhook that
  overlap may leave the database naming one webhook and another served, or a deliverer that nothing can stop, until the process ends.
- `methods_edit.go:74` and three like it answer 500 after Telegram has done the work.
- `main.go:51-62`: `Manager.Shutdown` runs beside the HTTP server's drain and nobody waits for it. It stops
  clients that requests still use, and "bye" may come before it is through.

## Plan

Done: the update buffer with both consumers, the webhook handlers, restart, the caches, the registry,
requests with the methods, uploads, downloads and shutdown, file ids, inline ids and translation, and the proofs
of the safety of all these. Next, in this order:

1. *Lifecycle*: `Manager.Shutdown` stopping the clients of requests in flight (Requests composed with BotRegistry);
   the transport tap registered after the connection is up; a run for the downloads that hang.
2. *Errors*: `mapRPCError`'s statuses.

## Not modelled

Configuration, logging and the Bot API types keep no state that orders anything. gogram, SQLite, the network
and the HTTP library are modelled only by what the code sees of them. The storage tables for queues,
sessions and files have functions that nothing calls. Of the translation, texts, entities, markup, media without a
file, reactions and members' statuses are copied field by field, with nothing that a later step depends on. The rest
of the inventory is in the plan; until then `PROJECT.json` lists it as not or partly modelled.
