# slackscot in TLA+

This directory is a verification development of slackscot, a framework for
Slack bots in Go. It has TLA+ modules that model the program's concurrent
core, TLC configurations that check small instances of them, and theorems
that TLAPS proves for all instances.

    tlc -config MCPartitionRouter.cfg MCPartitionRouter
    tlapm PartitionRouter_proofs.tla

Paths below are relative to the repository's `src/`.

## 1. Inventory

A slackscot bot is one process. Slack's RTM client delivers events on a
channel. One goroutine, the *main loop* (`runInternal`), takes them and routes
message events to *partitions*: a power of two of buffered channels, each with
one worker goroutine (`processMessages`). A worker handles a new, edited or
deleted message at a time: it asks the plugins for answers (`routeMessage`),
sends, updates or deletes messages through the Slack API, and keeps in a
bounded cache which responses answer which message, for later edits and
deletions. Plugins run in the workers, so they run concurrently, and so do
their calls to their storage. Nothing but the cache library takes a lock.

| component | state | operations | hard part | what makes it correct |
|---|---|---|---|---|
| Main loop and partition router (`routing.go`, `slackscot.go:477-619,677-734`) | queues, workers, termination channels | dispatch, work, close and join, abort, signal, exit | goroutines, blocking channels, three ways to stop | edits in order with their message, nothing lost in the drain, no deadlock, bounded backlog |
| Response tracking (`slackscot.go:736-939`) | ARC cache from a message to its responses by action | answer, update, delete | several calls per handler, each may fail; maps shared between handlers; evictions | the cache tells the truth about the responses on Slack |
| Message routing (`slackscot.go:941-1154`) | identity of the bot, plugins | match commands, hear actions, default action | Slack echoes the bot's messages, edits carry their author elsewhere | the bot never answers itself; one answer per action |
| Answer options (`answer.go`) | none | fold options | configuration and options override each other, in their order | a reply stays in its thread, direct messages stay unthreaded |
| Storage (`store/inmemorydb`, `store/datastoredb`) | map in memory, remote entities, client | put, delete, scan, reload | retries, lost answers, reconnections, crash between two writes | memory and datastore agree, acknowledged writes survive |
| File storage (`store/leveldb.go`) | a LevelDB database | open, put, delete, scans, close | silo and key share one key; closed under the calls of workers | a scan has what was put in the silo |
| Karma (`plugins/karma.go`) | counters by channel | record, reset, report | read-modify-write, several writes per message | karma adds up |
| Triggerer (`plugins/triggerer.go`) | triggers by channel, compiled expressions | register, forget, list, react | lookups, scans and writes of other workers in between; errors of the storage | a registered trigger reacts, a forgotten one does not, an answer is true |
| Finger quoter (`plugins/fingerquoter.go`) | none | pseudo random choice by timestamp | drawn anew by matcher, action and edit; widths of integers | an edit is quoted as the original was |
| User info (`user.go`) | cache | read through | shared by all workers, slow loads that fail, evictions | a lookup tells what Slack told of that user; an error is not cached |
| Builder, start and end (`builder.go`, `slackscot.go:398-541`), scheduler (`schedule/`), help (`help.go`) | plugins, closers, first error, jobs | build, run, register, inject, schedule, close | the scheduler's goroutine ranges over the plugins while they are completed | the first error wins, no message before services and identity; the application defers `Close` (`README.md:227`) |
| Telemetry (`coremetrics.go`, `*metrics.go`) | counters, map by plugin | measure | map filled lazily by all workers | passes every call on |

`PROJECT.json` lists the hazards found in this code line by line ("hazards"),
with the properties that cover each.

## 2. Plan

Done, in this order: `PartitionRouter` (all else runs on it), its abstract
specification `OrderedProcessing` and proofs; `ResponseTracker`; their
composition `Slackscot`; `SiloStore`, `Storage`, `KarmaRanking` and `Karma`;
`MessageRouting`; `LevelStore` and `Triggerer`; `Startup`, which runs
`MessageRouting` over the plugins that the builder leaves.

Then: `UserDirectory`, `UserInfoCache`, `FingerQuoter` and their composition
`Conversation`; the closing of the storage and refused reactions in
`Triggerer`; the theorems about `ResponseTracker`, `Slackscot`,
`UserInfoCache`, `Conversation`, `LevelStore` and `Triggerer`.

Last: the theorems about what the tracker keeps in step with Slack
(`TrackedResponses_proofs`), about `Storage` and `Karma`, about `Startup` and
`MessageRouting`, about the decisions of the finger quoter and the ranking of
karma, and the tracker's theorems for the composed bot.

To come: `MessageRouting` in place of `ResponseTracker!Triggered`, and what is
proved of the parts for their compositions.

## 3. The modules

### MessageEvents

The message events a connection delivers. An event is a record of its kind,
the message it is `about` (the one it creates, edits or deletes), its content,
as far as the bot can tell, and whether an edit is too old to be handled. An
event's position in the order of reception is also its timestamp: on one
channel Slack's timestamps are unique and grow. Message 0 stands for one
posted before the bot connected. `Deliverable` is what Slack may send next:
edits and deletions follow their message, nothing follows a deletion.
`OriginalMessageID` is `getOriginalMessageID`: an edit is known by the message
it edits, every other event, a deletion included, by its own timestamp.

### OrderedProcessing

The abstract specification: events are received, begin and finish; an event
begins when all earlier ones of its lane are done. What a lane is, is a
parameter.

### PartitionRouter

| model | code |
|---|---|
| `received` | events taken from the RTM's channel |
| `mainLoop`, `next` | where `runInternal` is, and the index of its closing and joining loops |
| `queue`, `closed` | `messageQueues` |
| `worker`, `current` | where each `processMessages` is, and the event in its hands |
| `watcher`, `run` | the signal watcher, and who waits on `terminationCh` |
| `Receive`, `Enqueue` | the loop's receive; `routeMessageEvent`, blocked while the partition has no `Room` |
| `Take`, `FinishOne`, `EndOfQueue` | the worker's `range` over its queue |
| `Goodbye`, `CloseQueue`, `Join`, `Terminate` | the test-mode end, and the deferred send |
| `Abort` | invalid credentials, a failing identity lookup, a closed channel |
| `SignalArrives`, `SignalTerminates`, `Exit` | `watchForTerminationSignalToAbort`, and `Run` returning |

An unbuffered Go channel hands a value over when a receiver waits: with
`BufferSize = 0` there is `Room` when the worker is at its `range`, and the
event handed over is in `queue` until the worker's own next step. Joining a
worker is a rendezvous of the main loop and the worker, one step.

### ResponseTracker

The handlers, on top of `OrderedProcessing`: one step per use of the cache, of
a map taken from it, and of the API. `cache` maps a message id to the *event*
whose `newResponseByActionID` map is stored there, and `entry` is those maps by
event, so the model has the code's aliasing: two handlers that got the same
map from the cache share it, and changes to it are seen by both. `held` is the
map a handler got, `todo` the actions it has still to send or update, `visited`
what its deletion loop went over. What an edit does with one earlier response
is three steps, as nothing locks the map it shares with a deletion in another
partition: the lookup (`LookUpOne`, `slackscot.go:797`), the API call and the
entry in the new map (`UpdateOne`, 800-806), and the removal from the old one
(`RemoveOne`, 809). A deletion loop reads the next response of the map
(`RangeOne`) and then deletes it on Slack (`DeleteOne`). `updating`, `moving`
and `deleting` are what a handler has in hand between these steps. `live` and
`text` are Slack's side: which responses exist and which event's answer they
show. `lost` is a history of the answers the bot does not track for a known
cause: an eviction, or a send, an update or a deletion that failed or was not
acknowledged. The ARC cache is external: of its policy only the bound is kept,
any key may be the victim. `Triggered` stands for `routeMessage`: which actions
answer is an input, that they are tried in a fixed order with one answer each
is not.

`Faults` tells which calls may fail: "send", "update" and "delete" without
effect, "ack" with the effect done and the acknowledgement lost. An action
may answer with an ephemeral message (`Ephemeral`), which is not cached.

### Slackscot

The composition: a worker's `Take` also starts the handler, the handler's steps
are `ResponseTracker`'s, and `FinishOne` waits for the handler to finish.

### MessageRouting

`routeMessage` and all it calls, down to where an answer is sent. A text is
what the code looks at: whether it begins with the command prefix, which
namespace follows, and a body that actions match or not. A plugin is a list of
commands and one of hear actions; an action's matches and the options of its
answers are inputs. An answer option is the record of the entries it sets in
`sendOpts`, `ApplyAnswerOpts` what the loop of the code leaves of them, and `Destination` what
`sendNewMessage` makes of it with the configuration. `UserSays` and `Echo` are
Slack, which shows the bot its own messages as well; `Route` handles the next
event. An echoed message may say anything, as answers are free text. The
`config` is chosen at the start. Responses are always sent: which of them are
updates instead is `ResponseTracker`'s.

### Startup

| model | code |
|---|---|
| `settings`, `NewFails` | the user's configuration and what `New` refuses of it |
| `calls`, `err`, `plugins`, `closers` | the builder's chain and what it has collected |
| `MissingConfiguration`, `ConfigurationPanics`, `NotInstantiated`, `WithFailingPlugin`, `WithPlugin` | the outcomes of a call of the chain |
| `phase` | the main goroutine: `Build`, `Run`, the deferred `Close` |
| `mainLoop`, `injected`, `identity`, `help` | `runInternal` up to its first connection, `newHelpPlugin`, `injectServicesToPlugins`, `cacheSelfIdentity` |
| `scheduler`, `scan`, `jobs` | `startActionScheduler` and the slice of plugins it ranges over |
| `Deliver`, `Work` | `MessageRouting`'s steps once the loop and the workers run |

`failed` and `opened` are histories. What a constructor opens is
opened when it is called, which for a plugin that is not configurable is
before the builder looks at its error. A plugin's configuration is a tree,
missing, or a value: of a value `viper` gives no tree, and `GetPluginConfig`
follows the nil pointer (`config.go:97-98`), which is `ConfigurationPanics`.

A job is registered with the scheduler before `NewJob` checks its schedule
(`schedule.go:167`), so every scheduled action becomes one of the `jobs`: with
its task, or, if `NewJob` or `Do` refused it, without. What the library does
with a job without a task that is due is outside of the repository and not
modelled. The scheduler reads the slice of plugins without a lock while the
help plugin is appended: `RangeTorn` is the outcome in which it gets the new
length with the old array. `ActionWithoutServices` is a job that runs before its
plugin has its services; both end the process. Run's return and the deferred
`Close` are one step, as nothing else looks at the closers.

Nothing is assumed about the names of plugins: `RegisterPlugin`
(`slackscot.go:473`) takes two of one name, whose actions may then have the same
ids. `SharedNames` are those names.

### SiloStore, Storage, KarmaRanking, Karma

`SiloStore` is what a plugin may expect of its storage: reads give the last
acknowledged write, a write that was not acknowledged stays in doubt, and only
a restart may bring it to light. Writes of a silo that overlap leave each other
in doubt, and one may undo another, until a key is written by a call that is
alone in its silo. `Storage` is `InMemoryDB` over `DatastoreDB`:
`call[w]` is the put or delete a goroutine is in, `Accepted`, `Rejected`,
`Retry` and `GiveUp` are the outcomes of the attempts, two at most; `Reconnect`
comes before the second, as a step of its own, and may leave a nil client, on
which `Panic` follows. A put that was accepted looks whether its silo has a map
(`FindNoSilo`), makes one if not (`MakeSilo`, dropping one that another put made
meanwhile) and enters the value (`Remember`). `Restart` is the reload. Puts and
deletes differ in the entry they write only, a set of one value or none. Two
histories tell what the code may promise: `doubt` has the writes of a key that
were attempted and not acknowledged alone, `raced` the silos with writes that
overlapped, until one begins alone.

`Karma` runs `recordKarma` and `clearChannelKarma` on it. `Topics` gives the
channels of the messages each worker gets: partitions are by message, so any
worker may get any channel's. `credit` is a history of what was stored; in a
channel that has raced it is counted anew (`CountAnew`) when the next call is
made. `KarmaRanking` has the four
reports, as operators on the memory: they read it once and change nothing. What
`sort.Sort` leaves is the sequence that `Less` allows, of which there is one, as
two things never have the same name.

### LevelStore, Triggerer

`LevelStore` is a file database whose keys are the silo, the delimiter and the
key, as sequences of `Letters`; a letter may stand for a whole word, but for the
delimiter. A put, a delete and a scan are each one step, which the LevelDB
library sees to. Any call may return an error at any moment, and all do once the
database is `closed`; a scan does as well when one of its keys has not exactly
one delimiter.

`Triggerer` runs the triggerer plugin on it. `work[w]` is the action a worker
executes. A silo is a channel, or `globalSiloName`; a name is a trigger that
begins with the letter of its type. `InvalidReaction` refuses an emoji trigger
without emojis, before `Register` writes; of a standard reaction of blanks the
empty string is left, and stored (`Encodings`). A forget command is two lookups
at most (`Find`) and a deletion (`Forget`). A lookup that returns an error, and
one that returns an empty reaction (`TakenForNone`), is taken for no trigger, as
in the code (`triggerer.go:447-448`), and `LookFurther` goes on to the trigger of
all channels; `unread` is a history of the silos for which an error was
returned. A message is looked at twice, by the matcher
and by the action, and each time the global silo and then the channel's are
scanned (`ScanGlobal`, then `Match` or `React`): four reads between which other
workers write. `List` does with one such pair. `CloseStorage` is the `Close`
that the application defers: a signal ends `Run` while workers are still at
work. `seen` is a history of what every entry has been since a worker began,
which lets a property tell a trigger that was registered all the time from one
that came or went.

### UserDirectory, UserInfoCache, FingerQuoter, Conversation

`UserDirectory` is what a plugin is promised by its `UserInfoFinder`: a profile
that Slack has given the bot for that very user, or none if Slack was asked and
gave none. Profiles are numbered by age, so that a stale one can be told.
`UserInfoCache` is `GetUserInfo` (`user.go:54-80`): `Hit`, `Miss`, `Load`,
`LoadFails` and `AddLoaded` are steps of their own, as nothing locks the cache
and the API call together; a size of 0 or less makes no cache. As in the
tracker, any entry may be the victim of an ARC cache.

`FingerQuoter` is a module of operators: `Candidates` (which runs of word
characters count), `Int32` and `Int31n` (`rand`'s conversion and its rejection
of the last numbers, by `Width` bits), `Triggers` and `Quote`. The generator is
the sequence of numbers it draws for a seed.

`Conversation` composes them over `OrderedProcessing`: workers answer the help
command, which looks up its author; karma, which looks up every user whose
points change; and the finger quoter, which hears what is no command.
`Timestamp` is `normalizeIncomingMessage` giving an edit the timestamp of its
message, which is the seed. `Panic` is `rand.Int31n` refusing a frequency
that is no positive int32, which the plugin's constructor lets pass: it ends the
process.

### Mutants

An operator whose comment begins with "MUTANT of X" is X with a plausible bug.
No specification uses it. Putting it in the place of X shows that the property
PROJECT.json names for it ("mutants") is violated by such a bug.

## 4. What the runs check

| run | bounds | shows |
|---|---|---|
| `router` | 3 events, 2 partitions, buffers of 1 | `TypeOK`, the drain, the bounded backlog, both refinements of `OrderedProcessing`; every event is processed, the test-mode end terminates |
| `router_deletions` | 2 events | *violated*: `DeletionsInOrder` |
| `tracker_faults` | 3 events, 2 lanes, 2 actions, one of them ephemeral, cache of 1, all faults | nothing forgotten without a cause; what is tracked exists, is fresh and complete; entries belong to their key; deleted messages are forgotten; none of another message touched |
| `tracker_deletion` | 3 events | *violated*: `DeletedMessageHasNoResponses` |
| `tracker_ephemeral` | 2 events | *violated*: `EphemeralAnswersStayPrivate` |
| `bot` | 3 events, 2 partitions, no buffers | the composition implements the tracker; no shared map; every answer is sent |
| `services` | 2 events, 2 lanes, 2 users, a cache of 1, 3 configurations of the quoter | lookups are true (the refinement of `UserDirectory`); edits are quoted as their originals; handlers end |
| `bot_life` | 4 plugins, 2 of one name, 2 refused scheduled actions of 3, 24 configuration files, 8 of replies and namespaces, 2 events, 5 texts | the first error wins; messages wait for services and identity; help is accurate; a refused schedule stops no other; the bot never answers itself; commands are answered; action ids differ but for shared names; replies go where they belong |
| `karma` | 2 messages of 2 matches, 2 workers, 2 channels of which one is shared, 2 things, 1 crash, all faults | memory a copy but for what is in doubt; karma adds up, in reports too; implements `SiloStore`; actions end |
| `karma_shared_channel` | 2 messages, 1 channel | *violated*: `MemoryIsCopy` |
| `triggers` | 2 messages, 2 workers, 1 channel, any content, 3 triggers, calls that fail and a storage closed at any moment, an empty reaction | scans agree with what was put; reactions are registered ones; none missed; one forgotten at most; answers true |
| `triggers_delimiter` | 1 message | *violated*: `ScansSucceed` |

Why the bounds are enough to be interesting. Three events hold a message, an
edit and an event of another partition or a deletion; an order violation needs
two. Two partitions give every interleaving of two workers,
which is what a shared map needs; a third worker adds none between two. A
buffer of one behind a busy worker is a queue with an order of its own, and a
full one; without buffers there is the rendezvous. A cache of one entry evicts
at the second answered message, and holds the one in question until then. Two
actions let one stop and another start answering on the same edit. In
`bot_life`, four calls let one fail between two that succeed, and one fail after another has; both refused schedules, one by `NewJob` and one by `Do`,
come before a valid one of the same plugin. The second event is an echo of the first one's answer or
another message, and one event is enough for all but the first property; one
plugin has namespaced commands and another has several actions that match the
same text. Two karma messages, each of two matches, let the second
worker's writes overlap with the first one's, in its channel or another, follow
a failed one, and come alone after a race; of two names a message writes both,
and a restart comes in between. `Values` is wide enough never to be reached, which
`KarmaTypeOK` checks. For `triggers` two messages are all that two workers do
at once, and what is stored at the start stands for all that came before: a
standard and an emoji trigger, in the channel, in all channels, both or none.
The third trigger has the delimiter, and is registered while the run goes on.
Workers and reactions are symmetric there, as they are only compared. In
`services` two events are two handlers at once, or a message and its edit; the
two users of one karma message are two lookups in a row, for which a cache of
one evicts; numbers of three bits let a frequency overflow its int32, to zero
and to another frequency, and a number be rejected.

Deadlock is checked in all runs but those of `Karma`, where a process that is
down and not started again, or has nothing more to hear, stops, and those of
`Startup`, `Triggerer` and `Conversation`, which stop when the process ends or
the bound on what is heard is reached.
`PartitionRouter!Exited` and `ResponseTracker!AllHandled` are the states where
the behaviour has ended by the code's design or by the bound. A bot that waits
for events is not stuck: a signal may always come.

**Fairness.** A goroutine that can run does run, by Go's scheduler: weak
fairness of the main loop's blocking steps and of each worker. An API call or
a datastore call returns, with a result or an error: the handler's steps are
the worker's. Not assumed: that events arrive, that a signal is sent, that the
process exits or is started again, that a call which may fail ever succeeds.
A worker is one WF condition over all its steps, so it may choose any of the
outcomes it has. In `TalkSpec` a handler's condition ends when the process
panics. Its lookups never wait for each other, so that nothing more is needed
for `EveryHandlerEnds`.

**Exact scope of some properties.** Partitions are by message, not by channel:
`karma` has a channel that both workers get messages of. There an increment may
be lost, and memory and datastore may part, as `karma_shared_channel` shows.
`MemoryIsCopyButForDoubt`, `KeepsWhatItAcknowledged` and `KarmaAddsUp` therefore
except what failed calls or overlapping writes left in doubt, and only that:
`MemoryIsCopyButForDoubt` any key until a call that is alone in its silo has
written it, `KarmaAddsUp` a channel until the next call in it that begins alone.
Three of the tracker's properties, `NoResponseForgotten`,
`TrackedResponsesExist` and `DeletedMessageForgotten`, exempt messages whose
deletion fell in another partition (`DeletionInLane`), which `router_deletions`
shows to happen: such a deletion may delete a response after an edit has updated
it and before the edit puts it into the cache again. That tracked
responses are fresh and complete holds with such deletions, too.
The responses to an edit of an untracked message count as tracked under the
edit's own id, as the code keeps them there, although no later edit finds them
(`tracker_deletion`). `RepliesInContext` says nothing of the thread of an
answer that is new with an edit: the edit's event has neither the thread nor
the timestamp of its message, so the code posts such an answer to the channel
or under the edit's timestamp. It also leaves to the configuration what
`AnswerWithoutThreading` and `AnswerInThreadWithoutBroadcast` would say
against it, as `sendNewMessage` does. `NoTriggerMissed` excepts messages of
which a scan failed, and says why one may fail: a key with the delimiter, or an
error of the database. `ForgetsOnlyOne` and `AnswersAreTrue` go by what a
lookup can tell (`NotFound`): where one returned an error, or an empty reaction
was stored, the code does take the trigger for none, and they except just that.
`OneAnswerPerAction` excepts the answers of plugins that share their name.
`EditsKeepTheDecision` compares versions that have a
candidate, and the place of the quoted word where they have as many: the code
draws a place, not a word. Its `DrawsAssumption` is that of the numbers that a
generator draws, some is accepted, which the code's endless ones see to.
`EveryHandlerEnds` excepts the panic of the finger
quoter. `ReportsRankByTotal` is checked
in every state of the `karma` run, which ranks channels of two things each.

## 5. Disagreements between code and documentation

1. *Deletions are not ordered* (`router_deletions`). `doc.go:8-9`, `README.md:71-72`
   and `routing.go:16-19` promise it; `getOriginalMessageID`
   (`slackscot.go:728-734`) only recognises edits.
2. *Responses survive the deletion of their message* (`tracker_deletion`). An
   edit of a message that is not cached has its answers cached under the
   edit's timestamp (`slackscot.go:783`), against `README.md:55`.
3. *A private answer is shown in public* (`tracker_ephemeral`). An update
   ignores the options of the new answer (`slackscot.go:928-939`), against
   `answer.go:71`.
4. *Memory and datastore diverge* (`karma_shared_channel`). The write to the
   datastore and the update of the map are two steps without a lock
   (`inmemorydb.go:63-76`), against `inmemorydb.go:8-10`.
5. *A letter ends all scans* (`triggers_delimiter`). `leveldb.go:21` takes
   "\u00DA" for a byte that is no character; it is the letter Ú. A key that has
   it is stored and makes every scan of its silo fail, against
   `leveldb.go:130`: a trigger with it silences all triggers of its channel, or
   of all channels, until it is forgotten.

Seen while modelling, without a run: the comment on `runInternal`
(`slackscot.go:517-520`) speaks of a graceful shutdown on a signal, but
`Run` returns while queues still hold events; `clearChannelKarma`
looks at the last error only; `scan` (`datastoredb.go:247-264`) passes the same
destination to its second attempt, to which the datastore's client appends, so
that a query that fails half way gives some keys the values of others; `New`
(`slackscot.go:402`) reads the size of the response cache before the defaults
are layered under the configuration, so that one without the key is refused
(`NewFails`); an error of the lookup in `deleteChannelTrigger`
(`triggerer.go:447`) is not looked at, so that when it fails a forget
command goes on to the trigger of all channels and deletes it, or answers that
there is none; a standard trigger whose reaction is blanks is stored and reacted
on with an empty message, but cannot be forgotten, as its reaction is taken for
none (`triggerer.go:448`); a schedule that `NewJob` refuses stays in the scheduler
as a job without a task (`schedule.go:167`); two plugins of one name are
registered without an error (`slackscot.go:473`), and their answers may share a
key of the response cache; a plugin's configuration that is a value panics
(`config.go:97-98`); the first puts of a silo may each make its map, the second
of which drops what was put in the first (`inmemorydb.go:70-72`);
a schedule of a weekday with a unit below the week is refused, although
`schedule.go:19` says that the unit is ignored; a job may run before
`injectServicesToPlugins` has reached its plugin, if it is due that soon.

## 6. What is proved

TLAPS proves what follows for every value of the constants: any number of
partitions, events, contents, actions, workers, users, channels and triggers,
every buffer and cache size, every hash function and every set of faults, from
the assumptions named in the modules and, for some theorems, hypotheses about
the constants that are named in their statements.

| module | theorems |
|---|---|
| `PartitionRouter_proofs` | `TypeCorrect`, `RouterInvariant`, `MessageOrder` (`InOrderPerMessage`), `DrainComplete` (`DrainLosesNothing`), `BacklogBounded` (`BoundedBacklog`); `ImplementsMessageOrder`, `ImplementsPartitionOrder`: the two refinements of `OrderedProcessing` |
| `ResponseTracker_proofs` | `TrackerTypeCorrect`, `TrackerInvariant`, `CachedAnswersBelong` (`EntriesBelongToTheirKey`), `DeletionsStayWithTheirMessage` (`RemovedForItsMessage`), `OrderInvariant`, `MapsHaveOneHolder` (`MapsNotShared`), `DeletedStayForgotten` (`DeletedMessageForgotten`) |
| `TrackedResponses_proofs` | `FateInvariant`, `TrackedExist` (`TrackedResponsesExist`), `NoneForgotten` (`NoResponseForgotten`), `TrackedAreFresh` (`TrackedResponsesAreFresh`), `TrackedAreComplete` (`TrackedResponsesAreComplete`) |
| `Slackscot_proofs` | `BotImplementsTracker` (`HandlersRunInOrder`), `BotSharesNoMap` (`NoSharedMap`), `BotKeepsTrack` |
| `Startup_proofs` | `StartInvariant`, `BuildsAllOrFirstError` (`FirstErrorWins`), `AllValidSchedulesStart` (`BadScheduleStopsNoOther`), `HelpTellsWhatTriggers` (`HelpIsAccurate`); `AnswersInvariant`, `ReadyFirst` (`ReadyBeforeMessages`), `NeverTalksToItself` (`NeverAnswersItself`), `ActionsAnswerOnce` (`OneAnswerPerAction`), `AllCommandsAnswered` (`CommandsAnswered`), `RepliesStayInContext` (`RepliesInContext`) |
| `Karma_proofs` | `KarmaTypeCorrect` (`KarmaTypeOK`), `MemoryStaysCopy` (`MemoryIsCopyButForDoubt`), `StorageImplementsStore` (`KeepsWhatItAcknowledged`), `KarmaIsSum` (`KarmaAddsUp`), `KarmaIsRanked` (`ReportsRankByTotal`) |
| `Conversation_proofs` | `CacheInvariant`, `CacheImplementsDirectory`, `LookupsAnswerTruly` (`LookupsAreTrue`), `EditsAreQuotedAlike` (`EditsKeepTheDecision`) |
| `Triggerer_proofs` | of `LevelStore`, as lemmas: a raw key stands for one silo and key, and is decoded to them (`EncodedOnce`, `Decoded`), a scan is exact (`ScanExact`); `TriggersInvariant`, `ScansAlwaysRight` (`ScansAgree`), `ReactionsAreRegistered` (`ReactsAsRegistered`), `TriggersNotMissed` (`NoTriggerMissed`), `OneForgotten` (`ForgetsOnlyOne`), `AnswersWereTrue` (`AnswersAreTrue`) |

**The router.** That events of one message are in order is not inductive: a
worker takes the head of its queue, and nothing in the property says that
what the queue holds came later than what was processed. `RouterInv`
strengthens it by facts per partition:

* `QueuesSorted`: a queue holds events of its own partition, in the order they
  were received;
* `CurrentFirst`: what a worker has in hand came before all its queue holds;
* `DoneFirst`: what a partition has processed came before both;
* `NothingLost`: every event dispatched is in its queue, in its worker's
  hands, or processed;
* `ClosedForGood`: a worker leaves only with its queue closed and empty, and
  no queue is closed while the main loop still dispatches.

Sorted queues and `DoneFirst` make the next event of a partition the oldest
that is not processed, by `NothingLost`; an edit is in its message's partition,
so order per partition gives order per message. The drain follows from
`NothingLost` once `ClosedForGood` says the queues are empty. The refinement
maps `Take` to `Begin`, `FinishOne` to `Finish`, `Receive` to itself and every
other action to a stutter.

`BoundedBacklog` rests on `QueuesFit`: a queue is within its
buffer, or has the one event handed over to a worker that waits.

**The tracker.** That the cache has a message's own answers only is not
inductive, since a map moves from a handler to the cache and on to another
handler. `TrackerInv` follows it: `EntriesBelong` (the map a handler builds has
answers to its own message, one per action, of those it is through with),
`HeldBelongs` (a map taken from the cache is of the handler's message),
`CacheBelongs` (and so is what a key has), with `Phases` for which handler may
do what and `EventsWellFormed` for what the stream has. It holds whatever
handlers overlap. What needs an order rests on `OrderInv`, which adds
`LanesInOrder`, `DeletionsAreLast` (nothing about a message follows its
deletion) and `HoldersFound`: two handlers of one message are in one lane, so
one of them is not at work. `Forgotten` says that a key stays free once its
deletion was handled, as every handler that could fill it came before.

**The responses.** That what the cache tracks is on Slack says nothing while a
handler changes it, so `FateInv` follows each response through the handlers, on
top of `OrderInv`. `MapInv` is about whole maps: a map is in the cache under one
key at most and only once its handler is done (`CachedMaps`); one that a handler
holds was cached before (`HeldMaps`), and while it is held for an update nobody
caches another for that message (`HeldIsCached`); a message whose edit found
nothing has nothing cached any more (`UncachedEdits`), and its own key has the
latest version's (`LatestCached`). `ResponseInv` is about what is in them and
in the hands of handlers: a response is in one map, or in two while an edit
moves it (`KeptOnce`), what a handler has in hand is of the map it holds or the
one it builds (`HandKnown`), and nothing is kept before it is sent (`Unsent`).
What is in a map shows the map's event and is all that answers it, unless a
handler holds the map to change it (`KeptIsFresh`, `KeptIsComplete`), and is on
Slack, if the message's deletion is in its lane (`KeptExists`); and what is on
Slack is in a map that is cached or still worked on, or lost for a known cause
(`SentIsKept`). Between two handlers nobody holds a map of the message, and the
exceptions are gone. That what is tracked is fresh and complete needs no
hypothesis about deletions; that it exists does, because a deletion in
another lane may come between an edit's update of a response and its removal
from the old map (`slackscot.go:800-809`).

**The bot.** Its `Take` and `FinishOne` are the tracker's begin and finish, and
the router's order per partition is the tracker's order of a lane, from
`ImplementsPartitionOrder`. So what is proved of the tracker holds in the bot:
`Proved` is an instance of `TrackedResponses_proofs` for the bot, and the `Same`
lemmas say that its definitions are those of the bot's `Tracker`, so that its
theorems can be cited. `HandlerAssumption` has what they assume.

**The user cache.** `CacheInv` says that Slack has told what the cache has, and
what a lookup is about to add, of that very user. With it `Hit` is `Recall`,
and the other steps map to those of the directory by name. `Conversation`'s
lookups are the cache's, by `TalkInv`: a handler is in a lookup only while it
has a user to look up.

**The quoter.** `QuoteInv` says that what a handled event had quoted is its
`Decision`, in which only the message's id, the configuration and the text
occur: an edit carries the id of its message. The number drawn is below its
bound by `DrawnBelow`, as one is accepted.

**The start.** `StartInv` says where everybody stands. `BuildInv`: what the
builder has while nothing failed, and that its error is the least of the
failed calls. `PluginsInv` and `LoopInv`: what is registered and has its
services, by where the main loop is. `ScheduleInv`: the jobs and those of the
plugins still to be ranged over are all of them together, whichever slice of
plugins was read, and each has a task just if its action was not refused.
`HelpInv`: what help lists are commands of the chain.
`HelpTellsWhatTriggers` has the hypothesis `UsagesAnswered`, that a command
answers to the usage it gives itself, which is up to its author; what is
proved is that namespaces do not come between.

**The answers.** Over `StartInv`, `PostsInv` relates posts to the events that
were routed. The routing is a concatenation of the plugins' responses, which in
turn concatenate those of their actions (`FlattenSeq`): `FlattenSeqIsFlat` and
`FlattenSeqElements` say which elements such a sequence has, and that ids stay
distinct if they are so within its parts and from one to the other. The
library's induction cannot be cited for that; the lemmas are by `Induction`
over sets of naturals, from the least element that `WFMin` gives
(`WellFoundedInduction`). `Routing` then says which responses a message gets.
`RepliesStayInContext` has the hypothesis `NoActionNamesThread`: an action
whose own answers name another thread sends them there, by its own wish. Where
a response goes is `DestinationOf`: the last option that sets an entry decides
(`LastOptionStays`), and slackscot's own come after the action's.

**The storage and karma.** `CopyInv` has the memory and the datastore differ
in what is in doubt only (`Doubtful`), and what a call has executed but not yet
remembered in doubt (`Executed`). `OneAtATime` says what makes a write alone: in
a silo that has not raced there is one call at most. `Making` and `Unmade` are
about silos without a map: they have nothing in memory, and what making one
could drop was put by an overlapping write and is in doubt. Nothing is assumed
about who works in which channel; the one hypothesis, `Summable`, says that the
set of values is closed under adding points, as the integers are. The
refinement of `SiloStore` maps the beginning of a call to `Begin`, an attempt
the datastore executes to `Attempt`, `MakeSilo` to `Undo` or, where it drops
nothing, to a stutter, `Remember` to `Acknowledge`, the return to `End`, the end
of the process to `Stop` and the restart to `Reload`. `CreditInv` adds, of
channels that have not raced, that what is stored is what was credited, but for
what was stored a moment ago (`Credited`), and that a call has the right value
to write (`CallsAddUp`).

**The reports.** `KarmaIsRanked` needs no more of the storage than its types, so
it holds whatever the workers share. The library's folds choose one element
after another: `FoldExists` says that there is such a recursive function over
the subsets of a finite set, and `FoldInduction` how to reason about it; both
are by induction over the size of the subsets. `GlobalKarma` has the merged map
of all channels give each thing its sum. `SortedExists` sorts a finite set by
counting what comes before each element, and `SortedRanks` says that in a sorted
sequence that count is the place.

**The triggerer.** A promise of the plugin is about what was registered *while*
a command was executed, so the invariant speaks of the history. `Watched` says
that a worker at work has seen what is stored, and `Promise` says of each
action what it is owed by what it has seen: where a forget command has fallen
back to all channels, its lookup did not find its own channel's trigger
(`Missing`): there was none, it was empty, or the lookup failed; what was
scanned of the silo of all channels was there; reactions are of triggers seen,
and leave out none seen throughout. A promise survives the steps of others as
histories only grow (`Kept`). What a scan gives is `ScanExact`, which rests on
the position of the first delimiter of a raw key, and why one fails is
`FailsOnDelimiter`.

**Model-checked only.** Liveness (`EveryEventProcessed`, `GoodbyeTerminates`,
`EveryMessageAnswered`, `EveryActionEnds`, `EveryHandlerEnds`) is out of the
prover's reach, which does not reason about ENABLED. Everything else that a
passing run checks is proved, under the hypotheses named above.

## 7. What is not modelled

* Message texts and formatting; logging; the Slack API beyond success, failure
  and lost acknowledgements; the replacement policy of the ARC cache.
* The options of `New`, of which `MessageRouting` has the one about namespaces,
  and the clients that it sets up.
* The emoji banner, Oh Monday and versioner plugins (`plugins/emojibanner.go`,
  `ohmonday.go`, `versionner.go`): each formats one answer from fonts, pictures
  or a version, and changes no state after its start.
* Of the triggerer, how commands are recognised and reactions rendered, and the
  map of compiled expressions, a data race.
* Of `DatastoreDB`, its own `GetSiloString` and `ScanSilo`, which `InMemoryDB`
  never calls, and `Close`.
* Telemetry (`coremetrics.go`, `*metrics.go`): it passes calls on; the wrappers
  are generated. Its map by plugin is a data race, listed as a hazard.
* The service interfaces (`chatdriver.go`, `emojireactor.go`,
  `fileuploader.go`, `slog.go`), without state of their own, and the test
  support in `test/`.
* When scheduled actions run, which is a library's.
* Data races as such: where the Go runtime would end the process, the models
  have a crash, or nothing.

PROJECT.json gives the reason for each part ("components").
