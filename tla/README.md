# ZapMQ in TLA+

Specifications of two programs of the repository: the broker (`src/src/ZapMQ.Core`, with
what `src/src/ZapMQ.Server` makes its threads do), and the panel
(`src/src/ZapMQ.Panel`), the web application it is run from. TLC checks them on small
instances; TLAPS proves the safety of the broker, and of most screens of the panel, for every
size. Every definition is written from the C# and the TypeScript; `PROJECT.json` names the lines behind each.

## The system

| Part | State | Operations | Talks to |
|---|---|---|---|
| Broker (`ZapMQ.Core/Broker.cs`) | queues by name, settings by name, totals | publish, take, respond, await, bind, unbind, confirm, disconnect, configure, pause, purge, requeue, sweep | queues, consumers, dead letters, observers |
| Message queue (`MessageQueue.cs`) | line, dictionary of unfinished messages, consumers, turn, time it became empty, retired or not | the above for one queue, under its lock | consumers, dead letters |
| Consumer (`Consumer.cs`) | free, busy or closed; bound queues; last queue; current message | acquire, release, close, deliver | implemented by connections and by the panel's sinks |
| Dead letters (`DeadLetterStore.cs`) | a list per queue name | add, prune, find, remove, clear | broker |
| Sweeper, version 2 connections, version 1 requests, queue administration | threads of the broker | one call of the broker at a time | broker |
| Administration key, transport packages and routes, trace hub, message tap (`ZapMQ.Server`) | files, sessions, transfers | propose and confirm; close, approve, apply, revert, recover; send in pieces; watch | other processes, databases, other environments |
| Panel service (`ZapMQ.Server/Panel`, `Transport/*Endpoints.cs`) | users, sessions, what the above keep | one request at a time each | everything above |
| Panel: `core/api.ts`, routes | the address, requests in flight | go to a screen, ask, be answered | panel service |
| Panel: session (`core/auth.ts`, `live.ts`, `shell.ts`, users) | who is in, the connection over which the state comes | sign in and out, guard, retry, manage users | panel service |
| Panel: screens (`pages/*.ts`, `shared/*.ts`) | signals of one component each | timers, clicks, dialogs, continuations of what was asked | panel service, Worker Control behind it |

### What is hard

In the broker:

- **Threads.** A connection handles one frame at a time, but connections, 1.x requests,
  the panel and the sweeper run at once. A queue has one lock; there is no lock over two
  queues. Between the lookup of a queue and its lock, between the lock and the hand-over
  of what was decided inside it, and between two queues of one walk, everything may change.
- **Consumers are shared.** Two queues assign messages to one consumer under two locks.
- **Queues come and go.** The sweeper retires empty queues, and the next use of the name
  makes a new one, while threads hold the old.
- **Connections end at any point**, and what they held must be settled exactly once.
- **Time.** Messages expire, outlive a retention or their answer does, and late answers race that.
- **Settings change without the lock.**

In the panel:

- **Every await is a gap.** A handler runs to completion, but what it asked for is answered
  after other clicks, timers, navigations inside the screen and answers.
- **Answers cross.** Two questions of one kind are answered in any order, or one is lost
  after it was carried out.
- **Others act too.** Another administrator, the runner of packages, the Worker Control and
  the processes change what was read a moment ago.
- **Several steps, one intention.** Putting several things in a package, or making a package
  for one file, may fail at each step.
- **Streams break** and are opened again, while who is followed changes.

`PROJECT.json` lists these as hazards at the lines where they bite, each with the
properties that would catch it going wrong, or why none does.

## Modules

| Module | What it is |
|---|---|
| `DeadLetterStore` | the letters of one queue as a sequence, one operator per method |
| `MessageQueue` | the state of queues, messages and consumers, and the body of each method of `MessageQueue.cs`, under the lock |
| `Broker` | the threads: each call of `Broker.cs` as steps (look up, wait for the lock, work, leave, hand over), `Init`, `Next`, `Spec` |
| `MessageLife` | the abstract specification: the life of a message, with its one holder |
| `BrokerProperties` | the properties, the fairness and the refinement mapping to `MessageLife` |
| `TypeLemmas`, `TypeProofs`, `QueueProofs`, `HolderProofs`, `CallProofs` | theorems and lemmas about the broker, each extending the one before |
| `MCBroker` | settings, kinds of messages and symmetry for TLC |
| `Browser` | what every screen runs on: the address, the component shown, requests in flight, what the service keeps |
| `QueueScreens`, `PublishScreen` | the page of a queue and its definition, its dead letters, its messages as they go by; a message written by hand |
| `ServiceScreens`, `ConfigScreens` | groups and services commanded and chosen, the history; the files of the Worker Control and the settings edited |
| `SessionScreens` | sign-in, guard, refused sessions, the live connection, the users |
| `TraceScreen` | processes found and followed over streams |
| `DraftScreens`, `CatalogScreens` | packages being put together, their list; objects searched and environments compared |
| `PackageScreens`, `UploadScreens` | a package decided about and sent; applications packed and versions brought by hand |
| `FileScreens`, `WebScreens` | files of an application and of the proxy; which web application answers by a name |
| `DatabaseScreens`, `LineDiff` | changes of the databases, objects and what is searched in them; the comparison of two texts line by line, as functions |
| `Landscape`, `MapScreen` | the parts of the environment put together from what four sources said, as functions; the screen that reads them |
| `RequestLemmas` | lemmas about the table of requests |
| `ScreenProofs` | theorems about the session, the queues, publishing, the services and the files and settings |
| `TransportProofs` | theorems about packages, catalogues, the list of changes of the databases, the trace, files and uploads |
| `MCScreens`, `MCTransport`, `MCFollowing`, `MCWeb` | small instances of the screens: each behaviour is of one screen |

### How the core corresponds to the code

- A queue is an *instance*: `registry` is the dictionary from names to instances, and a
  thread that looked an instance up keeps it in `op[t].inst` whatever happens to the name.
  An instance nobody refers to is garbage and is used again.
- `gate[i]` is the lock of a queue. A method that reads nothing but what the lock guards is
  one step. `Dispatch`, `Take` and `Sweep` keep the lock over several steps, because they
  look at consumers and settings, which change without it. `TryAcquire` is one
  step, as the compare-and-swap is.
- `op[t]` is the call a thread is in: where it is, for which operation, the queues still to
  visit (`todo`), the deliveries decided and not yet handed over (`out`), the place in a loop (`scan`).
- A message is an id; `entry[m]` is its `Entry` object, `pending[i]` the line, `inFlight[i]`
  the dictionary. `fate[m]` is a history variable: which of the counters counted the message,
  plus what became of an answer that was pushed. No step reads it, except to say that an id is used
  once and that clients name messages that exist.
- `got[c]` is the message the client behind a connection is processing: clients confirm
  what they were handed, or what another connection holds, but do not guess ids.
- `gone` are the connections whose outbox is completed: what is handed to them is lost.
- Settings are whole records; null fields of the code's `QueueOptions` are the defaults.
- The clock counts in the unit the settings use, and moves at any time.

Not in these modules: who published and who asked (`Note`), counters other than `fate`,
snapshots and `Peek`, observers, the text of messages.

### How the panel corresponds to the code

- JavaScript runs to completion: a click, a timer, or a continuation up to its next `await`
  is one action. `view` is the record of the signals and fields of the component that is shown;
  `page` the address with its parameter and query.
- `calls` are the requests in flight, by slot: what is asked (`op`), of what (`at`), what the
  continuation captured (`with`), and how far it is. A request is `sent`, then `answered` or
  `refused` by the service in one step, then its continuation runs: on the answer, or on a
  failure, which may come at any stage. So a request may be lost before or after it was
  carried out, and answers come in any order. `Slots` bounds how many are in flight.
- The service is `stored`: what it keeps of what these screens read and write, changed by
  requests and by others (`...Elsewhere`). Where the service decides (a package that is
  closed, an open package given up, a session that ended), its guard is in the model, from
  its C#.
- Some fields of `stored` are history, which no answer reads: `unheard` and `elsewhere` (an answer was
  lost, a file was written by somebody else), `crossed` (rows that were on their way when another
  environment was chosen), `restarted` and `again` (processes whose lines are counted from the start by the
  hub, or by the page). They say which cases a property leaves out; each is in the list of what the code
  does not keep. `spent` bounds the versions that are brought by hand.
- A dialog is part of `view`: while it is open the component waits for it. What a dialog asked for and is
  still on its way is kept with it (`makes`, of the picker of packages), since nobody waits for it once the dialog is closed.
- Going to another screen destroys the component, and ends the behaviour: what it asked for
  is answered to nobody. No property relates two screens, so each module is checked by
  itself and there is no product of screens.
- Putting the map together, comparison of texts, grouping, sorting and marking are functions that the
  properties apply to what was read. Letters, lines and names are members of small sets.

Stricter than the code, where no property depends on it:

- `Broker.Written`: `ConfigureQueue` stores the settings and looks the queue up in one step (`Broker.cs:342` and 344).
- `UploadScreens`: the answer with the open packages waits while another dialog is open, where the code puts the
  picker over it; the picker's option of a new package (`core/transport.ts:172`) is left out on that page, and
  is in `DraftScreens`. A packing that is still going on when the page is left is not followed.
- `CatalogScreens.IncludePicked`: nothing else is being put in a package when it starts.

Left out of the modelled screens: what only says how something looks (badges, summaries,
banners, snack bars), the traffic beside the web applications and how much modules are
used, what is remembered of comparisons between two visits, letters whose small form has another
length, how long a model of a message lives, and of the map where its parts are drawn, how
much the proxy sends to each, and picking, searching and moving it.

## Runs

| Run | Instance | Shows |
|---|---|---|
| `Delivery` | 1 queue that redelivers, 2 consumers, 1 caller, 2 messages | one life, one place, one holder, no lost wake-up |
| `Retirement` | 1 name, 2 instances, 1 consumer, 1 caller, 2 messages, clock to 1 with nothing kept empty | retired queues hold nothing, nothing is out of reach, every call ends |
| `Answers` | 1 RPC message, 2 consumers, 1 caller, sweeper, clock to 1 with retention 0 | answers meet who waits for them; retention spares what is being processed |
| `Pausing` | 1 queue, 1 consumer, 2 administrators | a pause is a barrier |
| `DeadLetters` | 3 messages, limits and ages that change, clock to 2 | one true letter for each death, in order, and no more of them than some settings allow |
| `Service` | 2 queues, 1 consumer, 1 caller, 2 messages | one message per consumer across two locks, nothing left by who is gone, every message is served |
| `Screens` | 2 queues, 2 services, 2 groups, 2 users, 2 objects, texts of up to 5 lines, 2 requests in flight | what is shown is of what it says it is of; what is saved is what was chosen; texts and parts are put together rightly |
| `Transport` | 2 open packages, 4 packages in 2 lines, 2 routes, 2 files, an application with a module, one version brought beside one packing, 2 requests in flight | what is told to be in is in; one decision at a time; nothing half made; what is listed, compared or opened is what was asked for |
| `Following` | 2 processes, 2 lines each, 2 services, 2 filters, 1 user | streams and timers: in the end the page follows, shows and stays connected |
| `Web` | 3 applications, two of one name, 1 swap here or elsewhere; 2 periods of the map, chosen twice | in the end who answers, and the period chosen, are shown |
| `AnswerLost`, `WrongFile` | | each finds a behaviour that a comment of the repository excludes |

Bounds of the broker: `Messages` are the ids that can ever be published, `MaxNow` stops the clock,
`Requests` are the operations clients use. `Service` has one consumer that two queues share: what
goes wrong between two locks goes wrong over one consumer; several consumers of one queue are in
`Delivery` and `Answers`.

Bounds of the panel: the constants that begin with `Max` count what is done by hand or elsewhere
(commands, writes, decisions, breaks of a stream, swaps, periods chosen), not what timers and
answers do. Two requests in flight are enough for answers to cross, and the races are between
two continuations over one component; two of each thing are enough to take one for
another. `Context`, `TooMuch` and `Kept` are the constants of the code, made small so that a
text of five lines has parts that are left out, is too long to compare, or falls out of a list.

Runs stop when what clients and users may do is used up: deadlock is not checked, `CallsEnd`
checks instead that no call of the broker is left in the middle. The symmetry declared
is sound: no definition tells two consumers, messages, names, instances or callers apart, nor two
queues or services in `Screens`; runs of liveness declare none.

Each property of a passing run has a mutant: a definition of the model changed the way a
bug would change the code, for which TLC finds the property violated.

### Fairness

- `FairThreads` gives strong fairness to the steps of every thread inside a call: the .NET
  monitor wakes its waiters, and a thread that may enter a lock again and again enters it.
  Nobody has to start a call and the clock may stop. `FairClients` adds that a client
  confirms the message it was handed, whatever else it keeps doing; `EveryMessageIsServed`
  needs it, since the broker sets no deadline for a live connection.
- `Fairness` in `MCFollowing` and `WebFairness` in `MCWeb`: the timers of a page (`setInterval`,
  `setTimeout`) run while it is open; a continuation that may run does; the network carries what is asked and
  does not lose every answer of one kind, which is what waiting for a state to be shown has to assume.
  Nobody has to click. Timers are strongly fair because `Slots` may be full when one is due,
  which is of the model and not of the browser.

### What the code does not keep

With a run that shows it:

- `AnswerLost`: the receiver of an answer disconnects between the decision to push it and
  the hand-over. `PushResponse` has already taken the answer out of the queue.
- `WrongFile`: two files of an application are opened one after the other and the content
  of the first comes last (`transport-app.ts:92`). By itself this does no harm: text and hash are both of the first,
  and saving them over the second is refused. When a save of the second is on its way meanwhile,
  its continuation (line 133) keeps the text of the first with the new hash of the second, and the
  next edit and save (line 131) writes the first over the second.

Met while modelling, and without a run, since no comment or document says otherwise or the
consequence is small; the model does the same as the code:

- `MessageQueue.cs:314`: with redelivery, two lost consumers put their messages back in the
  order they were lost, so the head of the line need not be the oldest message.
- `MessageQueue.cs:247`: a 1.x answer to a message that was never delivered and is past its
  retention is refused after the message was moved out of the line; it never becomes a
  dead letter.
- `Broker.cs:426`: a queue made while its settings change may keep the old ones.
- `Broker.cs:364`: a pause may undo a change of other settings made at the same time.
- `services.ts:200`: a change of the services undoes what somebody else wrote between the read of the file and its write.
- `settings.ts:221`: what is typed while a save is on its way is marked as saved when the answer comes.
- `worker-config.ts:139`: a group is taken out by its place in the list, which may have been read again since
  the question was asked: another group goes.
- `transport-compare.ts:278`: a row opened under one environment and answered after another was chosen is shown
  under the comparison of the other.
- `transport-compare.ts:202`: the comparison that was kept, answered late, takes the place of a newer one of the same
  environment; what was picked meanwhile stays picked, and may be no difference any more.
- `trace.ts:288`: when the hub lets the lines of a process go, or the service starts again, while the stream is only
  interrupted, lines are numbered from 1 again (`TraceHub.cs:155`, 436) and the page, which counts on, drops the new ones
  until their numbers pass the old.
- `trace.ts:310`: when the browser gives the stream up, the page counts from the start, and lines the hub still has are
  on the screen twice.
- `transport-apps.ts:299`: the request that gives up a package made for a version that was not taken may be lost,
  which is swallowed: the package stays open and nothing says so.
- `transport-package.ts:248`: the plan of a reversal is of the version that was open when it was
  asked for; confirmed after another was opened, it is that other that is reverted.
- `publish.ts:206`: what comes back from saving or removing a model replaces the models of
  whatever queue is in the dialog by then.
- `web.ts:240`: the file of the proxy that comes late is shown for whatever name is on the screen.
- `database-object.ts:125`: the place in the script is not forgotten when another object is opened.
- `diff.ts:15`: an empty text is one empty line, so a text that is made or emptied shows one line
  that was never there.
- `transport-apps.ts:210` and `92`: the box of a section picks a whole application and its
  modules, which go twice; modules of no known application take one another's place.
- `transport-apps.ts:229` and `290`: packages are asked for before the page is busy. A packing asked
  about before a version is brought by hand makes the page free when it ends, in the middle of the upload.
- `proxy.ts:54`: that the proxy has not read what is saved is known of what was saved from this page and answered: a file
  written elsewhere, or a save whose answer was lost, is not said to be unread.
- `auth.ts:58`: a second refusal while the way in is being opened forgets the way back.
- `map.ts`, `wireDimmed`: a part that was picked and is drawn no more leaves every line dimmed.
- `landscape.ts:167`: two services of nginx are two parts of one name.

## Proofs

| Module | Theorem | Property of a run |
|---|---|---|
| `TypeProofs` | `TypesHold` | `TypeOK` |
| | `OnePlaceHolds` | (part of `InOnePlace`) |
| `QueueProofs` | `RetiredHoldsNothing` | `RetiredQueueHoldsNothing` |
| | `NothingStranded` | `NothingIsStranded` |
| `HolderProofs` | `OneAtATime` | (part of `WhatConsumersHold`) |
| | `InOnePlaceAlways` | `InOnePlace` |
| | `AnswersReachWaiters` | `NoAnswerIsKeptFromAWaiter` |
| | `HoldersLetGo` | `OnlyTheHolderLetsGo` |
| | `KeepsTheLife` | `KeepsTheLifeOfAMessage`, the refinement of `MessageLife` |
| `CallProofs` | `LettersAreTrue` | `LettersTellTheTruth` |
| | `PausingIsABarrier` | `PauseIsBarrier` |
| | `ConsumersHold` | `WhatConsumersHold` |
| | `NobodySleeps` | `NoMessageSleeps` |
| `ScreenProofs` | `LiveWhileIn` | `LiveWhileInside` |
| | `PublishedAsItWasAsked` | `PublishedAsAsked` |
| | `OnlyWhatWasChosen` | `OnlyWhatWasChosenChanges` |
| | `ShownIsOfItsQueue` | `WhatIsShownIsOfItsQueue` |
| | `FurthestIsSaid` | `WatchSaysTheFurthest` |
| | `UnsavedIsAlwaysMarked` | `UnsavedIsMarked` |
| `TransportProofs` | `OneDecision` | `OneDecisionAtATime` |
| | `ChangesOfTheFilters` | `ChangesAreOfTheFilters` |
| | `OneStream` | `OneStreamOfTheProcesses` |
| | `ToldIsIn` | `WhatIsToldIsIn` |
| | `OneRoute` | `ComparisonIsOfTheRoute` |
| | `OneSearch` | `ListIsOfTheSearch` |
| | `ReadOrSaid` | `UnreadIsSaid` |
| | `AllIsTold` | `PackedOrSaid` |
| | `NoneHalfMade` | `NothingLeftHalfMade` |

### The broker

Every safety invariant and every action property that a run checks of the broker is proved,
for any number of instances, messages, consumers and callers, any settings and any
clock. The assumptions, all in `Broker`: `ThreadsAssumption` (the kinds of threads are apart,
and `None` is no thread, instance, name or message), `NoneAssumption` (nor what a consumer
holds), `BoundsAssumption` (times are numbers) and `ValuesAssumption` (settings and messages from
outside have their types, and there are finitely many names). No theorem needs fairness.

No property is inductive alone: what a call does depends on what it found some steps ago.
The invariants build on one another:

- `TypeInv` (`TypeLemmas`) is `TypeOK` with `CallsFit` (what a thread needs to go on is in its
  call) and `Places` (a message is in one queue and there once, and is live; one that is being
  published is in no queue, and one thread publishes it; an answer on its way out is about a
  message that is over). Without `Places` the entry of a message in a queue could be blank, and
  `Bury` or `Assign` would read no name from it. `AnswersAway` goes with it: an answered message
  is owned by nobody and in no line, or `Await` would finish a message that is still in one.
- `RetirementInv` (`QueueProofs`): the sweeper retires a queue by the time it has been empty for,
  so that nothing in that step says it is empty. The invariant adds that a queue that counts the
  time since it became empty has an empty line and dictionary. `TryPublish` and `Bind` ask whether
  the queue was retired in the step that puts something in it, so no fact about locks is needed.
- `RegistryInv`, `MessageInv`, `FoundInv` (`QueueProofs`): a call that waits for the
  lock of a queue to publish or bind has the queue of its name or one that was retired, and a call
  that lets go of one has one that was (`FoundCall`); the name of a message leads to the queue it
  is in (`Found`); a queue with a consumer has a name (`BoundFound`).
- `HeldInv` (`HolderProofs`): what a consumer owns is what `Current` says, and the other way round
  (`Holding`); one that is free, or that the call it is in is about to free, holds nothing (`FreeOfIt`),
  though that is written before or after under another lock; an answer that is kept is one
  nobody waits for (`AnswersSettled`); a live message is somewhere (`LiveSomewhere`). `InOnePlace`,
  `OnlyTheHolderLetsGo`, `NoAnswerIsKeptFromAWaiter` and the refinement follow from it.
- `LettersInv` (`CallProofs`): the letters tell the deaths in order, none later than now, and are within the limit of
  settings that may have been given (`EverGiven`): the settings a queue has, those written down for its name
  and those a call carries to it are all such settings (`Known`, in `HolderProofs`). `LockInv`:
  the lock of a queue is of the one thread that is inside.
- `PauseInv`: while a call is past the question whether a queue is paused (`Acting`) and the queue
  is paused, a call that gave it its settings still waits for the lock.
- `BoundInv`: a consumer that is bound has the name of the queue among its own, or on the list of
  a `Disconnect` that goes on, or is unbinding from it now. `ClosingInv`: who is closed is leaving or has left,
  and what it still holds it is about to abandon.
- `SleepInv`: while a message waits for a consumer that is bound to its queue and free, some call
  will look: `Free` or `ConfigureQueue` waits for the lock, a dispatch begins, the round has still
  to come to that consumer, or the consumer has the queue on the list it goes through. When
  every call is over there is none, which is `NoMessageSleeps`.

Instead of one lemma per action and invariant, `QueueProofs` says of each step which of a few
*moves* it makes of a message (it comes, is assigned, goes back, is answered, ends, and so on)
and what stays; the invariants are proved of the moves. For the refinement,
each move is a step of `MessageLife` under the mapping of `BrokerProperties`, or a stutter.
`TypeLemmas` begins with what `RemoveFirst`, `Append`, `Tail`, `Added`, `Pruned` and `Without`
return, for all sequences.

### The panel

For any number of things shown, of environments and of requests in flight. The specification of
each screen is the disjunct of `MCScreens`, `MCTransport` or `MCFollowing` about it, the
way it is opened included; that of a page whose service may start in several ways (`DatabaseSpec`,
`UploadSpec`, `SessionSpec`, `PublishSpec`) takes what the service keeps at first, and its theorem
is for any of them.

The assumptions on constants are named in the modules that declare them, and TLC evaluates them:

- `SlotsAssumption` (`Browser`): the places for requests are finitely many numbers, since a request
  is sent in the first that is free.
- `FieldsAssumption` (`ConfigScreens`): finitely many settings, since the code counts the ones that differ.
- `WatchedAssumption` (`QueueScreens`): messages are numbered as they are published, and the number
  kept on the page is a number.
- `PackingAssumption`, `PackagesAssumption`, `ProcessesAssumption`: packages, objects and
  processes are numbers, as their keys are in the code; what is new, or first, is the least. With
  `RoutesAssumption` there is at least one package, process or environment to speak of.

Three hypotheses say what TLA+ leaves open, that `None`, which stands for null, is not an object: `NoneIsNoRequest` (no request), `NoneIsNoRecord` (no record at all, for the pages that
pack, whose signals are of several shapes) and `NoneIsNoStream` (neither a stream nor a set of processes). The
model value that TLC takes for `None` is equal to none of them.

A property of what is shown is not inductive, because what will be shown is on its way: each
invariant says of every request in flight what its answer will be of, and of the component
what it needs to take it.

- `FrameInv`: that one goes nowhere but to the login and inside, besides `LiveWhileInside`.
- `EditorInv`: the fields of the editor; whatever rewrites the text takes the question away.
- `ChangeInv`: a request that writes the file carries what was read and what was chosen; the
  file that comes back is one. `MutatedKeeps` says what `Mutated` leaves alone.
- `QueueInv`: a request is of the screen that is open (`OpsOf`) and its answer of the queue it was
  asked of; the form is of the queue in the address.
- `ConfigInv`: of the groups, that the copy and what was read agree while nothing is unsaved, in both
  ways of editing; of the settings, that an answered save carries what was written, and that
  the ZapMQ and the rules have one request at a time (`OneQuestion`), without which a late
  answer would be taken for another.

- `WatchInv`: a row has the state that is the furthest of what was heard of its message, and its place
  is that of its publication once that was heard; there are no more rows than are kept, so that a
  row that falls out is the oldest.
- `DecisionInv`: the page of a package is busy exactly while a request that decides is on its way,
  there is one, and no question is on the screen meanwhile.
- `ChangesInv`: a question of the list that still counts is of the filters, unless they are being typed.
- `TraceInv`: a stream, or the retry of one, is of the processes the page knows, and what the
  service tells are processes.
- `PackingInv`: of what is being put in a package, that what was asked for is in, failed or is
  left (`IncludeInv`), that what is told to be in went in, also once the page of a
  comparison was left for the package (`SaidLast`), and that one question of it is on its way; of a comparison, that it is of the environment chosen, which does not change while it is made
  (`CompareInv`); of a row that is being read, that it is asked of the environment chosen, or was on
  its way when that was (`RowsInv`); of the list of objects, that it is of what is searched for, or an answer that still
  counts will make it so (`ListInv`).
- `FilesInv`: one thing at a time is asked of the machine; what the proxy does not run is said, or an
  answer on its way will have it said.
- `UploadInv`: what is packed is in, failed or left, and the item on its way is none of them. `MakingInv`
  follows the package made for a version brought by hand through its requests: what is
  left open or closed is what the request is of, or what it answers.

`NoneHalfMade` is about one version that is brought (`spent`), as the run is, with any packing beside it,
which may make the page free in the middle of the upload (see what the code does not keep). With a
second version brought meanwhile, the page of the first opens, and there the model ends, though the
code goes on making the second: the property is false of such a model, which says nothing of the
code, and is not claimed. What is excused is named in it: an answer of the making that was lost, or
the request that gives the package up.

`RequestLemmas` is about the table of requests: what sending, an answer, a failure and the end of a
continuation leave of it, which requests of some kind are on their way (`InFlight`), and that
other kinds stay (`Keeps`). `Plus` folds over what is sent, a recursion
over data, and is worked out for up to two requests, which is what any handler sends.

### TLC only

- Liveness (`CallsEnd`, `EveryMessageIsServed`, and those of the panel), which the prover does not
  reach, and with it ENABLED. `WebScreens` and the map in time have no other property.
- What is computed by recursion over data: `ComparisonIsWhole` (`LineDiff`), `MarksAreTheText`,
  `DrawnAsWhatItIs` (`Landscape`), `EveryVersionIsListedOnce`, a fold over the packages that
  came, and `LinesInTheOrderWritten`, where lines are sorted and selected from a sequence.

## Not modelled

- The service's side of the transport (`TransportService.cs`, `TransportRoutes.cs`), of the
  administration key, of the trace hub and of the message tap: what the screens see of
  them is in the panel's modules. Hazards of theirs are listed with no property.
- The outbox of a version 2 connection, its frames and draining; the definitions file.
- The overview, the traffic, the state of the database, the worker's health, the list of
  applications: reports drawn from what is read every few seconds. The map, of the same
  kind, is modelled because what it puts together may be wrong.
- Forms that send once and close, layout, formatting, the clipboard, the theme; parsing
  and formatting of 1.x requests; the comparison of scripts in the service.

## Plan

1. The core of the broker, its runs and its first theorems. Done.
2. The panel: session, queues, workers, settings, packages, catalogues, files, databases, map. Done.
3. Proofs about the core: types, places, retirement, holders, letters, pauses, wake-ups, the refinement of `MessageLife`. Done.
   Proofs about the panel: every safety property of its screens but those that are recursion over data. Done.
4. `Connection`: the outbox of a version 2 connection, its frames in order, draining; composed with the broker's promises.
5. `AdminKey`: propose, confirm and withdraw over lost answers, with the other side; a key both know.
6. `Package` and `Transfer`: approval, application, recovery and reversal with crashes, and a
   package sent in pieces; composed with `PackageScreens`.
