# A verification project for the diagnostics client and a page's form validation

The repository collects C# experiments. Its largest program with logic of its own is the
.NET diagnostics client with the server side that its tools need: it lives in
`src/aot/experiments/Diagnostics/Logging/EventPipeTests/CoreCLR/Standalone/test`, called
`test/` below (`EventPipeTests/NativeAot` holds a second copy of the same files). This
directory models the concurrent part of it in TLA+, checks the models with TLC and proves
theorems about them with TLAPS. The second program modelled is the unobtrusive form validation
that the sample site `src/learn/dotnet/docker/web1` serves to its pages.

## 1. Inventory

How the main parts interact: a *runtime* connects to a **transport** (named pipe or socket)
of a **ReversedDiagnosticsServer**, and advertises its cookie. The server files the stream
in a **HandleableCollection** for that cookie, where `Connect` and `WaitForConnection` find
it, and announces a new cookie through a second collection, which `Accept` reads. A
**DiagnosticsServerRouter** owns such a server for its TCP side and accepts tools on a pipe;
its **runner** pairs one stream of each into a `Router` that copies bytes both ways.

| part (file) | state | operations | what is hard | what makes it correct |
|---|---|---|---|---|
| `HandleableCollection` (`test/Client/HandleableCollection.cs`) | `_items`, `_handlers`, `_disposed`, a task per caller | `Add`, `Handle`, `HandleAsync`, `ClearItems`, `Dispose` | cancellation and `Dispose`'s sweep work without the lock | no lost wake-up, one owner per item, final outcomes, first come first served |
| `ReversedDiagnosticsServer` (`test/Client/ReversedServer`) | `_streamCollections`, `_endpointInfos`, the listener task, the disposal source | `Start`, `ListenAsync`, `Accept`, `Connect`, `WaitForConnection`, `RemoveConnection`, `DisposeAsync` | the listener, removal and disposal work on the same collections without a lock | no stream leaked, shared or stale; every tracked runtime announced; disposal leaves nothing |
| named pipe transport (`test/Client/DiagnosticsIpc/IpcServerTransport.cs`) | `_stream`, `_disposed`, `_cancellation` | `AcceptAsync`, `Dispose` | `Dispose` runs while `AcceptAsync` replaces `_stream`; instance limit; failing creations | one owner per pipe instance, ready between calls, listens again after errors |
| socket transports (same file, `IpcSocket.cs`, `IpcUnixDomainSocket.cs`) | `_socket`, a socket file | `AcceptAsync`, `Dispose` | rebinding an address that is in use | as above |
| router runner and factories (`test/Client/DiagnosticsServerRouter`) | the running routers; `_tcpServerEndpointInfo`; the two accepts of a creation | `runRouter`, `CreateRouterAsync`, `AcceptTcpStreamAsync`, `AcceptIpcStreamAsync`, `Reset`, `Router.Dispose` | two accepts, their timeouts, and checks that race; runtimes that die | streams owned or disposed, routers keep theirs, runtimes stay reachable, shutdown happens |
| `Router` (`DiagnosticsServerRouterFactory.cs:1228-1411`) | two streams, a buffer per loop, the cancellation source | `BackendReadFrontendWrite`, `FrontendReadBackendWrite`, `Stop`, `Dispose` | short reads, partial writes, resets; `Dispose` does not wait for the loops | order, no repetition, losses only for a cause, both ends closed in the end |
| unobtrusive validation (`web1/wwwroot/lib/jquery-validation-unobtrusive`, driven by `jquery.validate.js`) | the validator of the form: `invalid`, `submitted`, `pendingRequest`, `formSubmitted`; labels and their containers; rules per field | parse, change, key, leave a field, submit, reset, an answer of the server | remote answers that are late, aborted or lost; fields that scripts add, hide or disable; labels that `resetForm` does not see | a checked submit sends only a valid form, what is shown is what was last checked, a waiting submit is decided, rules mean what the markup says |
| `EventPipeSession`, `DiagnosticsClient`, IPC messages | `_stopped`, `_disposedValue`, a response stream | `Start`, `Stop`, `StopAsync`, `Dispose`, one command per method | stop sent twice or never; short reads | stop sent at most once and not forgotten; stream owned by session or closed |
| test harness (`IpcTraceTest.cs`, `StreamProxy.cs`, `Reverse.cs`) | session, sentinel event, counters | `Validate` | reader, sentinel and stop tasks | stop only a session that exists, count only after the reader ended |
| EventPipeStress (`EventPipeTests/EventPipeStress`) | child process, `finished`, burst pattern | `Orchestrate`, `Run`, `Burst` | start handshake of two processes, termination | no event before the session, every burst ends |
| HexGame (`src/Fun/HexGame` and two copies) | the board | `Play`, `PlayMove`, `MakeMonteCarloMove`, `GameState` | simulated moves and their undoing | a cell is played once, somebody wins |
| course algorithms (`src/CourseRA`) | arrays, a multigraph | quick sort, merge sort with inversions, contraction | index boundaries | equal to the reference definition |
| Pluralsight classes (`src/plural`) | queue, registrations | `CircularBuffer`, `Container`, `WithRetry` | capacity, cycles, retries used up | last *n* values, resolution ends |
| trim driver, job scripts, generators, runtime sources, samples | none worth the name | batch I/O, text generation, library demonstrations | | |

`PROJECT.json` lists them all with their status, and the main hazards at their lines.

## 2. Modules

Each module's header names what its constants stand for; each action is named after the
method and the part of it that it stands for. Operators marked *Faulty variant* are the
mutants: plausible bugs of the definition that follows them. They are not used by the
specifications; each property is shown to fail when one of them replaces the definition.

### HandleableCollection, ItemExchange and two modules of proofs

A call is a process: an `Add` is named by its item, a `Handle` or `HandleAsync` by its handler.
`items`, `handlers` and `disposed` are the fields; `tcs` and `got` the `TaskCompletionSource` of
each handler; `lock` says who is inside `lock (_items)`, and `pos`, `stage` and `removeItem` are
that call's local variables. One call is inside the lock at a time, but it is not one step:
a cancellation (`CancelHandler`) completes the task without the lock, so `TryHandler` is split
into the look at `IsCompleted` (`TryCompleted`, `TryPending`), the handler it calls
(`RunDefaultHandler`, `WaitHandlerLive`, `WaitHandlerDead`) and `TrySetResult`. `Dispose` is
four steps (set the flag under the lock, clear the items, fail the handlers one by one, clear
them), all but the first without the lock. `taker` is a history variable: for whom an item was
removed.

The handlers are the two that exist: `DefaultHandler` takes the item, and
`WaitForConnectionHandler` keeps a live stream and has a dead one removed and disposed;
`connected` says which streams are live. The catch block of `TryHandler` (226-230) is left out, since neither of them
throws on a stream that is there and not disposed.

`ItemExchange` is the abstract specification: items and handlers meet in one step, an item
is stored only if nobody waits, a handler waits only if nothing is stored. The module
`HandleableCollection` instantiates it with a refinement mapping (`Exchange`), and TLC checks that
the collection implements it (`ImplementsExchange`). What the code does to a cancelled caller's item
has a place of its own in the abstract specification, `"lost"`: see the findings. The refinement therefore excuses such a loss; what it
may not excuse, an item taken by a call that had ended before the look, is forbidden by `EndedHandlersTakeNothing`. That each added item has exactly one owner (`EveryItemHasOneOwner`) is a theorem and no
property of a run: the refinement's states say the same of the items, and the run checks that.

### ReversedDiagnosticsServer, MCReversedDiagnosticsServer and two modules of proofs

`dict` is `_streamCollections`; a collection is named by whoever made it (the stream the listener
filed, or the client whose `GetStreams` found none), so that two collections made for one
cookie one after the other differ. `stored`, `queue` and `shut` are the content of the
collections, whose operations are one step each, as `ItemExchange` allows. The listener has one
action per step between two awaits or two operations on shared state (`ListenTop`, `ListenAccept`,
`ListenParse`, `ListenFile`, `ListenClear`, `ListenAdd`, `ListenAnnounce`); a client verifies
(`ConnectVerify`), looks up the collection (`GetStreams`) and hands in its handler
(`ConnectHandle`) in three steps; `RemoveConnection` and `DisposeAsync` likewise. `where` follows each stream:
with the runtime, the listener, a collection, a client, lost on a cancelled call, or closed. `Add` calls the queued handlers one after the other inside
the lock, and a `WaitForConnection` tests the stream each time; the stream can break once between two tests, so `AddToQueue` has one
alternative per place in the queue where it does. `VerifyNotDisposed` and the `TryRemove` that follows it at once are one step. `latest`, `announced` and `known` are history variables.

### IpcServerTransport, MCIpcServerTransport, IpcServerTransportProofs

The named pipe transport. A pipe instance is a member of `Streams`; one that is closed and held by
nobody stands for a new instance, so the number of streams bounds those that exist at once and
not those ever made. `AcceptAsync` is the wait, the replacement of `_stream`, and the catch
block in two steps (the close, the check and creation); `Dispose` is the cancellation, the
disposal of `_stream` and the rest, and may come between any two of them. The system refuses a
creation beyond `MaxInstances`, and any creation if `CreateMayFail`.

### DiagnosticsServerRouter, DiagnosticsServerRouterProofs

`runRouter` (`RunTop`, `RunSweep`, `RunRouterEnded`, `RunCreated`, `RunFailed`, `RunFinally`) with the one
`CreateRouterAsync` it has under way: its two accept tasks with the streams they returned, the
check of the stream that came first, and the branches after `WhenAny` (`CreateBoth`, `CreateOne`, then
`CreateAll`, `CreateCancel`, `CreateFailingAll`). Of the TCP side's `ReversedDiagnosticsServer` the model keeps
what module `ReversedDiagnosticsServer` shows of it: the runtimes it tracks, those announced, and
the streams it holds. These are handed out untested, as `Connect` does: a stream stays when its runtime dies or its
connection breaks, and a creation may succeed with it, or find it dead when it checks. An accept that times out or is
cancelled may take an announcement or a stream and give it to nobody (`TcpLoses`): the collection does that, by finding 1.
`Reset` forgets the endpoint when the backend does not answer. Tools and runtimes come and go at any time. The tests of `IsCompletedSuccessfully` at
681, and those at 686 and 721 (`CreateOne`), are one step each: by then one of the two tasks has ended, so only the other can change between two
tests, and what the code finds is what a single look at one of these moments finds. A router is named by its IPC stream; that its
copy loops end is one step, which fairness does not put off for ever once a remote is gone.

### RouterCopy, ByteChannels, MCRouterCopy, RouterCopyProofs

One router after `Start`. A loop is named by the end it reads; `loop` is where it is, or how it ended, and
the code's local variables are `buffer`, `count` (`bytesRead`) and `done`, the part of the buffer that
`WriteAsync` has already written: a write may be taken in parts, and a cancelled one leaves a part behind. The buffer
keeps old bytes after a short read. `read` and `got` are what the router has read from an
end and written to it. An end writes its `Text`, takes what arrives, and leaves when it likes; a connection whose
end has left may be drained to its end (`ReadEnd`) or be reset (`ReadFails`, `WriteFails`; a connection that breaks counts as one whose end has left), and it holds at most
`Window` bytes that its end has not taken. `Complete` is `RouterTaskCompleted`. `IsRouterDead` then has the router
disposed: `Stop` cancels and does not wait, so `DisposeBack` and `DisposeFront` come between the loops' steps.
`Forget` is the runner that stops and drops its list.

`ByteChannels` is what the router promises: each end gets a growing prefix of what the other has written, and a stream is
closed only after an end has left. `ImplementsChannels` is the refinement; the four abstract variables are four of the
router's.

### UnobtrusiveAdapters

The part of `jquery.validate.unobtrusive.js` without state: names of nested models, the adapters that
`adapters.add`, `addBool`, `addMinMax` and `addSingleVal` register, and what `parseElement` makes of an element's attributes
with them (`ApplyAdapters`); the functions of a remote rule's data; the rules' answer on a length. An attribute
name is a tuple and a field's name the sequence of its segments, so that prefixes are prefixes. An adapter reads nothing of what the ones
before it have written, so each is an operator that gives the rules it sets (`Visit`), and the loop over the adapters
becomes: a rule is that of the last adapter that sets it. The properties are about any element that declares bounds on its length, any
names of inputs (`InputNames`) and any group of inputs that share a name (`FieldGroups`). `IsHidden` is jQuery's `:hidden`: an element without a box
on the page, be it of type hidden or not displayed. A check box that is not displayed is picked up unchecked (section 4); `RulesReadTheRightFields` is about the groups whose check boxes are displayed.

### UnobtrusiveValidation, MCUnobtrusiveValidation, UnobtrusiveValidationProofs

A page with one form: values, rules, the labels with their containers (`onError`, `onErrors`, `onSuccess`, `onReset`), and of
`jquery.validate.js` what drives those: `element` and `form` with `check`, the `remote` method with its stored
answer and pending request, `startRequest` and `stopRequest`, `submit`, `resetForm`. Each action is one event of the browser, which
runs to its end: a value that changes by a key, a paste or a script (`Change`), the keyup (`KeyUp`), `Leave`, a click on submit or reset, a script that adds, hides, disables
a field or parses, `Answer`. Requests are answered in any order, or lost (`LoseAnswer`); a new request for a field aborts the one before. The validator
looks at the fields that are enabled and not `:hidden` (`elements`, the guard of `element`, `delegate`). A button of class `cancel` or with
`formnovalidate` sets `cancelSubmit` (`ClickCancel`), and the next submit sends the form unchecked: `unchecked`, a history variable, tells those
submits apart, and `SentFormIsValid` is about the others. A check looks at its own field only, so
`checkElements` makes those of all elements at once, where the code has a loop. Left out: fields of type checkbox, radio and hidden (checked by
`onclick`, or never), and the keys that `onkeyup` excludes, which check nothing.

## 3. Runs

| run | instance | what it shows |
|---|---|---|
| `collection` | 2 items, 2 handlers (a timed `Handle`, a `WaitForConnection`), a `ClearItems`, 2 `Dispose`s, fairness | the invariants and action properties of the collection, and the refinement, in every interleaving; a timed `Handle` returns, `Dispose` lets all callers go (300,000 states) |
| `collection_lost_item` | 1 item, 2 handlers | finding 1 |
| `server` | 3 connections of one runtime, a `Connect`, a `WaitForConnection`, an `Accept`, a `RemoveConnection`, 2 `DisposeAsync`s | no stream is leaked, shared, stale or stored unannounced, and a disposed server is quiet (3.1 million states) |
| `server_liveness` | 3 connections, one of which never advertises; 2 `WaitForConnection`s, an `Accept`, 1 `DisposeAsync`; fairness | a silent runtime does not block the listener, `DisposeAsync` ends |
| `server_tracked` | 2 connections, a `Connect`, a `RemoveConnection` | finding 2 |
| `transport` | 4 pipe instances, limit 3, failing creations, fairness | one owner per instance, ready between calls, listens again |
| `transport_disposed` | 3 instances, limit 2 | finding 3 |
| `router_runner` | 2 tools, 2 TCP connections, 2 runtimes | ownership of the tools' streams and the routers' streams, and what becomes of runtimes, through accepts, timeouts, lost results, deaths, resets and shutdown |
| `router_liveness` | 2 tools, 2 TCP connections, 1 runtime, fairness | dead routers are disposed, dead backends given up, the automatic shutdown happens, with the streams of dead runtimes still in the server |
| `router_cleanup` | 1 of each | finding 4 |
| `router_copy` | texts of 2 and 3 bytes, buffers of 2, windows of 2, fairness | the router is two channels, loses bytes only for a cause, and closes both ends in the end (130,000 states) |
| `validation` | a required and an optional field, both checked by the server, one added by a script, one whose message is replaced in its container; 3 values; 3 edits; 9 nested names, groups of up to 3 inputs; length bounds up to 2, or empty | a checked submit sends the form only when it is valid, requests are counted, labels show the last check, a waiting submit is decided, adapters agree with the markup (500,000 states) |

**Why these bounds.** In the collection every race is between at most one call inside the lock,
one that cancels and one that disposes, over a queue with a first and a second element: two
items and two handlers of the two kinds give queues where a cancelled handler stands before a
live one, and two `Dispose`s show the flag's test; every safety property of the collection is a theorem for any number of calls. In the server a cookie's collections do
not touch another's, so one cookie is enough (the theorems hold for any number); three streams are needed for a reconnect, a removal
and one more connection of the same runtime, two disposers because `_disposed` is set last.
The transport holds one connection and one listener per call: a limit of three gives a call at, below
and beyond the limit, and the fourth stream stands for the one whose creation is refused. The router's
creation holds at most one stream of each side while one router runs: two of each are enough. Two runtimes
show a new instance that meets the tracking of an old one, and an announcement that waits behind another; the theorems have
any number. Liveness has one runtime, which may die and start again. `server_liveness` has two `WaitForConnection`s, the shortest queue in which a stream breaks between two
tests; what that does to its owner is a theorem (`StreamsHaveOneOwner`), for any number of them. Connections can come back, so the
numbers do not bound how long a run is. `CHECK_DEADLOCK FALSE` stands where the program may stop: a
disposed server or transport, a stopped runner, a router whose ends are silent, a form nobody touches. The collection's runs do check for deadlock: `AllReturned`
lets the model stutter once every call has returned, so a deadlock would be a call that waits and that neither an item
nor a cancellation can reach.

A router's buffer of two shows a full and a short read, and old bytes that a short read leaves; the answer of three bytes takes two
reads, and a window of two lets writes be taken whole, in parts and not at all. In the validation a field can be edited, answered
and edited again while another waits within `MaxEdits` = 3 edits (values that change, fields that are shown, hidden, enabled or disabled: the only counter that is bounded; it ends a session, and is not a limit of the
code); `Replaced` names the fields with `data-valmsg-replace`. `MaxBound` = 2 gives bounds of 0, empty, equal, ordered and
contradictory bounds, and names of depth 3 a model inside a model that repeats its field names.

**Fairness.** The code runs on the thread pool: a continuation that is ready is run, so each step that
a task takes by itself has weak fairness, as long as it has begun. Timers fire
(`CancelHandler` of timed calls, `ListenParseThrows`, `TcpTimeout`). Never fair: that somebody makes a
call, cancels a token, connects, disconnects or dies, and that a creation succeeds. The lock is not fair
either; weak fairness is enough because the number of calls is finite. `ListensAgain` assumes that the caller
stops cancelling and that creations stop failing. `DeadBackendIsReset` and `RouterEndsWithRuntimes`
assume `ToolsArePatient`: without it they fail, since the factory's timeout starts again with every
creation, and a tool that connects and leaves makes each creation fail before that. In `RouterCopy` each loop and the runner's
disposal are fair; that the ends take what they get (`EndsKeepTaking`) and that the runner goes on (`[]watched`) are
assumptions of `BothEndsAreClosed`, since neither is the router's to ensure. In the validation only the server is fair
(`ServerAnswers`: while a field has a request in flight it is answered in the end; a request may still be lost, which ends it); the formula is weak fairness with
its `ENABLED` written out, which TLC evaluates much faster.

## 4. Findings

1. **A cancelled call loses an item** (`collection_lost_item`). `TryHandler` looks at `IsCompleted`,
   calls the handler, and ignores the answer of `TrySetResult`. A timeout or cancellation in between
   leaves the item removed, not disposed, and given to nobody.
2. **A removed runtime comes back unannounced** (`server_tracked`). `Connect` on a removed endpoint
   puts its cookie back in the dictionary; when the runtime reconnects, the listener finds the
   collection and does not announce the runtime.
3. **A disposed transport listens** (`transport_disposed`). `Dispose` between the completed wait and the
   replacement of `_stream` closes the old pipe; the new one is closed by nobody.
4. **A failed creation leaks a TCP stream** (`router_cleanup`). The stream may arrive after the IPC accept
   has failed and before the creation is cancelled; the catch block disposes
   `tcpServerStream`, which has not been assigned by then.

Seen while modelling, and not stated by a run of its own:

- Finding 1 seen from the router: the timeout (`DiagnosticsServerRouterFactory.cs:234`) or the cancellation of `AcceptAsync` can win against
  the announcement of a runtime, which the server then tracks and does not announce again, and which is no endpoint: the router never uses it.
  `OnlyEndingAcceptsLoseRuntimes` says that nothing else loses a runtime.
- The timeout of the automatic shutdown starts again with every creation, and each tool that connects and gives up makes one fail: tools that
  poll keep the router alive after its runtimes, against the comment at `DiagnosticsServerRouterRunner.cs:128` (`ToolsArePatient`).
- A `DisposeAsync` that comes while another is at work may throw, as it cancels a source that is disposed.
- Calls that time out on an empty collection leave their handler in `_handlers` until the next `Add` or `Dispose`.
- `:hidden` in the data of a remote rule is any element without a box: a check box that is not displayed sends its own value although it is not
  checked, against the comment at `jquery.validate.unobtrusive.js:402` (`ShownGroups`).
- `maxConnections` counts the listener: the next listening pipe is created while the accepted one is open
  (`IpcServerTransport.cs:130`), so the last connection that `ReversedDiagnosticsServer.cs:115` speaks of is dropped as it is
  accepted. `ReadyBetweenAccepts` says only that clients can connect afterwards.
- A tool that sends a request and leaves without reading may have it dropped: a write to the tool fails first, which completes
  the router, and `Dispose` cancels the loop that carries the request (the last case of `LossHasACause`).
- A field that a script adds after the form's validator was made is parsed and never validated: `validate()` returns the
  validator that exists (`jquery.validate.js:33-36`) and its rules are not extended, although the summary of `parse`
  (`jquery.validate.unobtrusive.js:230-232`) promises to parse new elements.
- When the last awaited answer is valid and the form is not, `formSubmitted` stays set; a later valid answer submits the form
  unasked. Resetting the form does not cancel a waiting submit either. `SentFormIsValid` says that the form sent is valid even then.
- `cancelSubmit` is set by the click on a cancel button and taken back by the submit only: if a script prevents that submit, the next
  ordinary one is not checked. `SentFormIsValid` excludes it, and only it.
- A field loses its error highlight while its remote check is pending, and of two adapters that set the same rule the last one wins.

## 5. Proofs

TLAPS proves, for all values of the constants that satisfy the modules' assumptions (names
are disjoint, `None` names nothing, a limit is positive):

| theorem | what it says | argument |
|---|---|---|
| `HandleableCollectionProofs!TypeCorrect` | `TypeOK` always holds | inductive by itself; `RemoveAt` keeps a sequence's type |
| `NoLostWakeup` | an item is never stored while a handler is queued | `IInv`, below |
| `DisposeRunsAlone` | once the flag is set only `Dispose` changes the lists | `LockedIsOpen` |
| `OutcomesAreFinal` | of result, cancellation and disposal exactly one wins | `ReadyHasNoTask` |
| `WaitersAreQueued` | a caller that waits is in the queue, ahead of `Dispose`'s sweep | `QInv`, below |
| `DisposedIsEmpty` | after the sweep nothing is stored or queued and nobody waits | `QInv` |
| `ItemsHaveOneOwner` | an added item is stored, taken or disposed, and only one of these | `OInv` |
| `EndedHandlersAreInert` | a call that ended before the collection looks at it takes no item, nor is it called again | `QInv`, and that nobody is offering to it |
| `ServedAsTheyCame` | the queue grows at its end, and nobody gets an item while an earlier caller waits | `SInv` |
| `HandleableCollectionRefinementProofs!CollectionIsExchange` | the collection implements `ItemExchange` | `RInv`; one lemma per action says which step it maps to |
| `ReversedDiagnosticsServerProofs!StreamsHaveOneOwner` | a stream is in a collection exactly when nobody else has it, and never in two | `OwnersInv`, below |
| `StreamsAreTheNewest` | a runtime's collection holds no stream but the last one filed for it | `ServerInv`: `FreshIsUnused`, `Newest` |
| `TrackedAreAnnounced` | the listener announces each runtime whose collection it made | `ServerInv`: `Announced` |
| `ReversedDiagnosticsServerQueueProofs!TypeCorrect` | `TypeOK` always holds | `WholeInv`: `QueueTypes`, `RestTypes` |
| `StoredAreReachable` | no stream stays where nobody can get or dispose it | `WholeInv`: `StoredIsOpen`, `UsedIsReachable` |
| `DisposedIsQuiet` | a disposed server holds no stream and lets all go, but for late clients' collections | `WholeInv`: `SweepIsComplete`, `InOrder` |
| `IpcServerTransportProofs!TypeCorrect` | `TypeOK` always holds | inductive by itself |
| `OwnersAreUnique` | an open pipe is `_stream` or a returned connection, never both | `IInv` |
| `ReturnedConnectionsAreLeftAlone` | nothing closes a returned connection but its owner | `IInv` |
| `ReadyForClients` | between two calls clients can connect | strengthened by what each stage of the call implies |
| `DiagnosticsServerRouterProofs!TypeCorrect` | `TypeOK` always holds | with `Phases` |
| `StreamsAreOwned` | accepted IPC streams are never forgotten, routers keep theirs | `IInv` |
| `RuntimesStayReachable` | a tracked runtime stays the endpoint or announced; only an accept that times out or is cancelled may lose one, the next | `AcceptsWithoutEndpoint` |
| `RouterCopyProofs!TypeCorrect` | `TypeOK` always holds: buffers are read and written within their bounds | inductive by itself |
| `LossesHaveCauses` | bytes are missing at a closed end only if it had left or a connection was reset | `Copied`, `Reason`, `DisposedForCause` |
| `RouterIsTwoChannels` | `RouterCopy` implements `ByteChannels` | the same invariant; a write is a `Deliver`, the disposals are `Close`s |
| `UnobtrusiveValidationProofs!TypeCorrect` | `TypeOK` always holds | `IInv`, below |
| `RequestsMatch` | `pendingRequest` is the number of fields that wait, each with at most one request | `Counted` |
| `SentFormsAreValid` | a form sent by a checked submit breaks no rule of an enabled, visible field | `Answered`, `Ruled` |
| `LabelsTellTheTruth` | a container is an error exactly when the last check or answer refused its field | `Listed`, `ShownExcept` |
| `RulesFollowMarkup` | the rules of an element refuse no length that its markup allows and, unless two adapters disagree, every other | `LengthRulesFrom` |
| `ReferencesHold` | a relative name stays in its model, and the remote rule sends what a post would, if the check boxes are displayed | `RelativeTo`, `GroupRead` |

**Collection.** "No item beside a queued handler" is not inductive: `Add` stores its item after a loop
that has to have emptied the queue, and nothing in the property says that it did.
`IInv` adds that the loop never gets past its first element (`LoopAtHead`: every offer ends the loop or
removes the element; this is where the two handlers matter), so a loop that is over and stores has
seen the list empty; that nobody is inside the lock once the flag is set
(`LockedIsOpen`), so that `Dispose`'s sweep meets no half-done call; and that a call that has not begun has
no task (`ReadyHasNoTask`), so that creating the task does not overwrite an outcome.

Four more invariants extend it one after the other. `QInv` (the queue) adds that a caller that leaves
`RunOrQueueHandler` without being queued has a completed task (`OverIsSettled`), that `Dispose`'s loop index stays
inside the list it walks without a lock (`SweepInside`), and that from the flag on some `Dispose` is at work until both lists
are empty (`Draining`); a handler that `Add` drops from the queue is one whose task is completed, and the others
move up. `SInv` (the order) adds that nobody is in the queue twice and that a queued call has left the lock
(`QueueOrder`): an offer goes to the head of the queue, so a caller that gets an item while others wait is the first of them. `OInv` (the owners) says for each point of an `Add` what has become of its item (`Owned`): free until the loop
ends, then taken or closed or stored, once (`StoredOnce`). `RInv` (the refinement) adds that between the look at a task
and its completion only a cancellation can come (`Offered`), that the taker of an item has a completed task, so that a later result does not
change where the item is (`TakersAreSettled`), and that the sweep leaves no waiting handler behind it (`SweptAreSettled`).
With it the completion of a pending task is a `Take` or an `Observe`, that of a cancelled one a `Lose`, and an `Add` or a
`Handle` that ends without a partner is a `Store` or a `Wait`.

**Server.** The run has one cookie and three streams; the theorems hold for any number of runtimes, connections and calls of each
kind. They assume that a call is of one kind (`CallsDisjoint`). `OwnersInv` says where the listener and each call work (`Places`): the
collection being filled belongs to the runtime of the stream in hand, and a dictionary entry to its cookie. `ServerInv` adds what
the races turn on. A collection is named by whoever makes it, and one not made yet is used nowhere
(`FreshIsUnused`), so it is empty as it enters the dictionary. The listener adds to an
empty collection, and if the dictionary has another one for the runtime by then, that is empty too (`Newest`). `RemoveConnection` has taken out what it disposes
(`RemovedIsOut`), and `DisposeAsync` touches the dictionary only when the listener is done (`Sweeps`, `Quiet`): so none of the
two takes a collection from under an `Add` and leaves its stream behind. `WholeInv` adds that a caller that
waits is in its collection's queue (`WaitersAreQueued`) and that a disposed one has an empty queue (`ShutIsQuiet`), that a collection
which holds a stream is in the dictionary or being removed, and so is one that the listener made and that is in use, unless it is
disposed (`UsedIsReachable`), and that the snapshot over which `DisposeAsync` loops covers every collection of the dictionary that holds a
stream or that the listener made, although clients add new ones meanwhile (`SweepIsComplete`). The last is why a disposed server is quiet except in those collections.

**Transport.** A connection that was returned has been served, so it is none that
listens; what `AcceptAsync` holds and has not returned is `_stream`; and before a new instance is
made in the catch block the old one is closed. The three together make "exactly one owner" inductive.

**Router.** `Phases` ties the stage of `CreateRouterAsync` to the tasks that have a result, without which the
model could build a router of a stream that was never accepted. `Held` says that the streams of the
creation are open and no router's, `ListIsComplete` that the runner's list holds exactly the
routers not yet disposed. For the announcements the one fact missing is that the factory asks for a runtime only
when it has none (`AcceptsWithoutEndpoint`), so taking one overwrites none.

**Router's copying.** `Copied` says, byte by byte, that what an end got and what its loop still holds are the parts of the text
that come at that place, and that their lengths add up to what was read; with it a write extends a prefix to a longer
prefix (`AppendPart`, `PrefixOfText`). `Reason` gives for each way a loop ends what it saw, and `DisposedForCause` that a router is
completed by a loop that ended for a reason of its own, never by the cancellation that follows. A loop that ended at the end of its
stream has written all of it, so what is missing after a disposal goes back to an end that left or a reset connection; and a stream
is closed only after an end has left, which is the guard of `Close`.

**Form validation.** The run has two fields and three values; the theorems hold for any finite number of fields, any attributes and any
set of accepted values; `FormConstants` assumes that no field is a check box, a radio button or of type hidden. `IInv` is said of a form `w`, not of the variable, so that it can be carried through an event handler: one lemma per
operator (`CheckKeeps`, `ShowKeeps`, `FormIsChecked`, `StopKeeps`, `ReceiveKeeps`) says that it keeps `Good(w)`, and an action is a
composition of them. `SentFormIsValid` needs to know what a stored answer is worth: it is about the value that was asked last, and once the field no
longer waits it is the server's (`Answered`), although it is stale while a request is in flight. The rules are those of the fields that are enabled and visible, which
no step changes once the form is sent; that a submit was checked is what `unchecked` says. That the form is not sent meanwhile
follows from `Counted`: a check that sends a request makes `pendingRequest` positive, and 0 means that nobody waits. A lost answer leaves its
field waiting for ever, and a reset forgets answers but not requests; both keep the invariant. For `ShownAsChecked`, no container holds a
label that `errorsFor` would find, so each message is placed again, and the lists of the last check, which a late answer shows once
more, still agree with it (`Listed`); in the middle of a handler only the fields in the lists may differ (`ShownExcept`). A rule `remote` that
stands alone would break it, since an empty value is then neither error nor success; `parseElement` always adds `__dummy__` (`DummyRule`).

**Adapters.** `RulesAgreeWithMarkup` and `RulesReadTheRightFields` have no state; the run evaluates them on the page that has just been
loaded, for bounds up to 2, nine names and groups of three, and the theorems hold for any `MaxBound`, `InputNames`, `InputValues` and
`MaxGroup`. `AdapterConstants` assumes that `Undefined` and `Empty` are no other values and that no input's name begins
with `*`. `RuleOf` and `NoRule` reduce a rule to the last of the 17 adapters that sets it (`AdapterTable` lists those that matter). For
the lengths, `LengthRulesFrom` says where each of `minlength`, `maxlength` and `rangelength` comes from: `password` before `minlength` before a
`length` with one bound only. Whatever is declared is then enforced by a rule, or by one of the same kind, which is the case where
adapters that disagree lose. For the names, `AnotherLast` says that a prefix with a new last segment is the name with its last segment
replaced (`RelativeTo`). For the groups, `GroupRead` has a case per kind of group: the first checked box comes before the hidden
input that stands for an unchecked one, so both readings have the same least index (`MinOf`).

**Only model-checked**: liveness, under fairness, which is out of the prover's reach.

## 6. Not modelled, and the plan

Out of scope for good: the trim driver, the job scripts, the Python generators, the runtime's own C++ and the
samples. They are batch I/O, text generation or calls of libraries whose code is not here. Names,
addresses, logging and byte contents are abstracted from in every module; the callbacks that tests
register on a transport and `OnHandlerBegin` change no state of what they observe.

Planned, most important first:

1. `SocketServerTransport`: `AcceptAsync`, `Dispose` and the recreation of `_socket`, for TCP and Unix domain
   sockets (`IpcServerTransport.cs:157-281`); the abstract listener that both transports implement.
   Properties: one owner per socket; a bound address is released; finding 3 does or does not carry over.
2. The three other factories (792-1226) and the TCP client's retry, sharing a module with what is
   common to the four creations.
3. `EventPipeSession` with `IpcClient`: ownership of the response stream, one stop command per session.
4. `IpcTraceTest`: the handshake of reader, sentinel and stop tasks; `EventPipeStress`: the orchestrator's.
5. `HexGame` on a 2x2 and a 3x3 board; the sorting and contraction algorithms against their definitions; the
   circular buffer, the container and the retry helper.
6. Composition: the server over the detailed collection for one cookie, and over the transport.
7. Theorems: the socket transport's ownership.

Runs are kept few: where a component's safety and liveness fit one instance they are one run,
and a new module takes one run for all its properties.
