# A TLA+ model of qt-http-server

This directory specifies and verifies the HTTP server of this repository: a
single-threaded server on Qt's event loop (`src/src/httpserver/`) and the
program built on it (`src/src/main.cpp`), which keeps a table of values under
small integer keys and a log of what was done to it.

## Inventory

| part | code | state | operations | talks to |
|---|---|---|---|---|
| connection life cycle | `http_server.{h,cpp}` | per connection a `QTcpSocket`, a heap-allocated `HttpRequest`, its flag `handling` | `handleNewConnections`, `handleReadyRead`, the lambdas on `disconnected` and `destroyed` | Qt calls the slots; `handleReadyRead` calls the parser, the router and through it a view handler |
| parser | `http_request.{h,cpp}` | `state`, `parserState`, `_headers` | `parse(QIODevice*)`, `parse(fragment)`, `method`, `body`, `url` | fed by `handleReadyRead`, read by router and handlers |
| router | `http_router.{h,cpp}` | the list of routes, fixed once the server listens | `addRoute`, `handleRequest`, `exec`, `matches` | calls the view handler of the first route that matches |
| view handlers | `main.cpp` | `HttpServer::table`, `HttpServer::transactionLog`, shared by all connections | GET, POST, DELETE, PUT of `/api`; `/test` | read the request, write through a responder |
| responder | `http_response.{h,cpp}`, `status_map.h` | `_bodyStarted`, one object per call of a handler | `write` and its parts | writes to the socket |
| chunked transfer | `http_response.cpp` (`write(QIODevice*)`, `IOChunkedTransfer`) | per device a buffer, two indices, the timers it has set | `write`, `readFromInput`, `writeToOutput` | asynchronous, on `readyRead`, `bytesWritten`, timers; lives until its device or the socket is deleted |
| response object | `http_response.{h,cpp}` (`HttpResponse`) | an `unordered_map` of headers, body, status | constructors, `addHeader(s)`, `setHeader(s)`, `clearHeader(s)`, `write` | used by `sendResponse` |
| listening, content types, build | `http_server.cpp`, `http_content_type.*`, `CMakeLists.txt` | none to speak of | | |

What is hard here, and what makes each part correct:

* **Life cycle.** Three callbacks share two raw pointers. A view handler may
  spin an event loop of its own, and then the callbacks of all connections run
  before it returns. Correct means: nothing is freed while a handler uses it,
  everything is freed in the end, no client that is there is dropped.
* **Parser.** Requests arrive in fragments of any size and the parser keeps its
  place between calls; its counters are unsigned and are decremented before
  they are looked at. Correct means: the counters do not wrap while a body is
  read, bodies belong to the methods that have one, what has been read is not
  read again.
* **Dispatch.** `parse` always reports success and `parserState.upgrade` is
  always true, so a handler runs after *every* fragment, and the request is
  never cleared afterwards. Correct means: the handler sees the complete
  request at the right time, and what it sees at other times does no harm.
* **Service.** Ids are ints, keys are 8 bits wide; POST and DELETE go on after
  they have answered with a refusal. Correct means: the table, the log and the
  answers tell the same story, and a request has its effect once, although its
  handler may run several times and other clients' handlers run in between.
* **Chunked transfer.** Three kinds of callback run in any order, for several
  transfers on one socket; objects delete each other; a failed read is a -1 in
  an unsigned variable. Correct means: every device's bytes arrive in order,
  none lost or repeated, a file completely, and no device is left over.
* **Response object.** The container ignores the case of names in its hash but
  not in its comparison, and keeps the first of several values. Correct means:
  the answer says what the application has asked for, in whatever order.

The complete list, line by line, is `hazards` in `PROJECT.json`.

## Modules

| module | models | how |
|---|---|---|
| `HttpServer` | connection life cycle | one action per slot and per event of the peer; `stack` is the call stack of running handlers, `deleteAt` the loop depth at which `deleteLater` was posted |
| `HttpRequest` | parser | one action per group of cases of the switch; cases that only change `state` are rows of the `Moves` tables; `Reject` is every `return -1` |
| `HttpReading` | parser | the same switch as a function of the request and a byte, and with it what the bytes of a message mean when they are read in one go |
| `HttpRouter` | router | operators without state |
| `HttpConnection` | dispatch | `HttpRequest` and `HttpRouter` composed as `handleReadyRead` does: `ReadyRead`, `Parse` (a byte), `HandleRequest` |
| `HttpResponder` | responder | operators: what each `write` appends to the socket |
| `TableService` | view handlers | one action per method and page, over `table`, `transactionLog` and `written` |
| `HttpSystem` | the whole program as one client meets it | `HttpConnection` and `TableService` composed: the handler runs in the step that routes the request; `OtherRequest` is a handler call for another connection |
| `ChunkedTransfer` | answers from a device | one action for `write`, one for each thing that calls a transfer back, one for each deletion |
| `HttpResponse` | response object | one action per operation; `history` records what was asked, for the reference definition of the answer |
| `Session` | (abstract) one connection: opened, served, given up once | implemented by `HttpServer` |
| `AtomicStore` | (abstract) a client's request is one step on the table, done once | implemented by `HttpSystem` |
| `Delivery` | (abstract) an answer from a device: its bytes in order, all of a file, then it is closed | implemented by `ChunkedTransfer` |
| `HttpServerProofs`, `HttpRequestProofs`, `TableServiceProofs`, `ChunkedTransferProofs`, `HttpResponseProofs`, `HttpConnectionProofs`, `HttpSystemProofs` | | theorems about the module they are named after, and their proofs |
| `NumberLemmas` | | what the proofs need of `%`, and induction over the natural numbers |
| `MC...` | | values of the constants for model checking |

Definitions commented `Slip:` are plausible mistakes. Nothing uses them; each
is a replacement for the definition it is named after, under which the property
`PROJECT.json` pairs it with (`mutants`) must fail.

### Correspondence and abstractions

* *Bytes.* The alphabet is reduced: a header name, `chunked` and `Keep-Alive`
  are one letter each. The name of a method is two letters, for a handler may be
  called when only a part of it has been read, and the method counts as `All`
  then. Every delimiter and control character the parser tells apart is there,
  as are digits, an octet above 127 and the `#` that ends the path of a url. Letter case is folded; `strcasecmp` and
  `headerHash` fold it too.
* *Numbers.* `size_t` has `SizeMod` values and `unsigned short` `ShortMod`;
  `std::atoi` and `std::strtol` are tables for the strings that occur.
* *Return values of parse* (-2, 0, -1) are `incomplete`, `complete`, `error`.
  `parse(QIODevice*)` ignores them, and so does the model but for properties.
* *JSON.* The handlers look at two members of a document; a document says for
  each whether it is missing, of the type wanted or of another type. In
  `HttpSystem` a table says which bodies are documents (`JsonTable`, what
  `QJsonDocument::fromJson` returns). About it the ASSUME `JsonAssumption` says
  what JSON does: nothing is no document, and a document that begins with a
  document is the same one, for only white space can have been added.
* *What a request means.* A dialogue is a record of what a client sends and
  means by it. For its first request the ASSUME `FirstAssumption` of
  `HttpConnection` says that method, url, body and route are those its bytes
  have when the parser reads them in one go (`Meant`), and that its last byte
  ends it. So what a handler sees, called at any time and for bytes cut
  anywhere, is held against an undisturbed reading, and the properties are about
  every request the parser can read, with no grammar of requests. The bytes need
  not be a good request: a method without a name or a url no route matches is as
  welcome. A request of HTTP/0.9 has to be the only one of its dialogue, since
  its end leaves the parser in the url (`Simple`): what came behind it would be
  added to the url, and `LaterCallsRepeatFirst` would not hold.
* *Routing.* `StrToMethods` knows both names of each method and `All`. `Path` is
  `QUrl::path()` of what a request line may hold: it cuts at `?` and `#` and
  drops the authority of a url that begins with `//`. The scheme and authority
  of an absolute url stay in it (no client here sends one), and percent signs
  are not decoded.
* *The two early returns of `handleReadyRead`* (lines 56-64) and `clear()`
  (line 53) are dead code: `parse` returns true, `upgrade` is never assigned,
  no case sets `MessageComplete`. They have no action.
* *Deferred deletion* follows Qt: a `DeferredDelete` event runs once control is
  back in the loop that ran the slot that posted it, and `readyRead` is not
  emitted from within its own slot.
* *Sockets of transfers* are `QTcpSocket`s, which buffer: `write` takes all it is
  given while connected, and returns -1 afterwards. That is why a write is
  never partial in `ChunkedTransfer`. When the socket is deleted, the deletions
  it posts for the devices follow at once, in the same pass over posted events.
* *The buffer of a transfer* is the part of it that was read. The `memset` of
  line 79 is left out: it clears what lies behind, which is not sent. After a
  failed read it starts one byte before the array, formally undefined behaviour;
  as the struct is laid out the byte is one of `bufferSize` (512) and zero
  already.
* *Indices of transfers* are `quint64`; `WordMod` is their number of values, and
  `ToSigned` the conversion to the `qint64` that `write` takes. Files do not
  change while they are copied; the data of a sequential device arrives over
  time or never.
* *Answers on the wire* are kept per device (`sent`), for the bytes of several
  transfers on one socket are told apart by the device they come from. That the
  answers are mixed is a hazard without a property.
* *Loops* (`addHeaders`, `setHeaders`, the registration of routes) are recursive
  functions on the index, which the provers can unfold one step at a time.
* *`HttpResponse`*: `Init` is what the constructors can leave. Only the one that
  takes both arguments as rvalues sets a content type. The order in which a map
  is iterated is unknown, so the lines of an answer are a set.
* *Refinements for every connection or device.* `KeepsSessions` says
  `\A x : Inst(x)!Spec`, and so do `KeepsPromise` (the safety part) and
  `AnswersEnd` (the rest) together. They are written with the quantifier on each
  conjunct, since TLC takes a property of the form `Init /\ [][Next]_v /\ L` only.
* *Assumptions restated.* `HttpConnection` and `HttpSystem` state as ASSUMEs of
  their own what the modules they instantiate assume of the constants they pass
  on. TLC evaluates them there, and the proofs that use an instance's theorems
  need them.
* *Who a log entry is due to.* `own` and `others` in `HttpSystem` count the
  entries that calls of a handler have added, and a refused request may add
  none. `latest` tells whom the last of them is due to. No program variable
  corresponds to the three: they are read off the log's growth, step by step,
  for the properties to tell apart what this client's calls did.
* `TableService` lets requests come in any order from anywhere. That is every
  interleaving of any number of connections: a handler does not spin a loop, so
  it is one step.

## Runs

| run | checks | bounds |
|---|---|---|
| `server` | no use after free, ownership, the flag, what may be deleted; that every connection is a `Session`; that everything is reclaimed | 3 connections: handlers nest three deep, deletions are posted at each depth, and two connections can end while a third waits below them |
| `request_parser` | counters, bodies, request line, and that a body ends where its length says | 11 conversations covering each state, one with two lengths, plus each of them with any one byte replaced by a digit, CR, space or octet and cut off 8 bytes later; `SizeMod` 32 is above every size announced and low enough for wrapping to be seen |
| `connection` | what handlers see before, when and after the first request is complete, that no call sees less than the one before, and that a request with a route is served, as a whole, by the handler of that route (one without gets no handler and no answer: see `not_found`) | 10 clients: each way a request can end, with and without a second request behind it, every route case, a method whose name only begins with a known one, a url with an authority, a query or a fragment; every fragmentation |
| `table_service` | log, table and answers agree; the first of two answers is the true one | 2 keys, 3 ids of which two share a key, 2 values, 4 log entries (a key added, modified, deleted and refused) |
| `system` | bytes to table: every change asked for is made, as one atomic step, when its document has been read, whatever others do; it is made once, or what is done again changes nothing | 11 clients: each method, bodies that are chunked, have white space or something else behind their document, or are completed by what follows the request; every fragmentation, one change by another client to the same key at any time; the log bound of 40 exceeds the calls they can cause |
| `chunked_transfer` | indices, delivery, ends of answers, deletion of devices | a file of 5 bytes, one of 1 and a sequential device of 3 on one socket, with a buffer of 2: buffers that are full, partly full and exactly used up; any read may fail, the client may leave at any time |
| `http_response` | the answer against a reference definition | 3 names, two of which differ in case only, 4 requests: what is added, set, cleared and added again |
| `connection_header`, `not_found`, `logged`, `status`, `read_error` | the five findings below | as above |

Streams end, connections can be used up and the log is bounded, so TLC is told
not to look for deadlock: stopping there is legitimate.

### Findings

Five runs end in a counterexample; each property is what the repository says
of itself.

* `ConnectionHonoured`: a header is stored when the next one begins, the last
  one never is. A `Connection` header in that place is not found
  (`http_request.cpp:176`, comment at `:245`).
* `NotFoundReported`: `handleRequest` of the router returns true also when
  nothing matched, so "Missing handler" (`http_server.cpp:133`) and the NotFound
  answer never happen (`http_router.cpp:52`).
* `LoggedWasDone`: a DELETE of nothing is logged as "deleted" (`main.cpp:95`,
  `:101`), a POST that is refused as "has been added" (`:65`, `:71`), and each
  is answered a second time.
* `StatusMeansItsName`: NoContent is sent as 203, because the enumerators after
  `Created` count on from 201 (`http_response.h:38-44`, `status_map.h:15`).
* `ReadErrorReported`: the test for a failed read compares an unsigned index
  with zero (`http_response.cpp:75`), so the warning at `:77` is never written
  and the transfer stays stuck until its client leaves.

### Fairness

`HttpServer!FairSpec` asks of the event loop only that every handler returns and
that a posted deletion is carried out, for each connection. Both are strong,
because nesting makes them ready only now and then: a handler can only return
while it is on top of the stack, and a deletion is only carried out while
control is in a loop shallow enough. Nothing is owed by clients: they may connect, send,
close, or not.

`ChunkedTransfer!Spec` has weak fairness of timers, of posted deletions of
devices, and of `SinkDestroyed`: that a disconnected socket is deleted is what
`HttpServer!Reclaimed` shows. No data has to arrive, and nobody has to take any.

`HttpConnection!FairSpec` and `HttpSystem!FairSpec` assume that
TCP delivers what was sent and that a slot runs to its end; both are weak
fairness of actions that stay enabled until taken.

### Refinements

* `HttpServer` implements `Session` for each connection (`KeepsSessions`):
  *serving* is being on the call stack, *freed* is that the socket is. It rules
  out what no state shows: a connection freed twice, served again after its
  client has left, or given up while it is being served. Proved.
* `HttpSystem` implements `AtomicStore` (`IsAtomicStore`): the client's request
  is known from its bytes at the start, the table is the store, and the log
  entries its own calls add count how often it was applied. It may be applied
  again only if its body is chunked or has something behind its document, or if
  more bytes are read after it. A body that is no document at all asks for
  nothing, but bytes sent after the request may make it one: `contentSize` has
  wrapped and the parser adds them to the body. What such a call changes counts
  counts as a change by others (`Unfinished`). Proved. Where the client may
  apply its request again, `AtomicStore` does not say how often;
  `RepeatsChangeNothing` says that it makes no difference, unless another client
  has changed the table in between: then the repeat is a change.
* `ChunkedTransfer` implements `Delivery` for each device: its steps
  (`KeepsPromise`, proved), and that an answer begun is ended (`AnswersEnd`,
  model-checked). A failed read, a
  client that has left or a device that cannot be opened excuse an answer cut
  short. So does, for a sequential device, having nothing to give: that is what
  the code makes of `atEnd`. Writes of this model take all or nothing, so
  nothing here is about partial ones.

## Proofs

TLAPS checks all of them, for every value of the constants that meets the
named assumptions of the modules.

* `HttpServerProofs` (any set of connections). The inductive invariant says of
  every connection in which of its phases all variables agree: the flag is set
  exactly if the connection is on the stack, it is there at most once, a
  deletion is pending only for an unconnected socket that is not on the stack,
  and the request lives as long as the wired socket. That the stack holds no
  connection twice is what makes the flag right when an inner handler returns.
  From it follow `NoUseAfterFree`, `RequestLivesWithSocket`,
  `HandlingIsRunning`, `DeleteOnlyAbandoned` and `NeverDropsClient`.
  `ImplementsSessions` adds that each action moves at most one connection from
  one phase of `Session` to the next (`PhaseKept` for the others), the inductive
  invariant telling in which phase it was.
* `HttpRequestProofs` (any streams, widths and tables). The two counter
  properties and `BodyOnlyForBodyMethods` are not inductive alone: one needs
  that while the request line is read nothing of a body is there yet (or the
  method could still change), and that a state of the body is only entered with
  a method that carries one. `RequestLineFrozen` needs only that no move leads
  back into the request line.
  `BodiesAsAnnounced` follows from `LengthInv`, which says state by state where
  the announced length is: in the stored headers, in a header line that has
  ended but is not stored yet, or split between the body and `contentSize`, as
  remainders modulo `SizeMod`. That a byte moves from one to the other without
  changing the sum holds at zero too (`CountedOn`), which is why the property
  survives the wrap. Its hypothesis `[]NoCollision` is needed: headers are kept
  under a hash of their names, so another name with the hash of Content-Length
  replaces the length that was announced. It asks only that no header with such
  a name is stored in the behaviour in question.
  `ParsesByReading` ties the actions to the function `AfterByte`, case by case,
  and the lemmas behind it say of that function what one more byte may do to a
  request.
* `TableServiceProofs` (any ids, values and key width). `LogReflectsTable` is
  inductive once types are known: an entry appended to the log is the last about
  its key and leaves the last entry about every other key what it was.
  `AnswersAgreeWithLog` and `FirstAnswerTells` are about one step; the proofs
  follow what a responder has written, write by write, and split each handler
  into the paths through it.
* `ChunkedTransferProofs` (any devices, sizes, buffer and width of `quint64`
  that the buffer fits in with a bit to spare; the code has 512 and 64 bits).
  Between callbacks, says the inductive invariant, a transfer whose socket is
  connected has sent all it has read, and its buffer is empty unless a read has
  failed: then its end is -1 as a `quint64`, and it stays that way (`Ready`). A
  device marked for deletion has been sent whole or is excused. From it follow `TypeOK`, `IndicesInOrder` and the steps of
  `Delivery`: `WriteToOutput` appends the next bytes or nothing.
* `HttpResponseProofs` (any names, values, lists, number of requests). The
  inductive invariant (`Agrees`) says that a header is there exactly if some
  request decides about its name, with the value of that request, at each point
  of the history; a list is put in one header at a time, by induction on its
  length. `AnswersWhatWasAsked` follows because at most one request decides.
* `HttpConnectionProofs` (any dialogues and routes). `ParsesAStream`: on every
  connection the parser takes the steps of `HttpRequest`, so the theorems about
  that module hold here. `IInv` adds to the types that what the last handler saw
  is a prefix of what is parsed and that the method is read before the url, from
  which `CallsGrow` follows.

  What handlers see of the first request (`FirstRequestIsExact`,
  `EarlyCallsAreEarly`, `LaterCallsAreForFirst`) rests on `ParsesByReading` of
  `HttpRequestProofs`: a step of the parser is a step of the function
  `AfterByte`, and it drops the rest of its fragment exactly where that function
  returns. `ReadInv` is the inductive invariant. Its parts: the bytes still to
  be parsed are those of the dialogue from a position on (`InStream`); up to the
  end of the first request the parser is where an undisturbed reading of that
  many bytes is (`EarlyParser`), wherever the stream was cut; from then on it
  has the request line of that request, and its body with perhaps more behind it
  (`LaterParser`); and an early call has seen what a reading of fewer bytes than
  the request has gives (`EarlyCall`). The step that needs care is a `return`
  before the end of a fragment, which throws bytes away: before the end of the
  request `Meant` says they change nothing. `ByteExtends` says what
  one more byte may do to a request, whatever follows: it adds to what is there.
* `HttpSystemProofs` (any client, documents, fragments, other clients).
  `ServesAConnection` and `ServesATable` say that the composition takes only
  steps of `HttpConnection` and of `TableService`; all that is proved of the two
  thus holds of the whole program (`TableIsKept`, `CallsGrow`).

  `RequestsAppliedOnce` and `ProgramIsAtomicStore` put the two sides together.
  A handler changes the table only for a body that is a document. The bodies
  seen by early and later calls are prefixes of the body sent, or have it as a
  prefix; two prefixes of one sequence are comparable (`PrefixOrder`), so by
  `JsonAssumption` all the documents seen are one (`OneDocument`). A call that
  changes anything therefore has the method, the id and the value of the request
  (`ChangeIsMeant`), and an early one with a body that is not chunked has not
  seen all of it, so it asks for nothing (`EarlyAsksNothing`) unless a document
  ends inside the body. A call that changes something before the request is over
  has read a whole document of its body (`ChangeIsRead`), and it stays read,
  since bodies only grow (`StaysRead`).

  `RepeatsAreHarmless` needs an invariant of its own (`Settled`): while the last
  log entry is due to this client, the table shows what its request asks for
  (`Done`), by a document every later body begins with. A further call has that
  document or none (`SettledIsDone`), and asking for what the table shows
  changes nothing (`DoneIsUnchanged`). An entry of another client ends this; a
  request of another client that is refused leaves no entry and changes nothing
  (`UnloggedChangesNothing`).

Attempts to prove these found three things the model had wrong, or its
properties did not say: a method name that begins with a known one is taken for
that one while it is read in part, and for `All` when it is complete; a
document with something behind it is there before the body is; and a body that
is no document can be completed by the bytes of a later request. Each is now a
client of the runs.

The instances in the two last modules are of the proof modules, so that their
theorems can be cited. The lemmas named `Same...` say that two instances of a
module with the same parameters are the same.

Only model-checked: liveness (`Reclaimed`, `FirstRequestServed`, `TakesEffect`,
`DeviceReclaimed`, `AnswersEnd`), which is beyond the prover. Every invariant and
every action property of the passing runs is the property of a theorem, and so
are the refinements but for what is liveness in them.

## Not modelled

* `listen`, `bind` and the accessors of servers and ports, which run once before
  the event loop starts; content types, which are constants; the build.
* Overloads of the responder's `write` that only pass on to others, accessors
  that only read, and in `HttpResponder` the formatting of lines.
* A handler that closes its socket itself (`missingHandler`'s slot does,
  `http_server.cpp:130`, but it is never called: `NotFoundReported`).
* The memory `content.reserve` asks for and the size of a socket's buffer, which
  the code does not bound.
* A device that posts `readyRead` as an event, run between the deletion of the
  socket and its own (`http_response.cpp:88`), and files that change while they
  are copied (`:138`): both are hazards without a property.
* Regular expressions other than literals; formatting of pages, JSON and log
  entries.

## Plan

Built, in this order: `HttpServer` with its proofs, `HttpRequest` with its
proofs, `HttpRouter`, `HttpConnection`, `HttpResponder`, `TableService` with its
proofs, `HttpSystem`; then `ChunkedTransfer` and `Delivery`, `Session` with the
proof that the server implements it, `HttpResponse`, `AtomicStore` with other
clients in `HttpSystem`.

Then proofs for every component but the router, whose two lemmas (the type of
the route table and of a route found in it) are in `HttpConnectionProofs`.

Then what the handlers see of a request, once the parser was there as a function
of a byte (`HttpReading`), and from it that the program is an atomic store.

What is left:

1. The requests behind the first. The parser treats them as more of the first
   (`LaterCallsAreForFirst`); how much of them ends up in its body depends on how
   they are cut, and is nowhere promised.
2. The life cycle and the whole program in one module: a handler of `HttpSystem`
   runs to its end in one step, and its socket does not go away.
