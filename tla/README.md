# cheaper: models and proofs

`cheaper` is a price comparison service in Python 2. Clients tell a *main
server* the prices of items in shops; a server stores what concerns its own
shops in SQLite, asks the other main servers over UDP for the rest, and caches
what they answer. This directory holds TLA+ modules of that program, TLC
configurations that check them on small instances, and proofs for instances of
any size. Paths are relative to the repository.

## 1. Inventory

| Component | Code | State | Operations |
|---|---|---|---|
| Price tables | `storage.py` | a connection, one cursor, one `threading.Lock`; the table in a file (`DB`) or in memory (`Cache`) | `get`, `_get`, `insert`, `update`, `remove`, `__init__` |
| Client handlers | `server.py` `ClientHandler` | `state`, `user`, `quit`, the locals of `process()`; one entry of `pending` | `listen`, `process`, `p_*`, `run` |
| Server handlers | `server.py` `ServerHandler` | the request and the locals of `run()` | one thread per datagram: `sDwnRqst`, `sDwnResp`, `sSynRqst`, `sSynResp` |
| UDP endpoint | `server.py` `UDPListener`, `UDPDispatcher` | the queue `outgoing`, the socket and its lock | `listen`, `read`, `run` |
| Start-up | `server.py` `__main__`, `mDBs.dat`, `Shops.dat`, `Users.dat` | `servers`, `servershops`, `localshops`, `allshops`, `users`, `thr_no` | parsing, `accept` loop |
| Client | `client.py` | `state`, `quit`, batch of updates, the synch timer | `process`, `listen`, `read`, timer thread |
| Commands | `commands.py` | none | `auth`, `update`, `download`, `synch` |
| Events | `event.py` | `type`, `data` | encode, decode |
| Names | `pdu.py`, `state.py`, `enum.py`, `exception.py` | none | enumerations |
| Utilities | `utils.py`, `template.py` | none | logging |
| YAML reader | `myyaml/reader.py` | `buffer`, `raw_buffer`, `eof`, `pointer`, the marks | `peek`, `prefix`, `forward`, `update`, `update_raw`, `determine_encoding` |
| YAML scanner | `myyaml/scanner.py`, `tokens.py` | token queue, `indents`, `flow_level`, `possible_simple_keys` | `check_token`, `get_token`, `fetch_*`, `scan_*` |
| YAML parser | `myyaml/parser.py`, `events.py` | `state`, `states`, `marks`, `tag_handles` | `check_event`, `get_event`, `parse_*` |
| YAML composer, constructor | `composer.py`, `nodes.py`, `constructor.py` | `anchors`; `constructed_objects`, `recursive_objects`, `state_generators`, `deep_construct` | `compose_*`, `construct_*` |
| YAML resolver | `resolver.py` | tables of regular expressions | `resolve` |
| YAML representer, serializer | `representer.py`, `serializer.py` | `represented_objects`, `object_keeper`; `anchors`, `serialized_nodes` | `represent_*`, `serialize_node`, `anchor_node` |
| YAML emitter | `myyaml/emitter.py` | queue of events, `states`, `indents`, flags of the writer, what is prepared for a node | `emit`, `expect_*`, `check_*`, `process_*`, `write_*`, `analyze_scalar` |
| YAML API | `myyaml/__init__.py`, `loader.py`, `dumper.py`, `error.py` | none | `parse`, `emit`, `load*`, `dump*` |
| C binding | `myyaml/cyaml.py` | none | classes over a library that is not here |
| File transfer | parts of `client.py`, `event.py` | unfinished | never started |

**How they interact.** A client and its `ClientHandler` exchange events over
TCP. The handler calls the two tables, puts datagrams into `outgoing` and waits
on its own queue in the dictionary `pending`. `UDPDispatcher` sends them;
`UDPListener` of the other server starts a `ServerHandler` for each, which reads
(and, for a synch, writes) that server's database and puts an answer into its
own `outgoing`. The answer comes back through the asking server's
`UDPListener` and another `ServerHandler`, which puts it into
`pending[thr_no]`. All threads of a server share the two tables.

**What is hard.** Threads share a cursor and a transaction; look-ups and the
writes that follow from them are separate critical sections; UDP loses, delays
and reorders; responses carry a thread number and no request number, so a late
one meets whatever its handler does by then; waits time out; a server may crash
with requests under way and count its threads from 1 again; a rejected
statement or any other exception ends a thread wherever it is. The client
shares its state with timer threads, and TCP keeps no PDUs apart. `myyaml`, a
copy of PyYAML 3.09 that turns events into text and back, is sequential, but
its parts are automata with stacks and flags that depend on each other over
long sequences of calls.

**What makes each part correct.**

* Price tables: a call is atomic and durable, one row per (store, item), the
  lock comes back.
* Client handlers: only authenticated users act, only local shops are changed, a
  handler always has the queue it waits on, an answer is the cheapest the server
  knows, a handler comes back to its client.
* Server handlers: a correction replaces the mistaken entry and names the user
  who made it; answers carry prices somebody published.
* UDP endpoint: every datagram put into `outgoing` is sent once, and the
  listener goes on after a bad one.
* Client: replies are matched with the commands they answer; a batch is sent
  item by item; `quit` ends the session.
* Events on the wire: one `recv` is one PDU as long as one is under way.
* YAML: what is dumped loads again, at each level: objects, events, lexemes,
  characters. Scanner and parser agree on the structure of a text; nothing of
  one document or node is left for the next.

The hazards, each at its line, are listed in `PROJECT.json`.

## 2. Modules

```
Rows ──┬── TableOps ──┬── Table       atomic table (abstract)
       │              └── Storage     lock, cursor, transaction;  T == INSTANCE Table
       │                     ├── StorageProofs
       │                     └── MCStorage
       └── ServerState ──┬── ClientHandler ──┐
                         └── ServerHandler ──┴── MainServer
LossyNet                              network (abstract)
UdpEndpoint ─┬─ UdpProofs             queue, two threads, lock, socket;  N == INSTANCE LossyNet
             └─ MCUdpEndpoint
ThreadNumbers                         the race on thr_no

Service                               what a server promises to a client (abstract)
MainServer ── HandlerService ──┬── MainServerProofs ── PriceProofs
                               └── MCMainServer   Serving(c) == INSTANCE Service
Wire, Commands ── Client ──┬── Session ──┬── SessionProofs
                  Service ─┘             └── MCSession

EventStream                           streams of YAML events (abstract)
Scanner, Parser ── Reading ──┬── ReadingProofs ─┐
                             │                  ├── EventProofs
                             └── RoundTrip ─────┴── MCRoundTrip   E == INSTANCE Emitter
Reader ──┬── ReaderProofs
         └── ScalarText ── MCText
Resolver ── Serializer, Composer ──┐
            Representer, Constructor ── DumpLoad ── MCDumpLoad
```

**`Rows`, `TableOps`.** A row is (store, item, price, user); `fpath`, which
nothing but the unfinished file transfer looks at, is left out. `Selected` is
the `SELECT` of `get`, `Replaced` the `INSERT OR REPLACE` of `update`.
`TableOps` holds the statements as values: which ones write, what they do, and
which ones SQLite rejects (a duplicate `insert`, text that is no statement).

**`Table`.** What callers may assume of `storage.py`: a call takes effect at
one moment between call and return, or fails and the thread is lost. It says
nothing of locks.

**`Storage`.** `class DB`: `Acquire`, `ExecuteQuery`/`ExecuteWrite`/
`ExecuteRejected`, `Commit` or `Fetch`, `Release` are the lines of each method.
`work` is the connection's view, `table` the file; `Restart` ends the process
between any two lines and loses what is not committed (everything, for
`Cache`: `Persistent = FALSE`). The mapping to `Table` is `status`/`val`: a
write is done when it commits, a query when it executes.

**`ServerState`.** Constants, types and variables of a network of servers. A
call on a table is one step here, which `StorageIsAtomic` (below) justifies.
`net` stands for `outgoing`, dispatcher, UDP and listener.
`quiet`, `published` and the field `re` of responses are history: properties
read them and no action tests them.

**`ClientHandler`.** One action per step between two calls on shared state:

| Code | Actions |
|---|---|
| `accept`, `__init__` | `Accept` |
| `listen`, `read`, end of `run` | `Receive` (part of each `Recv…`), `HangUp`, `Reset` |
| `process`, anonymous | `Authenticate` |
| `cUpdate` | `RecvUpdate`, `RefuseUpdate`, `StoreUpdate` |
| `p_dwnHasInfo` | `ReadDb`, `ReadCache`, `PickBest`, `PickNone`; strict at `dwn_scan`, with `ignoreerrors` at `dwn_rescan` |
| `cDownload`, the two loops | `RecvDownload`, `Ask`, `NextItem`, `DwnTimeout`, `GetNothing`, `GetAnswer`, `GetName` |
| `cSynch` | `RecvSynch`, `GetSynch`, `SynTimeout` |

**`ServerHandler`.** `Serve` starts a job for a request, `PutResponse` delivers
a response; `JobReadDb`, `JobReadCache`, `JobAnswer` are the `sDwnRqst` branch,
`JobCheck` and `JobFix` the `sSynRqst` branch, whose read and write are two
steps as they are two calls in the code.

**`MainServer`.** The composition with `Lose` and `Crash`, and the properties.

**`LossyNet`, `UdpEndpoint`.** `net` in `MainServer` is a set from which
datagrams are delivered or lost. `LossyNet` says that by itself, and
`UdpEndpoint` has the code for it: `Put` into `outgoing`; `Get`,
`DispatcherAcquire`, `SendTo`/`SendFails`, `DispatcherRelease`; `Select`,
`ListenerAcquire`, `RecvFrom`, `ListenerRelease`, then `Start`, `StartCut` or
`Warn`; the wire and the kernel as `Arrive`, `LoseOnWire`, `Discard`; `Restart`.
Under the mapping, an event is on its way from `Put` until its `ServerHandler`
starts. A dead listener or dispatcher delivers nothing any more, which is a
behaviour of `MainServer` too, since no fairness is assumed of its network. An
event that MAX_RECV cut between two fields starts a handler that fails to
unpack it; one cut elsewhere cannot be decoded.

Three Python and SQLite facts shape the actions. `GetAnswer` ends its handler,
because `shop` (`server.py:184`) is a local variable of `process` that only the
`cSynch` branch assigns. A price of `nan` passes `float` in `commands.py` and
`p_updValueOK`, and is written into the statement as `nan`, which SQLite takes
for a column: the statement is rejected. So is one with a name that ends its
quotes (`BadItems`). And `cache.update(*name)` spreads a string: it has the
right number of arguments when a late answer to a synch names a user with five
letters (`FiveLetters`). The fourth is written without quotes: the statement
stands if it is a digit, and a row of single characters is cached (`Spelt`),
else it is rejected with the lock held.

**`ThreadNumbers`.** `thr_no += 1` is a load and a store, `self.thr_no =
thr_no` another load; the accept loop makes a `ClientHandler` while
`UDPListener` makes a `ServerHandler`. `MainServer` takes the numbers to
differ; `ThreadNumbers` shows when they do not.

**`Service`, `HandlerService`.** `Service` is the connection as its client sees
it: anonymous, ready, busy with one request, an answer of its kind or (for a
synch) none. `HandlerService` maps the program counter, request and reply of
each handler of `MainServer` to it; `Session` uses the same module as its
server, so what the client may rely on is what the handlers were shown to do.

**`Wire`, `Commands`, `Client`, `Session`.** `Wire` is `event.py` as `recv`
sees it: PDUs without an end mark, decoded as one if they arrive together, cut
at `MTU`. `Commands` is what the parsers of `commands.py` make of a line.
`Client` is the loop of `client.py`: `Connect`, `ReadStdin`, `ReadTcp`,
`ReadEnd`, then `Again` and `Act`, because `process()` tests `main_ready` first
and the waiting states later in one chain of `elif`s, and a timer thread may set
`state` in between. Each branch has its operator (`AuthState`, `StartUpdate`,
`UpdOK`, `SynOK` …); `Timer(t)` is the thread of `a_synTimeout` in the steps in
which it tests and sets `state` and `quit` (`TestState`, `EndClient`, `GiveUp`). `Session`
puts client, timers and handler on one connection.

**`Scanner`, `Parser`, `Reading`.** The scanner sees a text lexeme by lexeme:
first character, column, line breaks before and within. `Fetch…` are the
`fetch_*` functions with the queue, indentation and possible keys they change;
`need_more_tokens`, `next_possible_simple_key` and
`stale_possible_simple_keys` keep their names. The parser is a pushdown
automaton; its functions keep their names without `parse_`, and the dozen
functions for items of collections are the table `Items` with the actions
`First`, `Item`, `ItemNode`, `NoItem`, `Comma`, `End` over it. In `Reading` the
parser asks for tokens and the scanner reads no more text than it must. A
directive takes the break after its line, which allows no simple key to begin the next.
`EventStream` is what both parser and serializer promise.

**`Emitter`, `RoundTrip`.** The emitter's functions keep their names without
`expect_`. `out` is what it has written (lexemes with columns) and the flags of
the writer. `RoundTrip` lets scanner and parser read the text while it is written;
events come from `EventStream`, with the properties that a configuration
chooses (`Cases`).

**`ScalarText`, `Reader`, `MCText`.** Both are about characters. `ScalarText` has
`analyze_scalar`, the five writers and the scanner's functions that read
scalars, as functions of a text. `Reader` has the three inputs of `__init__`
(a file, each `read()` of which returns as much as it likes of `Sizes`; a `str`;
a `unicode` object), the decoder, marks and errors. One configuration checks both.

**`Representer`, `Serializer`, `Composer`, `Constructor`, `Resolver`,
`DumpLoad`.** Each is a function with recursion, as in the source; what the
source keeps in attributes is a record that is passed on (`nodes`,
`represented_objects`, `anchors`, `constructed_objects`, …). A node or object is
an index, so that sharing and cycles are there. Addresses of objects that exist
only while their owner is represented (`Parts`) are reused, as `id()`s are.
`DumpLoad` grows a heap by the steps of a program and dumps and loads every
object of it. These modules have `RECURSIVE` operators and are for TLC only.

## 3. What is checked

| Run | Question | Bounds |
|---|---|---|
| `storage` | Are the calls on a shared table atomic, with rejected statements and restarts in between? | 2 threads, 2 keys, 2 prices, every kind of call |
| `download` | What do downloads return while other clients write, and does each handler keep `Service`? | 2 servers, 2 handlers of one, 2 items, 2 requests |
| `synch` | What survives concurrent corrections? | 3 handlers on 2 servers, 1 item, 3 prices, 3 requests |
| `crash` | What survives a crash of either server, and values that cannot be stored? | 2 handlers, one per server, 2 requests, 1 crash, one malformed item, NaN |
| `udp` | Do queue, threads, lock and UDP amount to the network `MainServer` assumes? | 2 servers, 3 events, one of them too long |
| `session` | Do commands, answers, timeouts and quits of a client meet as they should? | 3 lines typed, answers to downloads and `cDownload` requests of any length (`MayBeLong`) |
| `reading` | Do scanner and parser agree on every short text? | columns 0–2, 1 nested flow collection, keys of 2 columns, 3 states on the stack |
| `round_trip` | Is what the emitter writes what was to be written? | up to 5 things open for layouts, 3 with tags, anchors, directives or canonical |
| `text` | Are scalars read as written, and streams as they are? | 4 characters of 11 kinds or 8 of 3; inputs of 3 characters and a cut one; files return 1–3 bytes at a time |
| `dump` | Does what is dumped load again? | 3–4 objects, 1–2 items each |
| `late_synch`, `shared` | counterexamples, section 5 | as `synch`; 4 handlers, 2 datagrams |

*storage.* `IInv`: types; the holder of the lock is the thread between
acquire and release, or one that died there; the shared cursor still holds the
rows of the thread that fetches; nothing uncommitted is left for another
thread's commit. `PrimaryKey`. `ImplementsTable`: refinement of `Table`.
`LockComesBack` (liveness): a holder releases or dies.

*download, synch, crash.* `NoInventedPrices`: a row in a cache, a scan, a datagram, a
queue or a reply was once committed at some server, or is a name that was taken
for a row (`Misread`, section 5), and rows that are committed or corrected never
come from such a name. `IInv` contains `DbIsLocal`: a database
holds its own shops and registered users only, though synchs write to it
without the checks of `cUpdate`. `QueuesMatchWaits`: a handler
that waits has its queue, a closed one has none. `QuietScanIsCheapest`: a reply
from tables nobody wrote to meanwhile has the cheapest known row of each item.
`CulpritsArePublished`: the user an `sSynResp` names published the price its
request complained of, of whichever response it is: that it may be another
request's is `late_synch`. `HandlerComesBack` (liveness): silence of other servers cannot hold a handler
for ever; a lock that died at its own server can. `HandlersServe`: refinement
of `Service`.

*udp.* `IInv`: the lock is held inside only, and no two threads, queues or sockets have
the same event, and none one that was handled, so that none is handled twice.
`ImplementsNet`: refinement of `LossyNet`. `QueueDrains` and `SocketDrains`
(liveness): what is put is sent and what arrives is read, unless a thread died
or the listener sits in `recvfrom` with nothing to receive.

*session.* `StateOK`: types, and a batch is never empty when an answer to its
query is awaited. `OneInFlight`: why it works that one `recv` is taken for one PDU.
`TakesItsOwnAnswer`: an answer that is taken answers the last request, but for
an `sSynOK` after a timeout. `QuitIsKept`: a quit typed during a synch is not
forgotten, unless a timer that had tested `state` before it was typed gives the
synch up after it; `sawQuit` has the timers that tested it later, and they may not.
`AnswerEndsWait`, `TimerEndsSynch` (liveness): the client comes back from a wait
unless its handler died, an answer was joined or cut, or the handler stays busy
for ever. `late`, `raced`, `sawQuit` and `swallowed` are history and mark the situations
in which the code gives no guarantee; the properties say exactly which those are.

*reading.* `KeysPointAtTheirTokens`: KEY goes into the queue where the key
began, and never before a token the parser has seen. `BlocksAgree`: the
scanner's indentation and the parser's stack have the same blocks, but for
tokens on the way. `ParserDetectsIt`: a text that the scanner let pass although
it is in error is never accepted (for a `:` without a key, section 5). `MarksMatch`, `HandlesOfTheDocument`,
`WellNested` (refinement of `EventStream`).

*round_trip.* `ReadsBack`: the reader returns the events that were given, no
event is unexpected to the emitter, and nothing depends on what the scanner lets pass.
`Separate`: lexemes are told from each other, and indentation means the same to
both sides. `NothingStale`. Deadlock is checked: emitter or reader can always
go on until the stream ends.

*text.* `PlainReadsBack`, `QuotedReadsBack`, `BlockReadsBack`: each text in
each style that `analyze_scalar` allows. `ReturnsTheText`, `PlacesAreRight`:
characters, marks and the places of errors do not depend on whether the text is
a `unicode` object, a `str` or a file, nor on how much of it each `read()` returns. `CallsReturn` (liveness).

*dump.* `LoadsBack`: same kinds, parts, sharing and cycles, for all that can be
dumped, and what cannot are dicts with keys that do not compare (section 5). `DocumentsAreAlone`:
the second document of a stream is as if it were alone.

**Bounds.** `MaxRequests` counts requests after authentication, by all clients
together, and `MaxCrashes` crashes: they are the only bounds in actions of
`MainServer`. Two requests are what it takes for a late answer to meet a later
wait, for an update to fall into a scan, or for a rejected statement to leave a
lock before another call; three are two synchs of one price and an update
between look-up and correction. Two shops and two items are what it takes for the
loops of `p_dwnHasInfo` to carry something from one to the next. One crash lets
the handler after it have the number of the one before it. Two servers suffice
for the properties, none of which relates the answers of two remote servers. In
`MCUdpEndpoint` each event is put once (which keeps events apart, as the request
numbers of `MainServer` do); two from one server queue behind each other and one
crosses them. In `MCStorage` two threads give every pair of interleaved calls.
`MayBeLong` is `cDownload`, which lists any number of items and shops: the server's
`recv` may cut it as the client's cuts `sDwnInfo`. Three typed lines (`MaxTyped`) are a synch that is given up, another, and a
quit. `MaxColumn = 2` gives a block, one inside it, and one between
their columns; `KeyLength = 2` makes keys that are too long; `MaxDepth` counts
the parser's stack, whose limit a text reaches with a collection in a
collection; `MaxFlow = 1` has blocks around a flow collection and its error
cases, nested ones are in `round_trip`. There `KeyLimit = 6`, `KeyLength = 48`
and `BestWidth = 5` stand for 128, 1024 and 80 in the same order of size: a
key that the emitter takes must fit the scanner's limit when escaped and
broken. Eight characters are two words that are broken into lines with breaks
before, between and after them. Pieces of 1–3 bytes split the two- and
three-byte characters everywhere, and CR LF. Three objects are a cycle and a
third that shares it; four are needed for two functions' arguments that have one
address. `MaxServed = 2` and four handlers are what the race on `thr_no` takes.

**No symmetry** is used: the members of each set play different roles. **Deadlock** is
checked in `storage`, `udp` and `round_trip`. In the others it is not: every handler may have
closed, the client may be gone, the text be read, the program stop.

**Fairness.** `Storage`: a thread inside a method is scheduled (`WF(Inside(t))`);
who gets the lock next is left open, since `threading.Lock` promises nothing.
`MainServer`: a handler goes on with `process()` when it can (`WF(Proceed(c))`)
and `Queue.get(True, T)` returns after `T`, whatever the queue holds. `UdpEndpoint`: both threads
are scheduled, but one that waits for the lock gets it for sure only if the lock
stays free. `Session`: the main thread and each timer thread go on when they can, and the
handler does when nothing can hold it up (`FreeHandler`): it receives, hangs up,
and comes back from the waits of a synch, which have timeouts. An update or a
download may wait for ever for a lock that a dead thread left (`storage.py:43`),
so nothing says that it is answered; `AnswerEndsWait` exempts a handler that stays
busy. Nothing is assumed of what the user types or of other clients.
`Reader`: a call that is begun goes on. Nothing is assumed of the
network, other servers, clients, server handlers or crashes.

**Coverage.** The passing runs together take every action: `crash` has the ones
that need a rejected statement or a restart.

## 4. What is proved

TLAPS checks the following for every value of the constants, given the
assumptions in the modules: `TableAssumption` and `NoThreadAssumption` (calls
are well typed, "no thread" is no thread), `MainServerAssumption` (menus contain
well-formed PDUs), `DiskAssumption` (a server finds its own shops' rows on
disk), `EndpointAssumption`, `ClientAssumption`, `ScannerAssumption` and
`ParserAssumption` (types of the parameters), `RoundTripAssumption` (the
emitter's defaults; an `AliasEvent` has an anchor and no tag), `ReaderAssumption` (what the
characters and the parameters of `Reader` are).

`StorageProofs`

* `LockingIsSound`: `Spec => []IInv`. The inductive invariant is the conjunction
  of type correctness, `HolderIsInside`, `FetchesOwnRows` and
  `OnlyTheWriterIsDirty`: each of the last two needs the first, since it is
  mutual exclusion that keeps another thread from the cursor and from `work`.
* `KeysAreUnique`: `Spec => []PrimaryKey`, by itself inductive over `Replaced`.
* `StorageIsAtomic`: `Spec => T!Spec`, step by step with `IInv`: `Commit` is
  `Apply` of a write, `ExecuteQuery` is `Apply` of a query, `ExecuteRejected` is
  `Fail`; `Acquire`, `ExecuteWrite` and `Fetch` are stutters.

`MainServerProofs`

* `Invariance`: `Spec => []IInv`, `IInv == TypeOK /\ DbIsLocal /\ HandlersMatch
  /\ JobsMatch`. `DbIsLocal` alone is not inductive: `StoreUpdate` needs that
  the handler passed `p_updShopOK` and that its user is registered, and `JobFix`
  that the entry it found was in the database it writes to and that the
  correction has a registered author. `HandlersMatch` and `JobsMatch` say so.
* `TypeCorrect` and `DatabasesAreLocal` follow from it.
* `QueuesAlwaysMatch`: `Spec => []QueuesMatchWaits`.
* `HandlersImplementService`: every handler refines `Service`. A step of another
  thread is a stutter (`OthersLeave`), a crash is `Perish` or `Reset`, and each
  action of the handler is found in `Steps` by the state of its client's
  conversation. `SynchesMatch` is needed besides `IInv`: the kind of an answer
  is the kind of the request only if a handler waits for a synch while it serves
  one.

`UdpProofs`

* `Invariance`: `Spec => []IInv`; `EventsAreInOnePlace`, `LockIsSound`,
  `TypeCorrect` are its conjuncts. Type correctness needs `InOnePlace` (what the
  dispatcher sends is an event), and so does the refinement.
* `EndpointsImplementNet`: `Spec => N!Spec`. `Put` is `Send`, `Start` is
  `Deliver`, every step that drops an event is `Lose`, the others are stutters.
  That a delivered event leaves the network needs that it is nowhere else.

`PriceProofs`

* `PricesAreReal`: `Spec => []NoInventedPrices`. What may be in caches, scans,
  datagrams and replies is `Sourced`: published, or a name of somebody who
  published, read as a row (`PublishedIsSourced`, `NameKnown`). `Known` has a conjunct for each
  place a row can be in (tables, locals of handlers, jobs, queues, datagrams,
  replies); a row moves from any of them to any other, so none is inductive
  alone. It needs `IInv`: `StoreUpdate` and `JobFix` publish what they write,
  and the job that corrects an entry must have found it in the database.
* `CulpritsAreReal`: `Spec => []CulpritsArePublished`. `CulpritsKnown` says the
  same of the responses on the way and in the queues, and rests on `Known`:
  the culprit is the user of a row that `JobCheck` found.
* `QuietScansFindTheCheapest`: `Spec => []QuietScanIsCheapest`. The loop
  invariant of `p_dwnHasInfo` is `Exact`: `info` has the rows of the item in
  turn at the shops read so far, `bests` a cheapest row of each item that had
  any, and every item has its row or its turn to come. `quiet` is lost with the
  first write at the server, by whichever thread.

`SessionProofs`

* `BatchesHaveTheirQuery`, `OneAtATime`, `AnswersAreItsOwn`, `QuitsAreKept`:
  `StateOK`, `OneInFlight`, `TakesItsOwnAnswer` and `QuitIsKept`, for any number
  of typed lines, timers and bytes. The inductive invariant is that of an
  alternating protocol, stated twice: `Alternation` for all PDUs until a timer
  gives up a synch, and `OthersAlternate` for all but synchs until a timer
  overtakes the main thread. The second survives a late `sSynOK`, the first
  does not, and `OneInFlight` alone is not inductive: that a request may be sent
  needs that nothing is under way in the states from which `client.py` sends.
  `TimersMatch` (no timer runs before its synch) and `BranchIsOfState` (only a
  timer separates the test of `state` from the branch) say when `raced` stays
  false.

`ReadingProofs`, for a text of any length and nesting

* `MarksAreKept`: `Spec => []MarksMatch`. The invariant is `StackOK` (which
  state may lie on which) and that `marks` counts the collections in `states`
  and `state`.
* `HandlesAreTheDocuments`: `Spec => []HandlesOfTheDocument`. `HandleInv` says
  what `tag_handles` is between documents, which is when it is replaced.
* `KeysAreWhereTheyBegan`: `Spec => []KeysPointAtTheirTokens`.
  `KeysPointAtTheirTokens` alone is not inductive: inserting KEY moves the
  tokens behind it. `KeysOK` adds that token numbers grow with the flow level,
  so that only the key of the innermost level can be replaced, and that no key
  is left of a level that was closed.
* `BothCountTheSameBlocks`: `Spec => []BlocksAgree`, from the three above:
  `BlockInv` counts the block collections on the parser's stack, adds the starts
  and takes off the ends in the queue and in hand, and compares with `indents`.
  Every `fetch_*` changes `indents` and the queue by the same amount
  (`unwind_indent`, `add_indent`), every `parse_*` the queue and the stack. The
  lemmas about `Count` and `Balance` under concatenation, insertion and removal
  carry it.
* `WhatPassesIsDetected`: `Spec => []ParserDetectsIt`. `LineInv` is about what is
  on its way from the scanner to the parser. `flow_level` is how deep in flow
  collections the parser is (`Above`), and what those in the queue add to it. If
  the scanner has let something pass, a token is on its way that the parser will
  refuse when it comes to it (`Doomed`: a flow collection ends that did not begin,
  `-` at a flow level, `:` right after BLOCK-MAPPING-START), or one is in hand
  or next and the parser has come to where it is refused (`HandDoomed`). Nothing
  goes between BLOCK-MAPPING-START and that `:`: KEY is inserted only before tokens
  that may begin a key. That `-` is refused needs `FlowOnTop`: no function of a
  block sequence is called above one of a flow collection. A text that ends at a
  flow level is refused since the end of the stream is taken at none.

`EventProofs`

* `EventsAreNested`: `Spec => WellNested`, the parser refines `EventStream` on
  any text. Each `parse_*` is a step or a stutter; what the refinement mapping
  makes of the stack, `Open`, is the concatenation of what each state on it has
  open. The inductive invariant `NestInv` adds to `StackOK` that while a node is
  to come, what is open after it at the top of `states` is what `state` has
  open, with the node. `FlattenSeq` is recursive, and the induction theorems
  cannot be instantiated here: `FlattenAppend` and its like are proved from the
  least counterexample.
* `EmitterForgets`: `TripSpec => []NothingStale`. `EmitInv` says that nothing is
  prepared between two events. `Given` is what holds of the writer within one:
  `check_simple_key()` prepares nothing that `process_anchor`, `process_tag` and
  `process_scalar` will not clear for an event of that type.

`ReaderProofs`, for a text of any length, from a file whose `read()` returns
anything each time, a `str` or a `unicode` object

* `ReaderKeepsItsPlace`: `Spec => []PlacesAreRight`, and `ReaderReturnsTheText`:
  `Spec => ReturnsTheText`. Neither is inductive: that the next characters are
  those at `index` needs that `buffer` is a part of the text. `BufferIsText` says
  so: what was decoded, `raw_buffer` and what the stream still has are the whole
  stream, in order; the decoded characters are those passed and those in
  `buffer`; the last decoded byte ends a character; nothing unprintable was
  passed (`Undecoded`; `Exhausted` once all is in `buffer`, as a `unicode` object
  is from the beginning). `CallsAreServed` says of a call under way that, once `update()` is done
  with it, it has the characters it asked for or the text is at its end.
* That the bytes cut off by the end of `raw_buffer` are the beginning of one
  character, kept for the next `read()`, is `LastEnd` and the lemmas after it.
  `Decoded` is recursive: that it is what its equations say is proved from a
  least element (`RecursionExists`, `Agreement`), since the induction theorems
  cannot be instantiated here.

Only model-checked, and why:

* `LockComesBack`, `HandlerComesBack`, `QueueDrains`, `SocketDrains`,
  `AnswerEndsWait`, `TimerEndsSynch`, `CallsReturn`: liveness under fairness,
  for which the prover has no rules of ENABLED.
* `LoadsBack`, `DocumentsAreAlone`, `PlainReadsBack`, `QuotedReadsBack`,
  `BlockReadsBack`: what recursive functions compute for every input needs
  induction over data; the modules have `RECURSIVE` operators.
* `ReadsBack`, `Separate`: they relate a grammar, a stack and
  a text, and what the text still holds is again recursive over the stack.

## 5. Where code and comments disagree

As runs:

* `late_synch`: a response that comes after its wait timed out is taken for the
  answer to the handler's next request; `sSynOK` then names the wrong user.
* `shared`: if the listener stores an old count, two client handlers get one
  number, and the second to ask replaces the queue of the first.

The models follow the code in the following points too, and the properties name them
as exceptions or do not cover them:

* `server.py:424`: the listener that is to warn of malformed data and go on ends
  with a `TypeError`: `read` returns `None` and `run` unpacks it (`Warn`).
* `server.py:183`: a late answer to a synch carries a name where the handler
  expects a row; a name of five letters with a digit in fourth place, such as
  `foo42`, is cached as the row (`f`, `o`, `o`, price 4, user `2`), which nobody
  published and later downloads may return (`GetName`, `Misread`). Other names of
  five letters make a statement that is rejected with the lock held
  (`storage.py:41`), and shorter or longer ones a `TypeError`.
* `server.py:381`: between the look-up of a mistaken price and its correction
  another thread may store a price; the correction overwrites it (`JobFix`).
* `server.py:184`: a handler that receives a useful answer caches it and dies
  (`shop` is unbound); the client gets no reply (`GetAnswer`). A second download, from a
  new connection, is answered from the cache.
* `client.py:303`: an `sSynOK` that comes after the client gave up is the answer
  to its next synch (`late` in `TakesItsOwnAnswer`), and a timer that has tested
  the state may set it after the main thread has gone on (`raced`).
* `parser.py:26-29` and `412-415`: the grammar lets a block mapping have a VALUE
  without a KEY. `scanner.py:582-584` says of it that it `will be detected as an
  error later by the parser`, and `parse_block_mapping_key` does raise for it
  (`parser.py:431`); `ParserDetectsIt` takes the scanner's side.
* `representer.py:125`: `mapping.sort()` raises a `TypeError` for a dict that has a
  date and anything else for keys: it cannot be dumped, though
  `constructor.py` makes such dicts (`Unsortable`; `LoadsBack` says that these are
  the only ones).
* `scanner.py:302`: the assertion that a required key is allowed fails for a text such as
  ` a: "x`, line break, `"b`: `AssertionError` instead of `ScannerError`
  (`assert` in `FetchKeyStart`; the texts of `reading` have no quoted scalar).
* `emitter.py:431`: an empty plain scalar with an implicit tag as a root is
  written as nothing, because `check_empty_document` asks for an event without
  a tag; no input of `round_trip` has one.
* `emitter.py:1018`: a folded line that begins with a space is broken although
  such lines are not folded; `BlockReadsBack` is about folded scalars whose
  lines fit.
* `constructor.py:596`: a function may be called with a list that is still empty
  and filled later, and `constructor.py:65` returns with `deep_construct` set, after
  which a cycle does not load; nor does a list that holds itself and is an
  argument, which is filled before it is known (`constructor.py:99`). The functions
  in `dump` are called with tuples and with what functions return.
* `__init__.py:54`: `load()` is to take the first document of a stream, and raises
  if there is a second (`get_single_node`).

## 6. Not modelled, and the plan

Not to be modelled: logging (`utils.py`); `template.py`, `pdu_reader`,
`UpdateEvent`, `FileUploader`, `FileDowloader` (used by nothing or unfinished);
`cyaml.py` (over a library that is not in the repository); SQL text beyond
"accepted or rejected"; the layout of the client's output. Of `myyaml`:
regular expressions of the resolver beyond what texts they tell apart, the
values of numbers, dates and binaries, merge keys, `omap`, `pairs`, `set`,
path resolvers (used by nothing), `prepare_*` (the characters of tags and
anchors), output encodings, UTF-16, files whose `read()` returns `unicode`, the remaining options
of `dump()` (the emitter's own defaults are modelled).

Simplified: in `MainServer` a client sends well-formed PDUs that arrive one per
`recv` (`Session` shows when they do); PDUs that a state ignores do nothing and
are left out; `send` does not fail. UDP does not duplicate datagrams, and no
other program sends any.

Next:

1. `MainServer` with three servers: what a download promises when several own
   the wanted shops.
