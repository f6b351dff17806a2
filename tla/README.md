# A formal model of mach5

mach5 is an intercepting proxy: it terminates TLS for a client over QUIC/HTTP/3
and over TCP, passes each request through a chain of interceptors, fetches what
they did not answer from the origin, passes the answer back through the chain
and relays it. These modules model the parts of it whose correctness depends on
order: threads and an event loop that hand work to each other, caches and files
that several threads replace, budgets, timeouts and retries.

Run a model with `tlc -config X.cfg M.tla` and the proofs with `tlapm M.tla`.
All paths below are relative to `src/proxy/src/` unless they say otherwise.

## 1. The system

### The two front ends

| part | state | operations | interacts with |
|---|---|---|---|
| **h3 front end** (`main.rs`) | `ClientMap`: per connection the quiche and h3 state, `pending` responses, `uploads`; one event-loop thread | take packets, poll h3 events, pump uploads, drain results, pump responses, drop closed clients | the worker pool through the job channel, the results channel and a waker; quiche |
| **worker pool** (`main.rs`) | one interceptor chain per thread | take a job, ask the interceptors, read or stream the upload, fetch, relay in chunks | the event loop; `Budget`; `upstream` |
| **budget** (`budget.rs`) | outstanding bytes, progress, closed, under a mutex with a condition variable | `claim` (worker, blocks), `release`, `close` (event loop) | worker and event loop |
| **request bodies** (`body.rs`) | a bounded channel, `Ending` | `try_send` / `send` (front ends), `Reader::read` (worker), `read_to_cap` | both front ends and the worker |
| **TCP front end** (`tcp.rs`) | hyper connections on tokio, `ChainPool` | accept, peek at the ClientHello, tunnel or terminate, serve requests on blocking threads | `passthrough`, `ca`, the chain, `upstream` |

What is hard: workers block on the client, the event loop must never block, and
a connection, a stream or a client that stops reading may end things between
any two steps.

### Fetching and keeping

| part | state | operations |
|---|---|---|
| **upstream** (`upstream.rs`) | agents (direct and validating nothing), the shared cache | `call`: look up, revalidate, fetch, 304 handling; `store` |
| **HTTP cache** (`httpcache.rs`) | a body file and a metadata file per key; `stored` counts bytes until the next sweep | `get`, `put`, `refresh`, `forget`, `sweep` |
| **fetched lists** (`fetch.rs`) | text file and validators file per URL | conditional fetch, fall back on the cached text |
| **image cache** (`imagecache.rs`), **disk** (`disk.rs`) | content-addressed files; replace by rename | get, put, sweep, empty |
| **resolver** (`resolver.rs`) | none of its own | resolve a name, skipping the proxy's own answer |

What is hard: two files are replaced one after the other while others read
them; a crash between the two; answers that arrive for a version that has been
replaced.

### Deciding

| part | state | operations |
|---|---|---|
| **passthrough** (`passthrough.rs`) | configured hosts, fetched lists (`held` per URL), `Learned` failures with a TTL, persisted | decide at the peek and again in the server-name callback, learn, forget, refresh |
| **QUIC connections** (`main.rs`) | `ClientMap` by derived id; the key of the Retry tokens, one to a process | `recv_packet`: Retry, validate, accept; drop the closed |
| **insecure** (`insecure.rs`) | offered tokens, allowed hosts with an expiry, two mutexes | `offer`, `redeem`, `allows` |
| **certificates** (`ca.rs`) | leaf cache with a cap | `leaf_for`: look up, mint outside the lock, insert, evict |
| **link** (`link.rs`) | per client address a blended rate and a tier with hysteresis | `record`, `tier` |
| **blocklist** (`blocklist.rs`), **cosmetic** (`cosmetic.rs`) | the compiled lists behind a lock, a text and its validators on disk per URL | refresh: rebuild from what came, from the copy on disk or from what is in force, and swap; match |
| **settings** (`settings.rs`), **hidden elements** (`internal.rs`) | JSON held in memory and persisted under the same lock | set, hide, unhide, per-host and global caps |

### Transforming

| part | state | operations |
|---|---|---|
| **interceptor chain** (`interceptor.rs`) | the links, per worker | `before_body`, `on_request_from`, `wants_body`, `wants_chunks`, response hooks |
| **plugins** (`plugin.rs`) | one child process per chain and plugin, a writer and a reader thread, a channel to and from each | call with a timeout, abandon for good |
| **images** (`images.rs`, `imagecache.rs`) | the panel's quality, the client's tier, a cache of copies by content | answer a picture at once, ask for its body, convert it |
| **injection** (`inject.rs`) | a `Streamer` per page on its way past: decoder, rewriter, encoder | `push`, `finish`; or rewrite a page held whole |
| **encoding, interstitials, redaction, metrics, host, config** | little or none | pure transformations of one message, counters, parsing |

What is hard: the settings a picture is served by may change between the hooks
that ask for them; a parser may refuse a page half of which has gone out; and a
plugin is another program. Its replies carry no identifier, so
one that is late, doubled or missing shifts every answer after it; and what it
was asked and what it answered is remembered from one hook to the next.

## 2. Properties wanted, by component

- **Budget**: no wakeup is missed, nobody sleeps behind nothing, no deadlock on
  a piece larger than the limit, a closed budget grants nothing
  (`SleepersAreWoken`).
- **h3 responses**: a stream carries the front of one answer, finished only with
  a whole one, at its declared length (`OneWholeAnswer`, `ImplementsRelay`); what
  is queued is what was claimed (`QueueIsCounted`); workers come back and clients
  get the end (`WorkersComeBack`, `EveryRequestEnds`).
- **Request bodies**: nothing lost or reordered, parking bounded, a body that was
  cut short never reads as complete, every body ends (`NothingLost`,
  `BodyInOrder`, `ParkingIsBounded`, `AbortIsSeen`, `StoppedIsNotEnded`,
  `UploadEnds`).
- **HTTP cache**: metadata never stands beside an older body; a 304 is answered
  with what it confirmed; only what the origin called public is shared; a
  permission taken back is honoured (`BodyNotOlder`, `ConfirmedIsServed`,
  `OnlyPublicBytes`, `WithdrawnIsAsked`).
- **Passthrough lists and learned hosts**: what is exempt fails in one direction
  only, the list in force is the origin's in the end, what was learned is saved
  (`FailsOneWay`, `Converges`, `LearnedIsSaved`).
- **ClientHello peek**: a listed host is passed through, or refused when its hello
  was late or too large, and never decrypted; an unlisted one never refused; the
  estimate of what is missing is a bound; every connection is decided (`ListsAreKeptTo`, `WantIsABound`, `Decided`).
- **Chain and plugins**: one hook at a time; the bytes of one response do not end
  up in another; a plugin acts only on what it was offered; no plugin keeps the
  chain from the requests that wait for it (`OneHookAtATime`, `OwnBytes`,
  `ChunksWereWanted`, `EveryRequestIsAnswered`).
- **QUIC connections**: a connection is with an address this process vouched for,
  and one for a client that keeps to the id it was given (`ConnectionsAreVouchedFor`).
- **Bypasses**: a token is good once and for its host; a host is waved through
  for its time, no less and no longer (`TokensAreSpentOnce`,
  `WavedThroughAsGranted`).
- **Leaf cache**: never over its cap, never a leaf for another name, and a good
  leaf goes only when it must (`LeavesAreSound`, `EvictsTheIdle`).
- **Link tiers**: no tier the estimate does not earn, none from one good sample,
  and what is measured is the client (`TierIsEarned`, `NoFlapping`,
  `MeasuresTheClient`).
- **Settings, hidden elements**: what is in force, and comes back after a crash,
  is what the answered requests add up to (`AnsweredIsKept`); a stylesheet that
  takes two locks in turn hides nothing that was not to be hidden, and misses
  only what passes from the rules to the picks meanwhile (`SheetIsCurrent`).
- **Blocklist, cosmetic**: an outage leaves what is in force; what is matched is
  what the lines say, whatever order and list they came in (`OutageKeepsRules`,
  `ListsAreObeyed`).
- **Images, injection, encodings**: a body is under the coding it names; a
  picture is served as something asked for while it was under way; what is kept
  is the origin's and whole; a rewritten page loses nothing but what the parser
  held when it gave up (`CodingIsAsDeclared`, `ServedAsAllowed`,
  `KeptIsTheOrigins`, `PageIsInOrder`).

## 3. Modules, and how they correspond to the code

| module | models |
|---|---|
| `BudgetOps` | what the methods of `Budget` do to the record its mutex guards |
| `Budget` | one budget, the worker that claims and the event loop that releases |
| `BodyQueue` | queues of the pieces of a body, and the bytes in them |
| `ResponseRelay` | abstract: what the response path promises for one request |
| `H3Response`, `MCH3Response` | jobs, workers, the results channel, `drain_results`, `send_pending`; the refinement of `ResponseRelay` |
| `Upload` | a request body from a QUIC stream, or a hyper connection, to the worker |
| `OriginCache`, `MCOriginCache` | one key of the HTTP cache, under any number of workers |
| `Passthrough` | the refresh of the passthrough lists, with their copies on disk |
| `Learned` | the learned hosts and the threads that save them |
| `Exemptions`, `MCExemptions` | both of them in one process that restarts |
| `Hello`, `MCHello` | one TCP connection from accept to the decision to decrypt |
| `Plugins` | the plugins of a chain and the conversation with each |
| `ChainRelay` | the requests that go through one chain, on either front end |
| `Clock` | the clock of the registries, and the choice of what a full one drops |
| `LeafCache` | the minted certificates and the handshakes that ask for them |
| `Bypasses` | tokens offered on warning pages, spent, and the hosts they wave through |
| `Links` | the estimate and the tier of each client |
| `DrainWindow` | the window in which the TCP front end measures a client |
| `Connections` | QUIC connections, from the first Initial to the `ClientMap` |
| `Registries`, `MCRegistries` | the five above it and `Budget` in one process |
| `Stores` | settings and hidden elements, in memory and on disk |
| `Filters` | what the lines of a filter list mean, and the sets the code keeps of them |
| `FilterLists` | the refresh of the blocklist or the cosmetic rules |
| `Panel`, `MCPanel` | the endpoints that change these, and the stylesheet made of both |
| `Codings` | content codings: which a body is under, and which its head names |
| `Images` | what a picture is served as, and the cache of copies |
| `Streamer` | a page that is rewritten on its way past |
| `Served`, `MCServed` | a request to the end of its answer, with the links that rewrite |
| `*_proofs` | inductive invariants and theorems: of `ChainRelay`, `H3Response`, `OriginCache`, `Panel`, `Served` and `Upload` under their names; of `Exemptions` and `Hello` in `Passthrough_proofs`; of `Budget` and the rest of `Registries` in `Registries_proofs` |

`Budget` and `H3Response` extend `BudgetOps`, `H3Response` and `Upload` extend
`BodyQueue`; `Exemptions` extends `Passthrough`
and `Learned`; `ChainRelay` extends `Plugins`; `Panel` extends `Stores` and
`FilterLists`, which extends `Filters`; `Served` extends `Images` and `Streamer`,
both of which extend `Codings`. An operator called *Mutant* in its
comment is not part of any specification: it is a plausible bug, kept beside the
definition it would replace, to show that a property would notice.

**`Budget`.** `state` is the record under the mutex; `want`, `seen` and `woken`
are the locals of a worker inside `claim` and whether `notify_all` reached it.
`Claim` is the call up to the first wait, `Park` the wait, `Resume`/`ParkAgain`
a wakeup, `Expire` the stall window. `progress` wraps at `ProgressWrap`. `taken`,
`freed` and `cuts` are history: bytes granted, bytes released, where the granted
pieces end.

**`H3Response`.** The `mpsc` channels are sequences (`jobs`, `results`); a
worker's program counter is `worker[w].pc`; `pending` is `Client::pending`.
Draining a result and writing a piece are separate actions because a worker can
run between any two. What quiche does is external: it takes what it is offered
or part of it, or refuses the stream. A response body is numbers 1..n, so that
order, loss and doubling show.

**`Upload`.** The phases of the event loop's pass are `asleep`, `poll`,
`overflow` and `read`. `WakeUp` is any packet for any connection. The
`Finished` event of a stream may come before or after the last bytes are read,
as quiche raises it. `IdleTimer` says whether `max_idle_timeout_ms` is set. A
behaviour with `front = "tcp"` is about the task of `tcp.rs:355` instead: it is
at a frame or at a send, holds the frame it could not send yet, and shares the
channel, `Ending` and the worker with the other front end.

**`OriginCache`.** Each file operation is an action: `PutBody` and `PutMeta` are
the two renames of `put`, `ReadMeta` and what follows the two reads of `get`.
A body is the number of the version it came from, which is also its etag. The
origin goes to any version and any policy at will, back to an earlier version
too. A file that is to be removed may stay, as errors of `remove_file` are
ignored. `alone`, `forward`, `torn`, `stuck`, `shared`, `withdrawn` and `served`
are history.

**`Passthrough`, `Learned`, `Exemptions`.** A list's text is the set of hosts in
it, `{}` is a page that is no list, and the validators are the text they were
sent with. `refresher` is the one thread of `spawn_refresh`; the network, the
origins and the disk do as they like. `saver[t]` holds the snapshots thread `t`
took under the lock and has still to write after it let go. `sound`, `orderly`
and `expired` are history. The challenge detector is an arbitrary caller of
`Add`. `SaveFails` belongs to `Exemptions` only when the constant `Fails` holds.

**`Hello`.** A stream of TLS records is where its handshake records end, how
many bytes of another kind follow, and the length the hello declares; what the
socket holds is a front of it. `assemble` and `have_hello` are operators over
(stream, length). `Read` is `MSG_PEEK`: it looks at the front of what is there.
`always` and `never` say whether the host was listed all along or not at all.

**`Plugins`, `ChainRelay`.** `plugin[p]` holds both threads, both channels and
the process; `call` is `Plugin::call` as the worker runs it, from `sending`
through `waiting` to `returned`. A process may answer, answer nonsense, print a
line unasked (at most `MaxUnasked` times), stop reading or exit at any time. A
hook may be larger than the pipe, so `write_all` ends when it was read. A body
is the set of requests whose bytes are in it. `job` is the request under way:
the walk of each hook over the plugins is `Asks`/`Passes`/`Replied` at `job.at`.
What a filter matches is a choice at every hook. The other links are an answer
ahead of the plugins or a wish for the whole body. `front` chooses between
`fetch_blocking` and `handle_job`, which differ in what a failed send does.

**`LeafCache`.** A handshake finds its leaf (`Hit`) or misses it, mints one with the
lock not held (`Mint`) and takes the lock again (`Remember`). The key of the
cache and the name in the leaf are the name spelled plainly, whatever the SNI's
spelling. `Room` is the pair of passes of `remember`: the expired go, then the
least recently used. An instant is a tick of `now`, so several may be equal and
any of them may go.

**`Bypasses`.** `AskAllowed`, `Offer`, `Redeem` and `Allow` are the sections under one
lock or the other, and a task may be anywhere between them. Tokens are numbered
in the order they were made. `madeFor`, `spent`, `again` and `granted` are
history.

**`Links`, `DrainWindow`.** A tier is 0 (full) to 4 (no images). `Step` is what
`record_at` does to a known client: the blend, the drop that is at once, the run of
samples that earn a rise and its reset. `streak` is history, as far back as a
rise looks. In `DrainWindow` the thread that relays reads, sends and measures in
turn while the client takes chunks off the channel and time passes; chunks have
any size between two bounds, as they have once a plugin or a rewriter has been
through them. `idle` and `consumed` are history that belongs to the client. The
code knows how many chunks wait and not how large they are, and converts them
at the mean of the window (`tcp.rs:869`): what it reports is what the client took
give or take that, and `MeasuresTheClient` says how much.

**`Connections`.** `initials` and `retries` are what was ever sent, so that
anything may arrive again, late, or never. A token is a record of what is signed
into it, and by which process: the key is made at startup and `ConnectionsRestart`
makes a new one. The id derived from another is that id with a count. A client
answers a Retry to the id in it and to the one it first chose, which no client
that keeps to the protocol does: `main.rs:1071` adopts whichever arrives.

**`Registries`.** The parts share nothing but the clock and the process, so `part`
picks the one that moves: an interleaving of two would tell nothing of either.

**`Stores`.** Each store is a value, a file, and a lock held until the file is
renamed into place: `Change`, `Publish` or `PublishFails`, `Answer`. `told` is
history: what the answered requests add up to. `unsaved` remembers a write that
failed, after which a crash may take the change back.

**`Filters`, `FilterLists`.** A line is a record of the form it has, the names in
it and what they are kept to; taking the text apart is the input. What a line
means is written down twice: as the code does it, into sets of names and of
rules that `BlocksRequest` and `Listed` consult, and line by line as
`ListsAreObeyed` says it. The refresh has one configured file and one URL, and a
disk that keeps a text and its validators in two files.

**`Panel`.** `sheet` is one request of a stylesheet: picked elements under one
lock, rules under the next. `must`, `may`, `listed` and `moved` are history: what
was to be hidden throughout, and at some time; what only a rule hid, and what of
that only a pick hid later. `part` is what changes: one store or one registry
with every failure there is, or the hidden elements and the cosmetic rules
together with none (`Calm`), which is when picks and refreshes fall before,
between and after the two reads of a stylesheet.

**`Codings`, `Images`, `Streamer`, `Served`.** A response is a record of its
status, the coding it names, the one it is under, and what its body is: the
origin's bytes, a copy at some quality, a pixel, a page that was rewritten. The
actions of `Served` are the stations of `fetch_blocking`: `Asks`, `Arrives` (the
links that answer ahead), `Fetches` or `FromStore`, `Reads`, `Rewrites`, `Heads`,
`Relays`, `Closes`. `Knob`, `Wire`, `Switch` and `Clears` come between any two.
`seen` is history: every setting and tier since the request arrived. A push into
a `Streamer` may hold back any tail of the page, or refuse it.

## 4. The runs

| run | bounds | what it shows |
|---|---|---|
| `h3_safety` | two streams, two workers, limit 2, pieces 1 and 3, four bytes | two responses of one connection interleave with closing, failing and stalling; the pipeline implements `ResponseRelay` |
| `h3_liveness` | one stream with two requests, two workers, limit 1, pieces 1 and 2 | workers come back, and who goes on reading gets the end; the second request on the stream is a nonconforming client's |
| `upload` | both front ends, five bytes, reads of 2, a channel of 2, a parking cap of 2, four bytes held in memory | three reads fill the channel, the cap and one over; the in-memory cap is met and passed |
| `upload_order`, `upload_stopped` | the same, four bytes | the first two disagreements below |
| `cache` | two workers, two versions in any order, two instants, three policies | every interleaving of two fetches with sweeps, crashes, and writes and removals that fail |
| `exemptions` | one list with three texts (two lists, one page), one site, two savers, one restart | every order of fetch, store, update, swap, save and restart |
| `hello` | up to three records of lengths 1 to 5 around a maximum of 4, headers of 2 | every framing of a hello that fits, one that does not and one that is no TLS, delivered byte by byte |
| `relay` | two requests, two plugins, one chunk, one place in the channel, both fronts, one unasked line, a reply queue of 2 | every hook of two plugins with every fault of either |
| `registries` | clock to 4; three names in two spellings, two handshakes, two leaves; two requests, two tokens; two clients of whom one is remembered, rates 0, 2, 6, 20, a rise after 3; a channel of 3, six chunks of 1 or 2; a budget of 3, pieces 1, 2 and 5, wrapping at 16; two addresses, two ids, two Retries, two processes | each registry at its bound, over it, and as entries expire |
| `panel` | a site and a subdomain of it, one site and one selector kept of each, three choices; four texts of the blocklist and three of the cosmetic rules, one of each an error page, and a file | every order of requests, writes, failed writes, crashes, refreshes and stylesheets, and picks and refreshes together |
| `served` | a picture or a page asked for twice, four settings, one copy kept, two changes, three chunks | every coding, end, size and setting, whole or streamed, with the knobs turned between any two steps |

Why these are enough. Two of a kind interact wherever the code shares something
(workers on a budget's condition variable, fetches on a key, savers on a file,
requests on a chain, handshakes on the cache of leaves, tasks on a token); a
third adds no new pair. Sizes straddle every limit in the code: below, at and
above. One version to go to and come back from, one restart and one unasked line are what the hazards
need; more repeat them. The numbers of `hello` scale the header and record
lengths down with the arithmetic unchanged. The floors of `registries` are
configured out of order, as a file may have them, so that the ladder has to be
made monotone. The lines of `panel` have every form that is told apart, with a
name that cannot be read on either side of a rule.

The bounds that only TLC needs are `MaxTime`, `MaxTokens`, `MaxChunks`,
`MaxRetries`, `MaxEpochs`, `MaxRequests`, `MaxChanges`, `MaxVersion`,
`MaxRestarts`, `MaxUnasked` and the `BodyBytes` of `Budget`, `H3Response` and
`Upload`; each stands in the guard of the action it bounds.

`CHECK_DEADLOCK FALSE` is stated where the system really comes to rest: all
requests of the instance were made, the connection ended, the clock is at its
bound. `exemptions` never stops and is checked for deadlock. That a worker is
never stuck on its budget is in `SleepersAreWoken` and proved as `NoDeadlock`.
`H3Safety` and `Cache` take symmetry of the workers, which no property tells
apart; runs with liveness take none.

### Fairness

- `H3Response!RunningSpec`: each thread runs and the loop drains what the waker
  announces (`waker.wake` after every send). `WorkersComeBack` adds the stall
  window; `EveryRequestEnds` adds that quiche takes what it is offered, which is
  the client's doing and a premise.
- `Upload!BusySpec`: a pass that began ends, the idle timer fires, the worker
  reads on, the task of a TCP request is polled when a frame or room for one is
  there, and packets for *some* connection keep waking the loop. The last is
  needed: nothing wakes the loop when a worker frees a slot of the channel, so an
  upload parked behind a full one waits for the next packet or timeout of anyone
  (`main.rs:372`).
- `Exemptions!FairSpec`: the refresh thread comes round again.
- `Hello!HelloFairSpec`: the task is polled and its timers fire.
- `ChainRelay!FairSpec`: the worker and the writer threads run, and every wait of
  `call` ends by the plugin timeout. Nothing is assumed of the plugins.
  `EveryRequestIsAnswered` takes as premises that a TCP client reads or leaves and
  that fewer than `REPLY_QUEUE` lines came unasked.

The other runs check safety alone and assume no fairness.

## 5. Where the code and its comments disagree

Two have a run that ends in the counterexample:

1. **`upload_order`** (`main.rs:1291`). `pump_uploads` stops sending parked chunks
   when the channel is full, then reads on and tries the channel with what it
   read. If the worker freed a slot in between, the new chunk overtakes the
   parked ones. The comment at `main.rs:1245` says what was parked goes first.
2. **`upload_stopped`** (`main.rs:419`). Only a `Reset` event aborts an upload. A
   connection that closes drops the sender without, and the worker reads a
   complete body. `body.rs:40` explains at length why that must not be. The TCP
   front end does tell it (`tcp.rs:369`): `AbortIsSeen` includes that.

The others are stated in the modules, as a definition kept beside the ones that
hold or as the premise of one:

- `upstream.rs:280`, "Nothing has changed -- so what we already had is the
  answer", and `upstream.rs:246`, "nothing is served staler than it allowed", do
  not hold of two kinds of pairs of files, which a 304 confirms all the same
  (`RevalidatedIsCurrent` of `OriginCache` is the claim). One: two workers that
  put two versions of a key interleave their renames (`httpcache.rs:435`) and
  leave the old body under the new etag, and every later 304 confirms it. Two: a
  process that stops between the renames, or fails at the second and at the
  removal of the body, leaves the new body under the old etag; an origin that
  goes back to that etag confirms it. `ConfirmedIsServed` has the premises that
  fetches do not meet, and that no put broke off or the origin never went back.
- `httpcache.rs:459`: errors of `remove_file` are ignored, so an entry whose
  permission was taken back can stay and be served (`WithdrawnIsAsked` has the
  premise that the metadata could be removed; the comment at `httpcache.rs:453`
  says "outright").
- `tcp.rs:969`, "the consequence is that a host on the passthrough list is
  decrypted", `passthrough.rs:34`, a name that cannot be read "means the
  connection is terminated rather than passed through", and `passthrough.rs:42`,
  "a listed host is decrypted": of a hello that is larger than the peek reads, or
  late, the first and the last are not so. The servername callback asks the lists again
  (`tcp.rs:235`) and the handshake fails; `ListsAreKeptTo` says that it does.
- `tcp.rs:220`: the peek "parses only the first TLS record, so a hello fragmented
  across several defeats it", and `passthrough.rs:682` speaks of "the whole first
  handshake record". `have_hello` and `server_name` join the records of a hello
  (`assemble`, `passthrough.rs:756`), and one in several is passed through like one
  in one; `WantIsABound` and `ListsAreKeptTo` are about both.
- `fetch.rs:153`: a 200 that is an error page is kept off the set in memory, but
  it overwrites the copy on disk that the next process starts from;
  `passthrough.rs:375` promises the same hosts after a restart
  (`SameAfterRestart` of `Exemptions`).
- `blocklist.rs:338`, `cosmetic.rs:312`: "a source that fails cannot empty what is
  already in force" does not hold of a configured file that becomes unreadable,
  of a URL whose copy could not be written, nor of an error page served with a
  200. `OutageKeepsRules` says what does.
- `cosmetic.rs:436`: "a rule whose domains all fell out is not a generic rule",
  but one with an unreadable inclusion and a readable exclusion becomes generic
  with an exclusion (`Hides` of `Panel` says so).
- `settings.rs:119`: a change whose write failed is in memory, and asking for it
  again returns early and writes nothing; hiding an element that is hidden
  already does the same. `AnsweredIsKept` counts on no such write being the last.
- `main.rs:1021`, "repeated Initials map to one connection", holds of clients that
  answer a Retry to the id it carries. `main.rs:1071` adopts the id of the packet
  and does not compare it with the derived one, so a client that answers to two
  ids has two connections on one token; `ConnectionsAreVouchedFor` counts those
  that have the id they were given (`AsGiven`).
- `internal.rs:624`: a stylesheet reads the picks before the rules, so a selector
  that a rule hides, that somebody then picks, and that a refresh then drops from
  the rules is in neither read, though it was to be hidden all the while; the
  page has it with its next stylesheet. No comment says otherwise, and
  `SheetIsCurrent` names this one exception (`moved`).
- `internal.rs:650`: "a rule each contains the damage" does not hold of a
  selector with an open bracket or string, which takes in the rules after it.
- `inject.rs:42`: the marker keeps a page that was already injected from growing a
  tag per hop; a page that is streamed is not looked at for it.
- `settings.rs:41`: "worse on purpose" and "better than configured" do not hold of
  a configured quality under 20 or over 95, as the number is clamped
  (`AppliedTo` of `Images`).
- `images.rs`, text-only mode: a picture that is too big to hold is relayed whole,
  uninspected (the last disjunct of `ServedAsAllowed`).
- `interceptor.rs:134`: the blocklist is ahead of the proxy's own endpoints, so a
  blocked host cannot reach its own `/.mach5/`.
- `plugin.rs:447`: the hand-over of a hook has no timeout. A plugin that printed
  `REPLY_QUEUE` lines nobody asked for, and whose writer is stuck, holds its
  worker for good, though `plugin.rs:444` says the timeout bounds the whole round
  trip. (`EveryRequestIsAnswered` without its premise fails with two such lines.)
- `main.rs:823`: when the client of an h3 response is gone the worker returns
  without `on_response_end`. A plugin that holds bytes back is not told, and may
  let them go in the next response. `OwnBytes` is therefore stated for TCP, where
  the relay breaks out of its loop and does flush; without `front = "tcp"` it
  fails.
- `tcp.rs:735`: the TCP relay has no stall window. A client that neither reads nor
  leaves holds a chain of the pool.
- `tcp.rs:695`: an origin that fails in the middle of a streamed body ends the
  response as if it were whole; the text of `TRUNCATED` is for bodies held whole.
- `interceptor.rs:287`: the tail that one plugin flushes is not offered to the next.
- `main.rs:881`: a second response on a stream is refused at its head, but chunks
  of it that were claimed before its budget was closed still join the first.
  `OneWholeAnswer` is about what conforming clients see, who make one request of
  a stream.
- `main.rs:1501`: a piece is released when all of it was written, so the stall
  window measures whole pieces.
- `upstream.rs:429`: a lifetime is counted from when the body is stored.
- `passthrough.rs:188`: two threads may save out of order, or a write fail; what
  was learned is then not what is on disk until the next change
  (`LearnedIsSaved` has the premise that neither happened).

## 6. What is proved

The proofs are for every value of the constants that the named assumptions allow;
TLC checks the same formulas on the instances above, and every assumption with
them. An assumption says of a constant only what the code relies on: that a cap
is not zero, that a threshold is a number, that plugins are numbered along the
chain.

- **`Passthrough_proofs`**, the lists and the learned hosts: `Invariance`,
  `TypeCorrect`, `LearnedSaved`, `OneWay`. `LearnedIsSaved` is strengthened by two
  facts: while saves were orderly at most one thread has one to do, and what it is
  to save is what is in memory, up to hosts whose time ran out since. Types of the
  refresher need that where it is tells what it holds (`AtAList`).
  The peek: `Backstop`. The invariant pairs the history variables with
  the list as it is now, and the decision with the history: the server-name
  callback asks the list itself, so a listed host is never decrypted, whatever
  the arithmetic of the peek. That it is passed through, and not refused, does
  rest on the arithmetic: `MissedOnly` says why each connection of a listed host
  is at the handshake. `Bound` is that arithmetic: what the peek waits for is more than
  is there (`WantIsMore`) and not more than the hello takes (`WantIsEnough`), for
  every framing a stream may have by `StreamAssumption`. The largest whole record
  in what has arrived exists because the lengths of records are well-founded.
- **`ChainRelay_proofs`**: `Invariance`, and from it `OneHook`, `Wanted` and `Own`.
  The hook of a call is in one place, its channel, the pipe, the process or the
  reply queue, and a plugin that is out of step is never asked again
  (`Conversation`); a call is about the request under way (`CallsAreOfTheJob`);
  which plugins take chunks was settled in this response (`ChunkingIsCurrent`);
  and bytes held back are of this response, once those of earlier ones were
  flushed (`BytesAreOfTheJob`).
- **`H3Response_proofs`**: `Inductive`, and from it `Counted`, `WholeAnswer` and
  `Relays`, the step simulation of `ResponseRelay`. The pieces of an answer that
  the client has not got lie in the queue of the stream and in the results
  channel behind it; the heart of the invariant (`FlowInv`) is that these, taken
  as one sequence, tile the bytes from some `lo` to what was produced. While the
  budget of the response is open `lo` is what was released, so that it counts
  what is left; when it is past the limit there is one tile. `lo` is also where
  the wire stands, less the offset into the first chunk, which makes what is
  written next the next bytes of the answer (`WireInv`). Around it: a job is in
  one place (`WorkInv`), nothing of an answer exists before its worker began
  (`FreshInv`), a head comes first and an end last (`ResultInv`). Every step of
  the pipeline then adds to what was made, or delivers the front of it, or says
  nothing of the stream (`Makes`, `Delivers`).
  The theorems have the hypothesis `MaxRequests = 1`: HTTP/3 gives a request a
  stream of its own, and with two on one stream neither `QueueIsCounted` nor
  `OneWholeAnswer` holds (section 5, `main.rs:881`).
- **`Upload_proofs`**: `Told`, `TypeCorrect`, `Bounded` and `AllThere`. `Told` rests
  on what an entry that is gone stands for (`EndingInv`): of a TCP request, that
  its client was done, or the worker was told, or it had stopped reading; and a
  body reads as complete only once the entry is gone and nobody was told.
  `TypeCorrect` shows that what is parked, queued and read is made of the body.
  `NothingLost` and `ParkingIsBounded` share one invariant (`KeptInv`): while both
  ends live every byte that was read is in what the worker has, the channel or
  the chunks parked behind it (`Whole`), and in one of them, once (`Once`). It does
  not say in which order, for that is what `upload_order` refutes. The parked
  bytes are counted as the cardinality of a set of places, so a chunk that joins
  or leaves a queue is a bijection (`LenOfAppend`, `LenOfTail`) and no induction.
- **`OriginCache_proofs`**: `Invariance`, and `PublicBytes`, `NotOlder`, `Current`,
  `AskedAgain`. Whatever a thread has in its hands, and either file, is public
  if it may be served (`InHand`, `Public`). While no two fetches met, one thread
  at most is at work (`OneAtWork`), and what it holds and the two files say goes
  together, for one of two reasons: while the origin only goes forward nothing is
  newer than the origin and they are in order (`Behind`, `Order`); while no put
  broke off they are of the same version, wherever the origin goes (`Matched`).
  Crashes and sweeps preserve both. A withdrawn permission leaves no entry
  (`TakenBack`).
- **`Registries_proofs`**: `Leafs` and `Evicts` by the bound on what `CutTo` leaves
  and the key being the plain spelling; `Tiered` by the ladder being monotone
  once it was made so; `Upgraded` from the run of good estimates and the history
  of a client keeping pace, so that when the count is reached each of the last
  estimates had left the margin; `Measured` from the window being open only while
  the channel has something for the client, from what waits and what was taken
  being what waited and what was sent (`Accounted`), and from a number of chunks
  being converted, at any size a chunk may have, with an error that is bounded by
  the number (`Converted`); what a queue holds is described by the bytes from each
  place to its end (`Rests`), which spares an induction; `Tokens` from a token being on offer
  only while it is unspent; `Bypassed` from what each grant put under the second
  lock; `Vouched` from every token that validates having been sent in a Retry of
  this process.
  The budget: `BudgetInvariant`, and from it `BudgetTyped`, `Books`, `Overshoot`,
  `Wakeups`, `NoDeadlock`, `Woken` and `ClosedStays`. That a release returns exactly
  what one claim took needs to know where the pieces in flight begin and end: the
  invariant adds that every cut lies between what was freed and what was taken
  and that the last cut is what was taken. From those, `outstanding = 0` iff
  nothing is in flight, hence `NoDeadlock`.
- **`Panel_proofs`**: `Kept`, `Outage`, `Sheets` and `Obeyed`. `Kept` follows the
  lock: who holds it knows what the file and the memory differ by. `Sheets` keeps
  that what had to be in a sheet and is not, once the picks are read, is what
  only a rule hid, and that what a pick took over from a rule is on record.
  `Obeyed` is about sets alone: the sets of names and rules that the code keeps
  of the lines decide as the lines do, given that a name is covered by itself and
  the names above it.

- **`Served_proofs`**: `Coded`, `AskedFor`, `KeptAsItCame` and `InOrder`. Until
  `Rewrites` a response is what the origin sent to a request that took these
  codings (`FromOrigin`), whether it came now or out of the store, whose key has
  the codings in it (`StoredInv`). Each link is then a lemma on what it leaves:
  `DecodedShape`, `LooksShape`, `FinishedShape`. A copy in the cache is what its key
  says (`CopyInv`), so whoever finds it is served what is asked for now; what is
  asked for now is in the history from the arrival on (`SeenInv`), and a picture
  that goes past unread was let past by something in that history (`PassInv`). Of
  a page, the pieces a plugin holds back are the last of those that were read, and
  what the streamer let go are two runs of the others, of which the second is
  there only once the parser gave up (`Made`); a push keeps to that (`PushKeeps`).

Every invariant and action property of a passing run is a theorem. Only
model-checked: liveness (`WorkersComeBack`, `EveryRequestEnds`, `UploadEnds`,
`Decided`, `EveryRequestIsAnswered`), and `Converges`, which is a leads-to; the
proofs do not reach liveness under fairness, nor `ENABLED`. Outside of what is
proved or checked is the pipeline of a client that sends two requests on one
stream, of which only that the workers come back is checked.

## 7. What is left out

- *Resolver*: one exchange per call and no state. *Interstitial pages*: a page from
  an error. *Metrics and redaction*: counters that decide nothing, and log lines.
  *Configuration and host names*: parsed once. *Tests, benchmark, deployment*: not
  part of the running program.
- Of the *HTTP cache*: the parsing of headers, the variant part of the key, the
  agents and DNS. Of the *plugins*: what a hook says in its fields, and which
  headers a filter matches, which are choices. Of the *chain*: the links that are
  no plugins are an answer ahead of them or a wish for the whole body in
  `ChainRelay`, and are there in `Served`. Of the *TCP relay*: hyper, and more
  than one chain of the pool. Of the *injection*: which images are deferred, and
  the script that runs in the page.
- Parsing, rendering and coding (TLS extensions, HTML, image formats, codecs,
  lines of filter lists) are functions of one message; where their outcome
  matters, the outcome is the input.
- quiche, hyper, tokio, BoringSSL and ureq are external and appear only as what
  they may do to the code that calls them.

## 8. Plan

Done in this order: the response path with its budget, uploads, the cache, the
exemptions, the peek, the chain; then the registries that share a clock, the
panel and the filter lists, what is served, and the upload of a TCP request.
What comes next, the most consequential first:

1. A *list in force* that the three refreshes implement, and a *served version*
   register that `OriginCache` implements while fetches are alone.
2. The response path and the upload of one request composed, so that the early
   answer and the rest of the body are one story.
3. `Served` with more than one request at a time, over the cache of copies.
4. The chain pool with several chains, and the stall that only the h3 path has.
