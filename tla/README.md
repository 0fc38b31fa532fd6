# Verification of the Decentralised Art server

TLA+ models of the server in `src/`, the configurations that check them with
TLC, and the theorems about them that TLAPS checks.  Paths like `registry.cpp`
are relative to `src/src/<module>/src/` unless more is given.

## 1. The system

One process.  It keeps a catalogue of *features*, *transformations* and
*conditions*: small records that users post, each compiled to a Solidity
contract and deployed in an EVM that lives in the process.  A feature is a list
of dimensions, each over a sub-feature and with transformations applied to it.
Clients log in with a signature, post records, fetch them, and run features.
One thread runs all of it (`main.cpp` calls `io_context::run` once); the
components serialise themselves with strands all the same.

| Component | State | Operations | Meets |
|---|---|---|---|
| Registry (`pt/registry`) | maps name → address → record, newest address per name, names per owner, one file per name | `addFeature`, `addTransformation`, `addCondition`, getters | called by loader and handlers; writes `storage/` |
| Authentication (`auth`, `api_auth`) | nonce, access and refresh token per address | nonce, login, refresh, authenticate | called by every handler that posts or executes |
| Loader (`loader`) | none of its own | deploy a record; deploy again all that is stored | EVM first, then Registry |
| EVM (`evm`, `evm_storage`) | accounts, nonce per creator, stack of senders | deploy, execute, and evmone's host interface | evmone calls back into it |
| Server (`server`) | listen loop, one coroutine and one watchdog per connection | accept, read, handle, write, close | clients over TCP; Router |
| Router (`server/route*`, `http/url`) | table of routes | `addRoute`, `findRoute` | filled by `main`, asked by Server |
| Child processes (`native/unix`) | a pipe, a child | `runProcess` | used by EVM to compile every contract |
| Topological sort (`utils.hpp`) | the stack of its search | `topologicalSort` | orders what the Loader read |
| Handlers (`api`) | none | GET/POST of feature, transformation, account, execution, nonce, auth, refresh, files | all of the above |
| `main` | the order of the start | load transformations, then features, then listen | all of the above |
| Web page (`resources/js/simple_form.js`) | the browser's cookies, calls under way | log in, `requestWithRefresh` | the handlers, over fetches that may fail |
| PT contracts | names registered on the chain | constructors register, `getFeature(string)`, `gen` | not in the repository (an empty submodule) |

What is hard here:

- **References between records.**  A feature is checked against what is in the
  catalogue when it is added, recursively and only through its first composed
  dimension; names get new versions afterwards; a restart replays it all.
- **Two places for one fact.**  Catalogue and files, catalogue and chain, owner
  lists and records, two tokens of one session: each written one after another.
- **Process death.**  Nothing but one file per name survives, and it is
  overwritten in place.
- **Interleaving.**  Every `co_await` on a strand is a point where other
  handlers run, once there is more than one thread.
- **Re-entry.**  The EVM host is entered again before a call has returned.
- **A process beside the process.**  The compiler prints into a pipe that holds
  only so much, and its end is seen only when every copy of the end to write to
  is closed.
- **Repeated requests.**  The page sends a refused request again after a
  refresh; several of its calls share one set of cookies, and answers get lost.
- **What outlives a request.**  The response of a kept connection is one object
  for all its requests.
- **Time.**  Deadlines of connections against slow clients and slow handlers;
  tokens that are equal when made in the same second.
- **Declarations that meet only at run time.**  Argument types in a route
  string and in the handler that takes them; routes in a hash map.

`PROJECT.json` lists these as *hazards*, each at its line and with the
properties that would catch it.

## 2. Modules

| Module | Models | Checked with |
|---|---|---|
| `Registry` | the Registry, every operation | `MCRegistry`, two configurations; theorems in `RegistryProofs` |
| `Sessions` | abstract: what authentication promises | implemented by `Auth` |
| `Auth` | `AuthManager` and the handlers that use it | `MCAuth`; theorems in `AuthProofs` |
| `Node` | the process: start, loader, POST and GET, kills; EXTENDS `Registry` | `MCNode`, two configurations; theorems in `NodeProofs` |
| `SortPromise` | abstract: what a topological sort promises | implemented by `TopologicalSort` |
| `TopologicalSort` | `topologicalSort`, call by call | in `Loading`; theorems in `LoadingProofs` |
| `Process` | `runProcess` and the child it runs | in `Loading`; theorems in `LoadingProofs` |
| `Loading` | `loadStoredFeatures`; EXTENDS `TopologicalSort`, `Process` | `MCLoading`; theorems in `LoadingProofs` |
| `Connection` | listen loop, `readData`, watchdog, the response object | `MCConnection`, two configurations; theorems in `ConnectionProofs` |
| `WebClient` | the page's calls against the handlers of sessions | `MCWebClient`; theorems in `WebClientProofs` |
| `EvmStorage` | `EVMStorage::call` and what nests in it | `MCEvmStorage`, two configurations; theorems in `EvmStorageProofs` |
| `Routing` | URL splitting, routes of `main`, argument conversion | `MCRouting`; theorems in `RoutingProofs` |

### Registry

The variables are the maps of `registry.hpp:268-282` under shorter names, and
the directory `storage/` (`featureFiles`, `transformationFiles`: per name a
record, `NoFile`, or `Truncated`).  A Registry operation runs on its strand
without a suspension that lets another in, so each is one action; its early
returns are disjuncts of it (`RefuseUnsupportedFeature`, `RefuseKnownFeature`,
`RefuseUntransformableFeature`, ...).  A refusal after `registry.cpp:92` leaves
an empty bucket behind, and so it does in the model.

`checkIfSubFeaturesExist` is a recursion that returns inside its loop.  As
translated, it follows one chain of names: from a feature to the newest version
of its first composed sub-feature, and so on.  The chain ends at a scalar
(exists), at an unknown name (missing), or never (`CheckDiverges`).  The three
are defined without recursion: `Followed` is the set of names on the chain, the
least set that is closed.  A call that would never return sets `diverged`, after
which the only thread does nothing more.

A record is stored in the order of the code: the directory is made, the file is
opened and so emptied, the record is printed as JSON, the text is written, and
only then the maps change.  No result of the stream is looked at.  So with
`DiskMayFail` an open that fails leaves the OLD content while the maps go on, and
a write that fails leaves what cannot be parsed (`Written`); and a record that
cannot be printed (not in `Serializable`) is refused when the accepted version's
file has been emptied (`TruncateFeature`).  `create_directories` throws instead of
returning; to the caller that is a refusal without effect, and it is one in the
model (`RefuseUnstorableFeature`).  `unsavedFeatures` and
`unsavedTransformations` are histories: the names whose last store did not leave
its record on the disk.  `FilesFollowNewest` says what the file of a name may hold
in either case.

`Reregistration` says whether the PT registry contract lets a name be deployed
a second time.  The contract is not in the repository (`src/pt/contracts` is an
empty submodule), README.md speaks of versions of a name, and the Registry keeps
them; so both values are checked.  With `FALSE` the references between records
are closed and the check always terminates; with `TRUE` versions, owners, files
and what GET answers about versions are.

### Sessions and Auth

A token is a signed function of the address, its kind and the second it was
made in.  A stored token is therefore modelled as that second, and two tokens
made in one second are equal, as they are in the program.  `phase[r]` and
`call[r]` are the program counter and the locals of connection `r`'s handler;
each call on the `AuthManager` is a step.  With `Threads = 1` a dispatch to a
free strand runs in place, so a handler that has begun runs to its answer; with
more threads any other may move.  `held` is what clients were given: an answer
may be lost (`LoseAnswer`).  `Restart` clears the maps and keeps `held`: tokens
made before a restart still carry a valid signature.

`Sessions` is the abstract specification: per address one pair of tokens, made,
replaced and dropped as one.  `Auth` implements it under
`session <- [u |-> SessionOf(u)]`; while a handler is between making the two
tokens of a new pair, the session is still the old one, which is what the
history variable `before` is for.  This is so with one thread only: with two,
two grants may mix.  What remains of the promise with more threads -- a
superseded token is refused, every session goes back to a login, a nonce admits
one login -- is proved for any number of them.

### Node

`Node` extends `Registry` with the process around it.  The start goes through
`boot`: `loadPT`, read and deploy stored transformations, then features, then
serve.  A deployment waits for nothing but strands and runs to its end on the
one thread, so it is one step: contract, then catalogue (`deployFeature`,
`deployTransformation`), with all early returns.  A refused feature may be on
the chain already, and what a failed constructor wrote elsewhere may stay
(`Failed`): `EVMStorage::call` undoes nothing.

`kill` may come at any moment; `killWhileStoringFeature` and
`killWhileStoringTransformation` come between the truncation of a file and the
end of its write, which leaves it empty or complete (`LeftByKill`).  What `_loadJSONRecords` returns when a file cannot be parsed
depends on the order of the directory (one stream object is used for all files
and stays open), so it is any subset of the intact records.  `Sorted` and
`Ready` state what `topologicalSort` promises: it throws on a ring, otherwise
it gives some order with sub-features first.  That it keeps the promise is what
`TopologicalSort` shows.  GET handlers are operators on the
state: record from the catalogue, owner and address from the chain.

The contracts being external, `Constructed` decides the outcome of a deployment
from the contract and from whether its name is free, and the same way after a
restart: solc and the EVM are deterministic.

### Connection

Per client: `phase`, the seconds until its deadline (`left`), what is under way
(`wire`), `full_request_data` (`buffer`).  A request is any number of pieces: some
of its head, the end of its head with a `Content-Length` (or one that `stoul`
refuses), then as many pieces of body as that says.  TCP joins and splits them in
any way: `read` takes any number of them, and goes round until the end of the head
is there; `readBody` is one read of the loop of `server.cpp:113` and stays in
`"body"` until all of the body is.  Between two reads a client may stop or leave,
and the deadline may pass.  `handle` occupies the thread: nothing else of the
server moves, time does.  Clients may stop at any point, leave, or not take the
response; they wait for an answer before their next request (pipelining is listed
as a hazard and is not modelled).

What ends a connection is its deadline, and `server.cpp:70` sets a new one of 30 s
before each read of a head, and a kept connection goes round without limit.  So a
client that trickles a head or keeps asking may stay for ever, and no property
says otherwise: `SilentConnectionsEnd` is about a client that sends nothing more
at last.

`readData` keeps one response object for all requests of a connection.  A
handler's answer replaces it (`handle`); a 404 or 500 only sets fields in it
(`answerError`), so `Set-Cookie` headers of the answer before may go out again.
`cookies` says of which request those in the object are.

### TopologicalSort, Process and Loading

`topologicalSort` is a recursive `std::function`.  The calls that have not
returned are `stack`; the outer loop, each child looked at and each return is
a step, and no recursive operator is needed.  It implements `SortPromise`
under `order <- Answered`: the vector counts when the sort returns.

`Process` has parent and child side by side.  `ends` is who holds which end of
the pipe: `read` returns 0 only when nobody can write any more, so the parent
must close its own copy first.  The program may print more than the pipe holds,
exit with any code, die of a signal, or not be there (`execvpFails`).  A `read` or
`waitpid` that returns -1 is left out: it takes a signal handler or children the
system does not keep, and `src/` neither installs a handler nor ignores a signal.

`Loading` is the loop around both: sort, then for each record the check of its
first sub-feature, the compiler, the deployment.  What a deployment does to
chain, catalogue and files is in `Node`; here it succeeds or fails, and the
question is which records are left out and what the result says.  A start with
nothing stored is `nothingStored`: `loadStoredFeatures` calls it no success.

### WebClient

Each click starts a call; a call awaits one fetch after another.  The browser
adds its cookies when it sends (`Fetch` takes `cookies'`, after those of the
answer that came) and replaces them when an answer comes, whichever call it is
for.  `Resume` is `requestWithRefresh`: request, on 401 refresh, on success the
request again, once.  The handlers are single steps here, which is what
`Auth`'s refinement of `Sessions` allows with `main`'s one thread.  A fetch may be
lost before or after the server has acted (`Lose`), the server may restart, and
others may ask for a nonce of the same address.  `Perform` answers 401 or 200, where
200 stands for every answer after authentication, 400s and 500s included: the page
tells only 401 from the rest.  `calm` is a history: nothing
came in this call's way.

### EvmStorage

`frames` is the C++ stack of `EVMStorage::call`; the frame on top may do what
evmone lets a contract do: call, delegate, create, write storage, destroy
itself, succeed, fail.  Kept: accounts, whether they have code, the creator in
their metadata, nonces, the sender stack with its patch for zero senders and
its missing pops.  Left out: balances, gas, slots' values, transient storage,
logs.  Addresses are the terms of their derivation; that distinct derivations
give distinct addresses is `DerivationAssumption`.

### Routing

A URL is a sequence of slashes and texts; texts are told apart by what the
argument parsers take them for (address, number, number of 32 bits, list).  The
table is the list of `addRoute` calls in `main`, with or without those that
depend on a file of `resources/`.  `findRoute` may return any matching route:
the hash map has no order.  `splitPathSegments` and the capture of arguments
scan from left to right, which here is `InOrder` of the places they stop at.  A
client that has read the routes (`askFor`) writes one out with texts of its
types, optional ones maybe left out, and its query in any order.

## 3. Runs

| Run | States | What it shows |
|---|---|---|
| `registry_versions` | 42 578 | types; several versions and owners, disk may fail: newest, files (also after failed opens, failed writes and refusals that emptied one), owner lists, history |
| `sub_features_unchecked` | violation | the documented check of all dimensions (finding) |
| `auth_one_thread` | 651 046 | refinement of `Sessions`, sessions start with a login, superseded access and refresh tokens refused |
| `node_restart` | 22 552 | kills and restarts, names deployed once, one record that cannot be printed: references closed, checks end, no roll-back, everything published comes back, the server serves again |
| `node_versions` | violation | the documented fetch by name and version, on a chain that takes a name again (finding) |
| `loading` | 28 354 | the sort implements its promise, compilers are read whole, no record left out, the load ends |
| `connection` | 156 519 | whole requests once each, heads and bodies in parts, left-over cookies go out once, the connection of a silent client ends, close() closes |
| `connection_idle` | violation | the documented idle interval (finding) |
| `web_client` | 0.25 M | a click acts at most once and as shown, calm clicks succeed, cookies do not go back, clicks end |
| `evm_calls` | 1 179 816 | sender stack covers frames, creators, fresh CREATE addresses |
| `evm_sender_stack` | violation | the nested-context test of a comment (finding) |
| `routing` | 33 192 | one route matches, arguments fit, written URLs are delivered |

That a name is deployed once, which `ChecksTerminate` and the closed references
need, is how `node_restart` has it (`Reregistration = FALSE`), so they are
checked there; `registry_versions` and `node_versions` have the other value.  The
disk fails in `registry_versions` only: `NeverRollsBack` and `PublishedSurvive` are
not true of a disk on which an open may fail, as the older version stays in the
file and the next start loads it.  Authentication runs
with one thread; what holds with more is proved.

**Bounds and why they are enough.**
*Registry*: two addresses give two versions; two owners may each deploy a
version of the other's name; of features and transformations one each cannot be
printed.  Conditions share nothing with the rest, so `registry_versions` adds them
only while there are no features (`MCConditionsApart`).  *Auth*: two handlers at once
are enough for any race between two of them; two nonces for a replaced one;
times 0..2 for a token in time, one superseded and one expired; one user, as
every map is keyed by address and no step touches two.  *Node*: four starts
let a record be written, reloaded, overwritten and reloaded again, with a kill
at each; the features have a chain of three, one over itself, and a ring that
only a second dimension closes, since the check refuses the others; one record of a
name that others use cannot be printed.  `node_versions` needs one name, two
owners and one start.
*Loading*: three names, any of six lists of sub-features each: none, one, two in
either order, one with an empty name before it; that gives chains, diamonds,
rings of one to three, and names that are no record.  The pipe holds one chunk
and a program prints up to two: full, empty and refilled.  *Connection*: two
clients; one sends two requests on a kept connection, each a head of up to two
pieces (`MaxHead`) and a body of two (`Lengths`): a split head, a body with the
head, after it, in parts, and cut by the deadline or a disconnect; the other, with
a request of one piece, is there for the single thread.  *EvmStorage*: depth 4 and stack 4 reach a contract
re-entered from the constructor it runs, with three nonces; `CHECK_DEADLOCK
FALSE` because left-over senders use up `MaxLeft`.  *WebClient*: a login and two
requests are two refreshes that race each other while a login replaces the
session; seconds 0..2 with an access token of one and a refresh token of two
give tokens valid, expired and made in the same second; one restart; two nonces.
`CHECK_DEADLOCK FALSE` in `web_client` because the user clicks no more, in
`loading` because the load is over.  In `registry_versions` it
is `FALSE` because a diverging check stops the server for good.  *Routing*:
every path of up to four pieces over twelve texts and the longer ones that
begin like a route with arguments.

**Fairness.**  `NodeSpec`: weak fairness of `Start` (the one thread goes on
with a coroutine that can go on); none of posts or kills, which are bounded.
`ConnectionSpec`: weak fairness of what the `io_context` runs when it is ready
(`Serve`, `stopListening`) and of time; none of clients, of `writeData`, which
a client may hold up, or of `close`.  `LoadingSpec`: weak fairness of the
server's one thread (`Loads`, and `Parent` inside `runProcess`) and of the
compiler (`Child`), an operating system's process that prints a bounded output
and ends.  `WebSpec`: per call, weak
fairness of the server's answer, of the arrival or failure of a fetch, and of
the user, who signs or declines; none of clicks, losses, time or restarts.
`AuthSpec`, `RegistrySpec`, `EvmSpec`, `RoutingSpec` check safety only.

## 4. Findings

1. `checkIfSubFeaturesExist` checks the first composed dimension, the
   documentation says all.
2. The idle interval closes no connection; a literal 30 s does.
3. `EVMStorage::call` leaves its sender on the stack when the recipient has no
   account or code, so "the stack is not empty" is not "we are in a nested
   call".
4. README.md fetches a feature or transformation by name and version, and
   `GET_feature`/`GET_transformation` put beside the version asked for the address
   and the owner that the chain has for the name alone.  With a chain that takes a
   name again the older version is answered with the newer one's; with one that
   does not, the documented versions do not come about.  Which it is depends on
   a contract that is not in the repository.

Each has a run that expects the violation, and the quotation in `PROJECT.json`.
Noted without a run: README.md lists `OPTIONS /feature` and `OPTIONS
/transformation`, and `main.cpp:136` and `140` register them with a required name
only, so both are answered 404.

## 5. Proofs

TLC checks the instances above; TLAPS checks the following for every value of
the constants that satisfies the assumptions named in the modules.

*Registry* (`CatalogueAssumption` and the other assumptions of `Registry`).
`StepCases` reduces every step to one of four effects: a feature registered, a
transformation registered, a condition, a refusal that may leave an empty
bucket.  `TypeCorrect` follows.  `NewestCorrect`, `FilesCorrect` and
`ReferencesCorrect` rest on the types and each other: files follow *newest*, so
one must know that newest is registered, and a file that a failed open left is of a
registered version because versions are never removed.  `ChecksTerminateOnce` (while a name is
deployed once) needs a strengthening, `NoCycle`: no set of names continues
inside itself.  It is inductive because a new name is not yet followed by
anybody: everything registered has a registered first sub-feature, so no chain
runs into a name that comes later.  `HistoryCorrect` is an action property from
the same lemmas.

*Auth* (`AuthAssumption`).  `TypeInv` adds to the type what each phase knows of
its locals.  `SupersededCorrect` needs `TokensOrdered` and `RefreshOrdered`: no client
holds an access or a refresh token younger than the stored one of its address, nor
does a handler between two steps; `authenticate` and `POST_refresh` accept what they
have compared with the stored one.
`SessionsCorrect` counts: what was granted to an address, and what handlers
that have passed the check of the nonce are about to grant, never exceeds the
logins accepted; a nonce is gone once a handler has taken it.  Both hold for any
number of threads, with `Requests` finite.  `SessionsImplemented` is the refinement
of `Sessions` and assumes `Threads = 1`: then at most one handler is between two
calls (`OneBusy`), so the stored tokens of an address are of one pair, with the
access token being replaced in place of the new one while a grant is half done
(`PairsWhole`).  The refresh token's step is the abstract grant; the access token's
step is a stutter.

*TopologicalSort* (`SortAssumption`).  `SortCorrect` proves the refinement: the
invariant says that the stack is a path of children (`Linked`), that what a call
has looked at is visited or above it (`LookedAt`), that `visited` is what was
appended and each after what it needs (`SortedNames`), and that no ring lies among
the visited (`NoRing`).  A name met on the stack closes a ring of the names above
it; a sort that returns has visited all, so there is none.

*Loading* (`SortAssumption`, `ProcessAssumption`).  `ReturnsWholeCorrect` needs
that what was written is what was read and what is in the pipe, and that a
parent that waits has seen the end of it; `CompilersWhole` carries it into
the composition, since the other actions leave the process alone.
`NoneLeftOutCorrect` rests on `SortCorrect`'s invariant: when a record is
attempted its first sub-feature has been, so what is deployed by then decides.

*Connection* (`ConnectionAssumption`).  `StreamInv` says of each client that what
it has sent of its current request has the shape of one (`Grammar`: one end of the
head, no more of the body than that announces), that while the server reads, what
it holds and what is on the wire are together exactly that, and that before the
body is whole the handler is not called.  A request that is whole is all the client
sends before its answer (`WholeIsWhole`), so the wire is empty when a handler runs
and a read of any size never takes from the next request; `HandledCorrect` is a
corollary.  `CookiesInv` adds of which answer the cookies in the response object
are.

*EvmStorage* (`DerivationAssumption`, `EvmAssumption`).  `StepCases`
reduces the ten actions to an account added, a call, a creation and a return.
`SendersCoverCorrect` is inductive with the types: a pop of an empty stack would
leave no stack behind (`StackInvariant`).  `CreateFresh` needs to know of every
account, and of every frame, that its address is not one that a nonce not yet
spent would give (`Unspent`): a frame can write its account back after it has
been destroyed.  `CreatorCorrect` needs the derivation of every creation still
in progress (`CreatorInv`), since the metadata is written when it returns.

*WebClient* (`WebAssumption`).  Logins are counted by the clicks spent on them, so
a number of sessions fits its type.  `ActsOnceCorrect`: a call goes on from an
answer only when the request was refused, and a refused request did nothing.
`CookiesGoForthCorrect`: nobody holds a pair younger than the server's, and the
tokens of a refresh stay alone in their second until their answer arrives.  It
speaks of one login: a refresh's answer that arrives after those of a new login does
overwrite the newer cookies, and tokens refreshed within their second are the same.
`CalmCallsCorrect`: what page, browser and server have in common while nothing
disturbs a call, step by step along the call.

*Node* (`NodeAssumption` and those of `Registry`).  A deployment is a registration,
which is a step of `RegistrySpec`, or a refusal that leaves records and files; a
kill leaves an empty catalogue over the files.  So `RegistryProofs` carries over.
`NodeInv` adds that what is in a file, and what of it is still to be loaded, is
what was published last (`NeverRollsBackCorrect`, which assumes `~DiskMayFail`: a
failed open leaves an older version for the next start).  `NodeChecksTerminate`
assumes `~Reregistration`.  `PublishedSurviveCorrect` (both assumptions) needs two
more parts.  `StorageWhole`: unless a file is damaged (emptied by a kill or by a
refusal, and not written since), what is stored is all that was published, constructible, and
leans on names that are stored.  `ComesBack`: while records are loaded, one that
is not in the catalogue is still to come and its name is free on the chain.  A
record that is `Ready` then cannot be refused: its first sub-feature is stored and
not to come, so it is registered, and the set of all registered names shows that
the check ends well.

*Routing* (`RoutingAssumption`: texts hold no slash and are not empty).
`RoutesDiffer`: the method and the first word of the URL tell any two routes of
`main` apart, so `OneRouteCorrect` needs nothing of the rest of the path.  With it
`RoutingInv` is inductive: the router holds exactly the routes that `main` has
added so far (none is dropped as a duplicate), and an answer is one that the
whole table gives.  `CallArguments` takes the patterns apart: where a route has
arguments, every segment is one, so their number and types are those of the
pattern (`ArgumentsFitCorrect`).  `DeliveredCorrect` is about the splitting too:
`UrlParts`, `WrittenSegments` and `PagedQuery` show that module, segments and
query of a URL of any length are read as they were written.

*How the models fit together.*  `SessionsImplemented` and `ServedAsPromised` meet at
`Sessions`: the handlers of `Auth`, one at a time, and the server that `WebClient`
puts behind its page keep the same promise.  `SortCorrect` and
`LoadTakesSortedOrders` meet at `SortPromise` in the same way: a start of `Node`
takes its records in any order in which each is `Ready`, which includes every
order the sort may give for what was read, and takes none where the sort throws.
Both need that no two stored files are of one name.

*Everything comes to its end.*  Liveness is out of the prover's reach, and so is
`ENABLED`; a liveness proof would also need a measure that its steps lower and a
step that can be taken until it is zero, and these are proved, with the
condition for a next step written out.

| Theorem | Measure | For the liveness property |
|---|---|---|
| `RunShortens` | `RunLeft`: what may still be printed or read, and the phases of parent and child to come | `LoadEnds` |
| `SortShortens` | `SortLeft`: names not visited nor on the stack, names not tried, calls, children not looked at; lexicographic | `LoadEnds` |
| `LoadShortens` | `LoadLeft`: the load's phases, the sort's measure, records and compilations to come, the run's measure; lexicographic | `LoadEnds` |
| `ConnectionsShorten`, `ClosingShortens` | `WorkLeft`: pieces sent and not read, and the phase | `SilentConnectionsEnd`, `ClosesDown` |
| `CallsShorten` | `StepsLeft`: answers a call may still wait for, at most six | `CallsEnd` |
| `LoadNeverStuck` | (no measure) a record is `Ready` while any is left: `NoRingLeft` | `ServesAgain` |

`SortShortens` and `LoadShortens` assume that `Names` is finite: a directory holds
finitely many files.  `RunShortens` uses that a program prints at most `MaxOutput`
chunks in all: of one that prints for ever the loader would never hear the end.
`ConnectionsShorten` uses no bound on requests or pieces: every step of the server
lowers the measure, only what the client sends raises it, and a deadline moves away
only with a step that lowers it.  So a client may stay as long as it sends, and no
longer than its last deadline once it does not.

Only model-checked: the liveness properties themselves (`ServesAgain`,
`SilentConnectionsEnd`, `ClosesDown`, `LoadEnds`, `CallsEnd`), since they rest on fairness;
and what recursion over data computes.

## 6. Not modelled

- Sessions of `src/session` (nothing constructs a `SessionManager`); command
  line, logging, build timestamp; Keccak and signature recovery (pure); JSON,
  protobuf and Solidity text; balances and gas; Windows' `runProcess`; the
  page's widgets.  Each is in `PROJECT.json` with its reason.
- **Pages of an account.**  `page * limit` may overflow, and a page is cut from
  a copy of an unordered set, which orders itself anew when it grows.  Nothing
  in the repository says more of the pages than their size, so there is no
  promise to check the code against.
- **ABI codec.**  `encodeAsArg` writes the low 8 bits of a string's length
  before all of its bytes (`evm.cpp:109`).  It is listed as a hazard; a model
  of it would be the expression itself over a bounded alphabet.
- **Pipelining clients.**  A client that sends its next request before it has
  the answer may lose what it sent, as the buffer is cleared after an answer.
  `Connection`'s clients wait, as browsers do.
- `EVMStorage` accounts read with `at()` in `noexcept` functions would end the
  process on a missing account; the guards of the model are those under which
  evmone calls them.

## 7. Plan

Done: the modules above, with the proofs of section 5.  What a continuation
would take up, in this order:

1. **Execution**: the path of GET execute (authenticate, gas, call, decode) over
   `Auth`, `Routing` and `EvmStorage`.
2. **Codec**: `encodeAsArg` and `decodeReturnedValue` as operators against
   reference definitions, at the widths of the code.
3. **Pipelining** clients in `Connection`.
