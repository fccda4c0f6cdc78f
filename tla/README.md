# TLA+ models of webserv

webserv (`src/yakh/`) is an HTTP/1.1 server in one thread: a loop around
`select` accepts connections, receives requests, and serves GET, POST and
DELETE, the first two also by CGI scripts. It has no documentation and no
tests; the code is the reference for everything here.

## The system

| Component | State | Operations | Talks to |
|---|---|---|---|
| event loop, `server/webserver.cpp`, `server/main.cpp` | per server block: the list `clients`, `readfds`, `writefds`, `maxfds`, `readyforwrite` | `StartServer` (select, accept, one pass over the list), `AcceptAndAddClientToSet`, `DeleteClient` | the kernel; calls the driver for each client, which returns 0 to have the client deleted |
| driver, `server/Handling.cpp` | the global map `clients`: descriptor number to `cl` (request, response, post, cgi, stream) | `Handle::driver`, its two `catch` clauses | the parser, then GET, POST or DELETE; their statuses are C++ exceptions |
| request parser, `req_res_post/request.cpp` | `start_read`, `rest`, `index_line`, method, path, headers, body | `parse_request` | driver |
| upload decoder, `req_res_post/post.cpp` | `mode`, `max_size`, `chunked_size`, `rest`, `brest`, `h`, `headers`, `out` | `post_request`: `init`, `chunked`, `boundarry`, `set_headers`, `raw` | routing; file system; throws 201 at the end, and then the driver answers or runs the script |
| GET, `get_method/getMethod.cpp` | `test2`, `test3`, `fileStream` of the entry; `/tmp/listing.html` | `get_method`, `send_response_200` | routing, file system, CGI, socket |
| CGI, `req_res_post/cgi.cpp` | `first`, `in_fd`, `out_fd`, `in`, `pid`, `status` | `cgi_run`, `cgi_init`, `cgi_execute`, `~cgi` | a child process; `/tmp` files |
| DELETE, `req_res_post/delete.cpp` | the global `status` | `delete_request`, `del_dir` | file system, routing |
| response, `req_res_post/respons.cpp`; MIME and status tables | headers, body | `set_Status`, `prepare_respons` | driver |
| configuration and routing, `config_file/configFile.cpp` | server blocks and locations, sorted by the length of the name | parser (once); `get_location`, `get_path` | GET, POST, DELETE, CGI |

`config_file/server.cpp` and `get_method/main.cpp` are not built.

What is hard in it:

- **State shared between clients.** `readyforwrite` and `maxfds` belong to the
  server; the map of entries is keyed by a descriptor number and numbers are
  reused at once; three places close a socket; the CGI destructor closes
  numbers a second time; all listings use one file.
- **Segments.** `recv` cuts requests anywhere, the parser and the three body
  decoders keep state from one call to the next.
- **Names.** A location, or a parameter of the configuration, is found wherever
  its name occurs, also in the middle of something else.
- **Processes.** A script runs beside the server, which stands still until it
  ends or the time is over; fork copies what streams have not written yet.
- **Failures in the middle.** A peer hangs up in its request or response,
  `accept`, `open` and `send` fail, a file disappears while it is sent, the
  parser or the check of an upload throws something other than a status, a
  directory is removed half-way.
- **Progress.** One pass gives each client one block, and only if the shared
  flag, the sets and `maxfds` let it.

What makes each part correct: *event loop*: the list, the select sets and the
descriptor table agree, the listening socket stays watched, nothing leaks, a
connection is closed only for its own sake, every connection is served. *Driver*:
a client gets its own response, one, complete. *Parser and decoders*: the result
does not depend on where recv cuts the bytes. *GET*: as many bytes as announced,
of the file the location grants. *CGI*: script runs and ends, descriptors are
closed once. *DELETE*: the answer says what was removed. *Routing*: the location
with the longest name decides. The hazards in `PROJECT.json` list these with
their lines.

## The modules

| Module | Models |
|---|---|
| `Handling` | one call of `Handle::driver` as a set of outcomes: entry left in the map, descriptor table, message, return value. Constant level: no variables, so that the event loop can use it as a relation and lemmas about it can be proved by themselves |
| `Webserver` | event loop, kernel (descriptor numbers, select, accept queue, socket buffers) and peers; EXTENDS `Handling` |
| `Service` | what the server promises to those who connect: taken, sent one response in order, closed with its last piece |
| `MCWebserver` | sets of connections and symmetry for TLC |
| `Text` | operators on texts: where one occurs in another, what is before and after |
| `Requests` | one request head: `class request` over every division of its bytes into pieces |
| `Post` | one upload: `class post` over every division of its body into pieces |
| `Sink` | what an upload promises: files that grow only with what the sender means, 201 when they are complete |
| `Routing` | `get_location`, `get_path` and the loop of `get_method`, as operators |
| `Get` | `get_method` and `send_response_200` for several clients; EXTENDS `Routing` |
| `Script` | `class cgi`, the processes it forks, and the streams of other clients that fork copies |
| `Delete` | `delete_request` and `del_dir`, requests in a row |
| `Config` | how a configuration file is read |
| `MCRequests`, `MCPost`, `MCGet`, `MCScript`, `MCDelete`, `MCConfig` | the texts, bodies, servers, trees and files these are checked with |
| `WebserverProofs`, `ResponsesProofs` | theorems about the event loop and the driver |
| `TextProofs`, `RequestsProofs`, `PostProofs`, `ScriptProofs`, `DeleteProofs`, `GetProofs` | theorems about the handlers |

`Webserver` with `Handling` composes the components as far as they share state:
descriptors, entries, flags. The other modules each look into one handler,
which runs within one step of the event loop, and follow it over the calls of
one request (`Requests`, `Post`) or over several requests that meet in a file, a
global variable or a process (`Get`, `Delete`, `Script`). That a number is reused
while its entry is still in the map is the subject of `Webserver` alone.

### Handling and Webserver

`fdt` is the descriptor table of the process, `cl` the global map (at most one
entry per number), and per server `clients`, `watched` (`readfds` and
`writefds`, always updated together), `maxfds` and `readyforwrite`. `pc`, `it`,
`tmpread` and `tmpwrite` are the progress of `StartServer`; `cur` is the loop in
`main`. Each action is a step of that function: `Select` or `SelectFails`;
`Accept`, `AcceptFails`, `AcceptAborted`; for each client `RecvFails`,
`RecvData` or `WriteOnly`, with the driver's call and `DeleteClient` inside;
`EndPass`. Between any two the peers may `Connect`, `Send`, `PeerClose` and
`PeerRead`. So what select saw may be old when it is used.

A request is a sequence of units ("P" the head without its end, "H" the end of
the head, "B" pieces of the body) and a kind, which says how it will be
answered. The look-up of a file is a choice that may fail at any call. A file
is `NBlocks` reads long. The lines of a head are parsed as they arrive, so
`ParseRequest` may refuse a head, or throw something else than a status, before its
blank line has come. `ThrowKinds` are the requests that end in `catch (...)`
(Handling.cpp:79): `"throw"`, a request line on which `substr` throws, and
`"postthrow"`, a POST into a location with uploads but no `upload_path`, where
post.cpp:290 makes a string of NULL. Both are answered 500 and leave their entry in
the map, with `start_read` set only if the blank line had come, and for an upload with
`first_time` cleared: the next connection on the number goes on with a mode and a
`max_size` that were never set (`PostRequest`). A redirect closes the socket in
the handler, and `DeleteClient` closes the number again (`Shut`, `Left`); nothing
opens a descriptor between the two. A `Client(-1)` after a failed accept is a
list item (`Ghost`). Its `FD_SET(-1)` is undefined behaviour: it sets some bit
that `FD_ISSET(-1)` finds again, or nothing. A select that succeeds reports only
numbers up to `maxfds`; `SelectFails` leaves the temporary sets as they were
copied, as select does on an error, and then that bit may be seen.

Assumed: a send that select announced takes all bytes of a block; a
connection's number is below the width of one word of an `fd_set`
(`MaxFd <= 62`), so that `FD_SET(-1)` does not hit another client; nothing else
in the process opens descriptors. A stream whose number was closed under it goes on
as if it had not been: this happens only after the second close of a script's
entry, and what it then reads is not followed.

`Service` is the abstract specification. Its state is what a peer can tell: a
connection is new, waiting, open, closed or dropped, its peer has hung up or
not, and what it has been sent. A step of it concerns one connection and sends
at most one piece. `spoiled` are those nothing is promised to, and `Take` may
only spoil one after `Disorder`: some connection was closed whose peer had hung
up, whose request is `odd` (one of `ThrowKinds`), or that was spoiled itself. At
the end of `Webserver`, `Promise` maps `state` to `State` (`conn` and the
descriptor table), `gone` to `fin`, `spoiled` to `inherited` and `reply` to `out`;
`ImplementsService` is the specification of `Service` under this mapping.

Bounds: `MaxGhosts` (list items of failed accepts kept apart, more are dropped),
`SndCap` (unread messages that fill a socket's buffer), `PostLen`, `NBlocks`,
and the finite set `Conns`, each used once.

### Post and Sink

The characters are CR, LF, "-", "b" (the text of a boundary), digits of a size
line, "t" and "x" (a header line with a known content type, another header
line); anything else is data. `StartLine` and `LastLine` keep their difference of
two bytes, which is where `boundarry` goes wrong. A call of `post_request` is
`PostRequest` followed by the steps of the function it dispatches to, up to
`pc = "recv"`: an iteration of a loop or a recursion of `chunked` is a step
(`SizeLineMissing`, `SizeLineFound`, `ChunkData`, `PartEnds`, `BodyEnds`,
`PartGoesOn`, `RawCounted`, `RawMultipart`). Modes 0 to 4 are those of the code.
Undefined behaviour is a choice: `max_size` of a chunked body for a script holds
any value up to `MaxGarbage`; `parse_uri` for a path that does not exist takes
either branch. The 16 digits that bound a size line, and the width of `size_t`,
are `SizeDigits` digits of base `Base`.

`max_size` is what `atoi` makes of the Content-Length (post.cpp:349), an int that is
then turned into a `size_t` (`MaxSizes`): `Atoi` returns any int for a number that
does not fit (undefined), and a negative one wraps to a large `size_t`. `length`
has the number the text begins with, 0 if there is none. `LengthHolds` says of an
upload with a Content-Length that it is the length of the body and at most `IntMax`;
`FilesExact`, `EndsWithLastByte`, `ScriptInput` and the promise of `Sink` are stated
for these. With any other length the answer may be 201 with too little stored, at
once, or never come; `NothingLost` says that even then the file has nothing
that was not sent.

`cuts` and `repeated` are history: that a piece given to `boundarry` ended one
byte before the end of a boundary line or up to three before the end of the last
one (`BadEnds`), and that `raw` doubled what it held back. The properties say
that these are the only ways in which an upload is not stored byte for byte.

An upload carries what its sender means: the contents of the files (`parts`), the
places of the boundary lines (`starts`), the chunks with their places in the
stream and in the body (`chunks`). `WellFormed`, part of `PostAssumption`, says that a
request which `init` does not refuse has a body of the form it announces:
`PartsMeant`, that boundary lines occur where they are meant and nowhere else, each
followed by a head that ends with an empty line; `ChunksMeant`, that each chunk has a
size line with the digits of its size. A line in the head of a part that is no
header is well-formed in this sense, and the 400 for it is allowed by
`RefusedForSizeLine`. Bodies that break off, and boundary lines other than the one
announced, are outside of the model. TLC checks the assumption on every upload
of `MCPost`.

`Handling` sees of a POST only the number of body units (`PostLen`, which may be 0)
and the time of 201; it abstracts `Post` with a Content-Length that holds. The two are separate specifications: the
decoder runs within one step of the event loop and shares no state with it but
the entry.

### Requests

The words of a request are single characters, and the separators are kept as
they are: CR LF, CR LF CR LF, ": " and spaces. `ParseRequest` takes any piece
that one `recv` can return, also none; then each iteration of the loop is a
step (`ParseLine`), and `LinesDone` is what follows it. `RequestLine` and
`HeaderLine` are `request_line_parse` and `headers_parse`, `substr` throwing
`std::out_of_range` when only spaces are left included ("500": the driver's
`catch (...)`). What the peer means (`LineTo`, `FaultOf`, `HeadersOf`) is defined
on the whole text, by the places where its lines end, and `MeaningKept` compares
the two. `lineCut` and `blankCut` are history: a piece ended between CR and LF,
or within the blank line. These are the only two places where a cut changes the
meaning, and `RequestLineKept` says that even then a request that reaches a
handler has its own request line. A cut within a request line "m CR LF ..." makes
a method of "m" with the separator and what follows; no handler is for it
(`Methods`) and the driver answers 501, so nothing can be said of its path. `answer # "none"` ends the
request: the driver has erased the entry, or (500) keeps it, which `Webserver`
follows.

### Routing and Get

A path is a sequence of characters, a file a sequence of characters that tell
where they come from. `Resolve` is `get_method` up to the choice between error,
redirect, file, script and list, with the rights of one location and the root of
another, as the code has them. A step of `GetMethod` is a call; `SendHead` is
its first one (a page for status 200 comes along in the body of the head and
overwrites the length), `NextBlock` the later ones. `WriteList` appends to the
one `/tmp/listing.html`; `lists` are the files that ever had this name, so that a
stream goes on reading one that was removed. `ListFails` are the two returns without
an answer: the file cannot be opened, and the next call tries again; or the directory
cannot, and the next call sends the file as it is by then, empty or somebody
else's. A send takes all, some or nothing
of what it is given. `joined` and `lost` are history: whose list is not alone in
its file, and who had a send that failed or was short, or no directory to list.

### Script

`pc` is where the server stands in `cgi_execute` (fork, poll, clock, answer), or
"idle". A process is forked, then runs, becomes a zombie and is reaped. `status`
keeps apart what the code can tell apart; its `WEXITSTATUS` for 1, a signal and
-1 is that of Linux and macOS. Time is in ticks since the script began; it goes
on only while the server waits, since nothing else reads the clock.
A stream of an upload may write what it holds at any piece (`Spilled`), and a
child that cannot execute its script writes what it has inherited (`ExecFails`).

### Delete

The names are the root of a location, what lies below it, and what links lead to;
a request may name any of them, the root too (its path is the name of the location
alone), and then the root is removed. `Base` is the directory the root lies in.
A tree is a kind, a target and rights for each name; `checked` are the six
bits the code looks at, `list` and `alter` what the system will do, which need
not agree. The recursion is a stack of open directories and readdir gives the
entries in any order. `stat` of a name that is not there leaves its buffer as it
was: such a name may be taken for anything.

### Config

A file is a text of words, blanks and signs, rendered from what its author
means (`RenderFile`), so that the two can be compared. A step is one parameter,
in the order of the constructors; what is read is cut out of the text. The read
beyond the end of a line at configFile.cpp:223 is a choice of two lengths.

## The runs

| Run | Instance | Shows |
|---|---|---|
| `responses` | 2 connections, all kinds but redirects, which `progress` has, and POST to a script: uploads without an `upload_path` and heads that are refused or throw before their end included; aborted accepts; 2 server blocks | `OwnResponse`, `OneResponse`, `Answered`: who is sent what, up to the close; `StaleEntryCause`: which entries outlive their client; `UploadExact`: no byte is lost between recv and the upload; `ClientsAreOpen`, `ListenerWatched`: one block does not disturb the other's lists, sets and `maxfds` |
| `descriptors` | 3 downloads and 3 free numbers: EMFILE, reuse | `ClientsAreOpen`, `NoLeak`, `FilesAreOwned`, `ClosedByOwner` |
| `cgi_post` | POST and GET to scripts, on 2 server blocks so that select meets the closed number | `ClosedByOwnerOrCgi`: the double close is where a connection loses its number to another's turn; `NoLeak`: nothing leaks even then |
| `progress` | fair, 2 connections: uploads, with and without an `upload_path`, downloads, redirects and heads that throw | `NoStarvation`; `ImplementsService`: `Webserver` implements `Service` |
| `heads` | request lines and headers, each wrong in its own way, with bodies that look like a head, and heads that never end; cut in every way | `MeaningKept`, `RequestLineKept`, `EndIsNoticed`, `Bounded` |
| `pieces` | bodies for files and for scripts, raw, chunked, multipart, chunked multipart, each cut in every way; lengths that are 0, too small, too large, negative or more than an int; every refusal of `init` | `FilesExact`, `NothingLost`, `EndsWithLastByte`, `RefusedForSizeLine`, `ScriptInput` |
| `promise` | no piece ends within the end of a boundary line, lengths hold | `KeepsPromise`: `Post` implements `Sink` |
| `size_line` | one overlong size line | a finding: post.cpp:148 calls it too long, the code takes it |
| `get` | 11 paths on all servers of one or two of 9 locations; two downloads of files of 0, 3 and 4 characters with and without a page for 200; two and three lists at once, of directories that may not be opened | `RoutesAgree`, `BodyAsAnnounced`, `ListingIsOwn`, `ListingFileCause` |
| `script` | two requests for scripts and an upload | `AnswerMatchesEnd`, `LeftBehind`, `UploadsIntact`, `AnswersEnd` |
| `delete` | 7 names, the root of the location first, two of them perhaps links, beside or above where they are; all kinds and rights; two requests | `AnswerTells`, `SameInAnyOrder`, `OnlyWhatPasses` |
| `config` | some 730 files: orders, a directive missing or twice, words of the language in each value | `AcceptedAsMeant`, `NoneRefused` |

`OwnResponse`, `OneResponse`, `Answered` and `UploadExact` except connections
in `inherited`: those accepted on a number whose entry had stayed in the map.
That such connections exist is what the code does (a client that hangs up in the
middle leaves its entry, webserver.cpp:80-91, and so does `catch (...)`,
Handling.cpp:79-87); `StaleEntryCause` says when.
`NoStarvation` assumes `InReach`, that no client is above `maxfds`: `--maxfds`
at every delete makes this false in runs where clients leave in another order
than they came, and then a client may be never looked at again.

Other properties name in the same way where the code does something else than
one would wish, and say that this is the only place:

- A list may hold another client's, if both were written to one file (`joined`).
- A script that cannot be forked, or is killed by a signal, is answered 200.
- A script that is killed is never waited for; an output file stays behind after
  an error or when its peer leaves; a response whose output cannot be opened
  never ends (`AnswersEnd` excepts it).
- A body whose Content-Length is wrong or does not fit an int (`LengthHolds`).
- An upload may be doubled in part by the child of a script that cannot be
  executed (`copies`).
- DELETE answers 204 though entries remain when `remove` or `rmdir` fails
  (`failed`), and follows symbolic links.
- A value with the words "location" or "allow_methods" or with a colon, and a
  cgi_path without a program, may be read as something else.
- A download has the length of the page for 200, where there is one.

Why the bounds are enough: two connections are needed for every interference
listed, three for the reuse of a number while its successor is open; with
three free numbers one download takes two of them, so the third accept fails.
Two blocks separate first, middle and end of a file. For uploads, the data
are all the ends that can be taken for the beginning of a boundary line, and
one call may bring anything from nothing to the whole body. A head has up to
three lines, and `UrlMax` 7 and `RecvMax` 9 let both limits be passed by one
line. In `Get`, `Block` 2 meets files that end within a block, with one, and at
once; three clients are needed for a list that is removed while a third is
appended; `MaxPages` 2 lets a head with a page be tried twice, and `losses`
bounds the clients whose sends fail. In `Script`, `Limit` 1 is enough, for what
counts is whether the limit has passed at each look at the clock; `MaxLines` 1
separates the last line from the end of the file, `MaxData` 2 a held piece from
a written one. In `Delete` the names make a directory in a directory, beside
it one more and, outside of both, the target of a link; two requests are needed
for a status that outlives one. `SYMMETRY` in `MCWebserver` and `MCGet`
permutes connections or clients: no action or property names one; the initial
states of `MCGet` do, which makes the reduction smaller and not unsound, since
TLC only leaves out a state when it has seen a permutation of it.

Fairness in `Webserver`: the process runs (`WF` on `StartServer`, which never blocks because
select does not wait), and a peer goes on sending what it has begun and reading
what arrives. No peer has to connect or to close.

Fairness in `Script`: the process of the server runs (`WF` on `Wait`, the loop in
`cgi_execute` and what follows it in the same call), and time passes (`WF` on `Tick`).
Nothing is assumed of a script: it may run for ever or never write. Nothing is
assumed of the event loop either, since the shared `readyforwrite` and `--maxfds` may
keep it from a client for ever. So `AnswersEnd` promises that each call that begins
a script comes back with an answer, 200, 500 or 504; and that the lines of
a 200 come to their end *if* the driver is called for this client again and
again (`WF` on `NextLine` is a hypothesis of the formula, not of `Spec`).

`CHECK_DEADLOCK FALSE` is set for `Post`, `Get`, `Script`, `Delete` and `Config`,
where the requests or the file really end, and for `Requests`, where a refused
one does.

## The proofs

`WebserverProofs` begins with the contract of `DriverOutcomes`: from a typed entry and
table every outcome is typed (one lemma per handler, `DriverOutcomesType`), and its
effect on the table is one of a few (`DriverEffects`): no connection's
descriptor changes, a new file has the number that was free, an entry that ends
closes its files. The one assumption is `HandlingAssumption`, about the constants.

### The event loop

For any number of servers, connections, descriptors and blocks:

- `TypeCorrect`: `Spec => []TypeOK`.
- `NothingLeaks`: `Spec => []NoLeak`, for every kind of request. The second close of
  the destructor of `cgi` may take a number away from anybody, so this cannot rest on
  who owns a number. `LeakInv` adds only the shape of an entry (`EntryShape`), from
  which it follows that none opens a file while it has one; and `Closes` says of a
  call of the driver that what is not the entry's is at most closed, never opened.
- `ClientsStayOpen`, `ListenersStayWatched`, `FilesStayOwned`:
  `Spec => [](NoCgiPost(request) => ...)`. Once a connection has sent a POST to a
  script the three are false; up to then they hold, whatever the kinds are.
- `OnlyOwnerCloses`: `ClosedByOwner`, when no kind is `"cgipost"`.
- `OnlyEntriesClose`: `ClosedByOwnerOrCgi`, for every kind. That property once said
  less: that what is closed out of turn is a number a *script's* entry holds. The
  proof did not go through, and TLC, led along the open case, found why with four
  connections: the destructor closes the number of another entry's open file, the
  number goes to a new connection, and that other entry, a plain download, closes
  it at its end. So what is stated is what the code does: the entry whose turn it
  is has the number, as one of a script or as its file.

The invariant up to the first POST to a script is
`Inv == TypeInv /\ NoCgiPost(request) /\ FilesInv /\ SocketsInv`, used as
`CalmInv == TypeInv /\ (NoCgiPost(request) => Inv)`.
`ListenerWatched` is not inductive: `maxfds` falls with each delete and may pass
below live clients, so the list may be longer than `maxfds` allows for. What
bounds the deletions is that one pass deletes only clients that select has
reported, and select reports only numbers up to `maxfds`: `Due` is the set of
those the pass has still to come to, each has a number of its own between the
listening socket and `maxfds`, and `SocketsInv` keeps
`Cardinality(Due) + ServerSocket(cur) <= maxfds[cur]`. It also says that select
does not fail (every watched number is open), on which that bound rests.
`FilesInv` says
that files of entries are open, are owned once, and that no entry holds numbers
of a finished script; without it closing the files of an entry could close a
socket. `Inv` was checked with TLC on the instances of `responses` and
`descriptors` before it was proved.

### The responses

`ResponsesProofs` builds on it: `LeftoversHaveCause`, `EveryoneGetsOwnResponse`,
`OneResponseInOrder`, `ClosedAfterAnswer`, `UploadsLoseNothing`, again for any
number of servers, connections, blocks and units, and up to the first POST to a
script: the second close by the destructor of `cgi` takes a number away from whoever has
it by then, and the entry of the next connection on this number would be counted
as somebody else's. The invariant is `Inv` with five more parts:

- `ConnsInv`: an open connection has one number, a waiting one is in one queue
  once, and to one that is not accepted nothing has happened;
- `EntryCause`: an entry has seen the bytes only of the connection that has its
  number, or of such as may leave an entry behind; and while one stays without a
  connection, one that may leave it was closed;
- `ServesInv`: the entry of a connection that did not inherit one agrees with what
  the peer has been sent, how many units recv has returned and which of them went
  to the upload. It stops short of a peer that has gone: the entry goes on
  counting blocks that no longer arrive;
- `SentInv`: whether or not the connection is still there, what it was sent are
  the first pieces of one response, and of all of it if the server closed it;
- `TurnsInv`: what select said of the clients that the pass has still to come to
  is still true when their turn comes: recv finds something, and a socket that
  cannot be written to has had an answer already. The loop drops what it has
  received for such a socket, so without this `UploadExact` would not be inductive.

It was checked with TLC on the instance of `responses`, redirects included
before it was proved; so was `ImplementsService`. The two ways into `catch (...)`
make `EntryCause` say of an entry without a connection that it belongs to somebody
who hung up, to a request of `ThrowKinds`, or to a connection that inherited it; and
the entry of a connection that is still served is not one that has thrown.

`ServerKeepsPromise`: `Webserver` implements `Service`, when no kind is `"cgipost"`.
The steps of select and of the end of a pass leave what `Service` sees; a peer's
steps and an accept are one action each, and what an accept needs for `Take` to spoil a
connection, that its number had an entry only after `Disorder`, is the second half
of `EntryCause`. A turn of a client sends at most one piece and closes at most its
own connection (`OnlyStateOf`), and it is `Reply`, `Leave` or `Anything`:
the piece sent is the next one by `ServesInv` and `SentInv`, and the connection is
closed in the same step just when its response is complete (`PieceIsDue`,
`CompleteIs`).

### The parser

`TextProofs` has what `Finds`, `Take`, `Drop` and `Min` return.

`RequestsProofs` has no restriction on the texts, on where they are cut, nor on
`UrlMax` and `RecvMax`. `ParserTypeCorrect`, `ParserIsBounded`, `EndsAreNoticed`:
the invariant is `TypeOK /\ Kept /\ Noticed`. `Bounded` speaks of the time between
two calls; `Kept` bounds the buffer within a call too. `Noticed` says that, as
long as `start_read` is false, every blank line of the text ends after `pos` (or
was cut), and that from then on the buffer ends with CR LF, so that the last line
leaves nothing in `rest`.

`RequestLinesKept`: `FirstInv` says that before the first line what was kept and
the buffer are the beginning of the text (a blank line that was missed included),
and that the line read first ends where some line of the text ends. Such a line may be longer than the first line of the text; `FirstLineEnough` says that whatever
the longer line is read as, it is what the first line is read as, provided the
method is one that has a handler. It is proved by the places of the words: a
shape of three words and the spaces between them is a part of the text, and
the method and the path stand where they stand in the first line.

`MeaningsKept`: as long as no separator was cut, `MeantInv` says where the parser
stands (`Place`: the buffer begins at a place `d` of the text, after a whole
line, or `rest` is the beginning of the line there), that what it has read are the
lines before `d` (`Parsed`), that the handler has been given what follows the
head (`Handed`), and that a refusal has its cause (`Refused`). The meaning is
defined by the set of places where lines end, so that one more line adds one
place to the set, and no induction over lines is needed.

### The upload decoder

`PostProofs`, for bodies, parts and chunks of any number and length, cut into
pieces anywhere, and for all constants; the assumption is `PostAssumption`. Where
`LengthHolds` is asked for, a body sent with a Content-Length is as long as that says
and not longer than the largest int; bodies sent in chunks or in parts have no such
limit.

- `UploadTypeCorrect`, `UploadsAreExact`, `NothingIsLost`, `UploadsEnd`,
  `RefusalsHaveReasons`, `ScriptsReadTheBody`: the properties of the run `pieces`.
- `UploadsKeepPromise`: `Post` implements `Sink`, if `SplitMarkers` is FALSE and
  every upload is `Plain`: its files can be created, no script reads it, its length
  holds, and it is not both multipart and chunked. Each of these is needed. Without a
  directory nothing is stored and 201 is the answer; with a length too small 201
  comes before the last byte; what a script reads is the body and not its
  parts; and a chunk may end within the end of a boundary line however recv cuts.

The invariant `Inv` says where in the body the decoder stands, one part for each of
its functions, and holds after each step of a call, not only between calls:

- `Modes`: mode, function at work and request belong together;
- `Counted`: in mode 0 the file holds the first `w` bytes, `max_size` is what is
  missing (if the length holds), and what raw has been given are the bytes from `w` on;
- `Copied`: what raw holds back of a multipart body for a script ends as the body
  does at `q`, even when it was doubled. So the last boundary line is noticed in any
  case, and the script gets the body if nothing was doubled;
- `Dechunked`: `rest` begins after `r` bytes of the stream, which carry the first `p`
  bytes of the body; `r` is at the beginning of a size line, within the data of a
  chunk, or at the CRLF behind it (`InChunk`). No length of digits is fixed: a CRLF
  found too early would have to lie within a size line or the data;
- `Divided`: boundarry is in part `i` and what is not used begins after `q`
  bytes (`Stands`): in its head at the beginning of a line, or in its data. The
  files before are complete. `q` passes the end of the data only if the place of a
  bad end is in `cuts` (`Margin`), and no boundary line is left unnoticed unless it
  is the last one and was cut (`Noticed`).

`FilesExact` alone is not inductive: it says nothing before 201, and what
boundarry writes at a boundary line depends on what it held back in the calls before.
`RefusedForSizeLine` is a part of `Inv`, since the line that was refused is not in the
state afterwards. From `Inv`, `NothingLost` follows by comparing two ranges of the
body; the refinement needs `Unsplit` besides (no bad end was ever met) and, for each
action, that it only appends to the last file or opens a new one (`StepsGrow`). A step
is then one of `Store`, `Created` and `Refuse`, or leaves the files and the status.
`TextProofs` has the lemmas about ranges (`Slice`): how they are joined, divided and
searched.

### The handlers

`ScriptProofs`: `ScriptsTypeCorrect`, `AnswersMatchEnds`, `NothingElseIsLeft`,
`UploadsStayIntact`, for any number of clients and uploads. The invariant ties
the process of the client being served to `pc` and `status` (`Turns`,
`Processes`, `Waiting`), those already served to their answer (`Answered`,
`Ended`) and states `LeftBehind` also while the server waits (`Remains`):
without `Waiting` the answer could come from a status of somebody else.

`DeleteProofs`, for every tree of any depth, with symbolic links; that the parents are
well-founded is said with `Depth`, a constant of the module, and `DeleteAssumption`
also says that only directories contain names, as in any file system, and that a link
leads to something that is not a link: a loop of links (ELOOP) is outside of the model.

- `WalkTypeCorrect`, and `RemovesOnlyWhatPasses`: each open
  directory is the one of the request or below it, through links too, and what
  readdir has still to give is in what it points to (`Inside`).
- `AnswersTell`: `AnswerTells`. The open directories are a path down from url, through
  links too (`Framed`). With links a directory may be open twice, and a name that
  readdir gives may have been removed already, whose `stat` then decides nothing. What
  keeps the answer true is that a 500, and a name that is missing, are always
  accounted for by something that stays in an open directory, one that
  readdir will not give again (`Stuck`). That it really stays needs a
  look at what is open in it: if that is a link, rmdir leaves it, and if the same
  directory is open twice, there is a link between the two.
- `SameWhateverOrder`: `SameInAnyOrder`, whose two sides are what happened in one
  order of readdir and two recursive functions over the tree, `Reached` and `Gone`.
  `SweepInv` says that what was removed is `Gone`, and that what is `Gone` and
  still there is open or `Pending`: what the open directories have still to give,
  with all that is below. `Pending` is not defined by recursion but as the least
  set that contains the names to be given and what its members hold; what such a
  set is for one name less or one directory more follows from its being least,
  without induction over the tree.

`GetProofs`, for any number of clients, files of any length and any block:

- `GetTypeCorrect`, `ListingFileExplained`, `BodiesAreWhole`. The invariant of the
  last is `Going`: half-way, what was sent is the page followed by the first `at`
  characters of the file, and no block was skipped when the end was met.
- `ListsAreOwn`: `Listening` says that a client whose sends went through reads one
  of the files that ever were `/tmp/listing.html`, which holds its list in one
  piece, and nothing else if the client is not in `joined`, and that it was sent
  the page and the file as far as it has read (`Reading`). A file only grows, so
  both survive what other clients append.
- `RoutesAreSound`: `RoutesAgree` about every table of locations and every path.
  Where one name occurs only as the first step of the path, what GET and the
  other methods cut out of it is the same file, though one of them leaves an
  empty step in it. The texts are compared by moving places from one to the other.

Every invariant was checked with TLC on the instance of its run before it was
proved.

### Only model-checked

- Liveness, `NoStarvation` and `AnswersEnd`: out of the prover's reach.
- Nothing is claimed of the responses once a POST goes to a script: some of their
  properties are false then, and the others would hold of the model only, which does
  not follow what a stream reads after its number was taken away. `NoLeak` and
  `ClosedByOwnerOrCgi` do not depend on it: they are about who opens and closes.
- `TooLongIsRefused`, which the run `size_line` refutes.
- `Config`: it compares a rendered text with what is cut out of it in some thirty
  searches; a proof would be mostly about where words occur in a rendered file.

## Plan

1. The units of `Handling` as a refinement of `Requests` and of `Post` with a
   Content-Length.
2. What a stream reads from a number that the second close of a script's entry took
   away and that now is another file or a socket; with it, what is left of
   `OwnResponse` and `OneResponse` after a POST to a script.

## Not modelled

Time-of-day file names, header wording, the tables of MIME types and status
texts, pages and media; the name of the configuration file and whether the
directories in it exist; start-up errors of sockets (they exit); the environment
of a script; `config_file/server.cpp` and `get_method/main.cpp`, which the
Makefile does not build; `parse_path` of delete.cpp and `get_upload_path` of
Location, which nothing calls.
