------------------------------- MODULE Handling -------------------------------
(***************************************************************************)
(* The request handler: Handle::driver of server/Handling.cpp, with what   *)
(* it calls, seen from the event loop.  One call of the driver is one      *)
(* element of DriverOutcomes: what it leaves in the global map "clients"   *)
(* (there called an entry, a C++ object of class cl), what it writes to    *)
(* the socket, what it does to the table of descriptors of the process,    *)
(* and its return value (0: the caller deletes the client).                *)
(*                                                                         *)
(* The bytes of a request are abstracted to units: "P" a part of the head  *)
(* without the blank line, "H" the piece that completes the head, "B" a    *)
(* piece of the body.  The kind of a request is what the driver finds out  *)
(* about it:                                                               *)
(*   get       a GET served from a file, in NBlocks reads of 1024 bytes    *)
(*   redirect  a GET answered by a 301                                     *)
(*   post      a POST whose body, of PostLen units, goes to a file         *)
(*   postthrow a POST into a location with uploads but no upload_path,     *)
(*             where a string is made of NULL (std::logic_error)           *)
(*   status    a request answered by one thrown status: a DELETE, an       *)
(*             unknown method, a request that fails a check                *)
(*   throw     a request line on which substr throws std::out_of_range     *)
(*   cgiget, cgipost   a GET or a POST answered by a CGI script, whose     *)
(*             output is sent in NBlocks lines                             *)
(***************************************************************************)
EXTENDS Integers, Sequences, FiniteSets, SequencesExt

CONSTANTS
    Conns,      \* the TCP connections peers open, each one used once
    Kinds,      \* the kinds of requests peers send
    FirstFd,    \* the first descriptor number that is free when main starts
    MaxFd,      \* the last descriptor number the process may use
    NBlocks,    \* how many reads it takes to reach the end of a file
    PostLen,    \* how many units the body of a POST has
    Free,       \* what a descriptor number that is not in use refers to
    File,       \* what the descriptor of an open file refers to
    Listener,   \* what the descriptor of a listening socket refers to
    NoConn      \* no connection

GetKinds == {"get", "redirect", "cgiget"}
PostKinds == {"post", "postthrow", "cgipost"}
AllKinds == GetKinds \cup PostKinds \cup {"status", "throw"}

\* The requests that end in catch (...).
ThrowKinds == {"throw", "postthrow"}

ASSUME HandlingAssumption ==
    /\ Kinds \subseteq AllKinds
    /\ FirstFd \in Nat \ {0}
    /\ MaxFd \in FirstFd .. 62      \* one word of an fd_set, less its last bit
    /\ NBlocks \in Nat \ {0}
    /\ PostLen \in Nat
    /\ File \notin {Free, Listener, NoConn}
    /\ Free \notin {Listener, NoConn} /\ Listener # NoConn
    /\ {Free, File, Listener, NoConn} \cap Conns = {}

Fds == FirstFd .. MaxFd
NoFd == -1
Objects == Conns \cup {Free, File, Listener}
Units == {"P", "H", "B"}
-------------------------------------------------------------------------------
(***************************************************************************)
(* The descriptor table of the process, t \in [Fds -> Objects].  The       *)
(* kernel hands out the lowest free number.                                *)
(***************************************************************************)
FreeFds(t) == {f \in Fds : t[f] = Free}
LowestFree(t) == IF FreeFds(t) = {} THEN NoFd ELSE Min(FreeFds(t))
Install(t, f, o) == [g \in Fds |-> IF g = f THEN o ELSE t[g]]
Close(t, fs) == [g \in Fds |-> IF g \in fs THEN Free ELSE t[g]]

(***************************************************************************)
(* An entry of the map "clients": the state of a cl object that outlives   *)
(* one call of the driver.                                                 *)
(***************************************************************************)
Entry == [start_read : BOOLEAN,             \* request::start_read
          first_time : BOOLEAN,             \* post::first_time
          post_end   : BOOLEAN,             \* post::post_end
          who        : SUBSET Conns,        \* whose bytes made the head
          owner      : Conns \cup {NoConn}, \* whose request is answered
          kind       : AllKinds,
          got        : 0 .. PostLen,        \* units of the body stored
          step       : 0 .. NBlocks,        \* test2, then blocks read; cgi::first
          file       : Fds \cup {NoFd},     \* fileStream, post::out or cgi::in
          held       : SUBSET Fds]          \* numbers left in cgi::in_fd, out_fd

NewEntry == [start_read |-> FALSE, first_time |-> TRUE, post_end |-> FALSE,
             who |-> {}, owner |-> NoConn, kind |-> "status",
             got |-> 0, step |-> 0, file |-> NoFd, held |-> {}]

\* At most one entry per descriptor number: <<>> or <<e>>.
NoEntry == <<>>

Msg(e, what) == <<[by |-> e.owner, what |-> what]>>
Outcome(t, entry, ret, msg) ==
    [fdt |-> t, entry |-> entry, ret |-> ret, msg |-> msg, shut |-> FALSE]

\* The same, after the driver itself has closed the client's socket.
Shut(o) == [o EXCEPT !.shut = TRUE]

(***************************************************************************)
(* clients.erase: the destructor of cl closes the streams that are open    *)
(* and whatever numbers cgi::in_fd and cgi::out_fd still hold, though      *)
(* cgi_execute has closed those descriptors already.                       *)
(***************************************************************************)
\* Mutant of Erase: the destructor forgets the streams.
EraseKeepsFile(t, e) == Close(t, e.held)
Erase(t, e) == Close(t, {e.file} \cup e.held)
\* Mutant of Finish: the entry is not erased.
FinishKeepsEntry(t, e, msg) == Outcome(Erase(t, e), <<e>>, 0, msg)
Finish(t, e, msg) == Outcome(Erase(t, e), NoEntry, 0, msg)
\* Mutant of Continue: the wrong return value.
ContinueReturns0(t, e, msg) == Outcome(t, <<e>>, 0, msg)
Continue(t, e, msg) == Outcome(t, <<e>>, 1, msg)

\* catch (int status), for a status other than 201: an error page, then erase.
ThrowStatus(t, e) == Finish(t, e, Msg(e, "whole"))

\* catch (...): an error page, and the entry stays in the map.
CatchAll(t, e) == Outcome(t, <<e>>, 0, Msg(e, "whole"))
-------------------------------------------------------------------------------
(***************************************************************************)
(* request::parse_request on what recv returned, for connection c.  The    *)
(* lines are parsed as they arrive, so a head may be refused, or throw,    *)
(* before its blank line has come.  start_read is set, in the piece with   *)
(* the blank line, before the lines of that piece are parsed: the entry an *)
(* exception leaves behind has it set just when the blank line had come,   *)
(* and what that entry's method and path are depends on how far the        *)
(* request line got (there are no headers, so a POST ends in a status or   *)
(* in the exception of parse_uri).  A head made of the bytes of two        *)
(* connections may be refused, throw, or be read as the request of either. *)
(***************************************************************************)
HeadEnds(seg) == \E i \in DOMAIN seg : seg[i] = "H"

\* Mutant of BodyLen: what came with the end of the head is lost.
BodyLenLater(e, seg) == IF e.start_read THEN Len(seg) ELSE 0

BodyLen(e, seg) ==
    IF e.start_read THEN Len(seg)
    ELSE Cardinality({i \in DOMAIN seg : seg[i] = "B"})

Parsed(res, e) == [res |-> res, entry |-> e]

\* It is w's request that is answered.
OwnedBy(e, w) == [e EXCEPT !.owner = w]

ParseRequest(e, c, request, seg) ==
    LET read  == [e EXCEPT !.who = IF seg = <<>> THEN @ ELSE @ \cup {c}]
        ended == [read EXCEPT !.start_read = TRUE]
        mixed == read.who # {c}
        As(w, k) == [ended EXCEPT !.owner = w, !.kind = k]
    IN  CASE e.start_read -> {Parsed("ready", e)}
          [] ~e.start_read /\ ~HeadEnds(seg) ->
               {Parsed("more", read)}
               \cup {Parsed("refused", OwnedBy(read, v)) :
                        v \in {w \in {c} : seg # <<>> /\ (mixed \/ request[w] = "status")}}
               \cup {Parsed("exception", OwnedBy(read, w)) :
                        w \in {v \in read.who :
                                  seg # <<>> /\ (mixed \/ request[v] = "throw")}}
          [] OTHER ->
               {Parsed("ready", As(w, request[w])) :
                    w \in {v \in read.who : request[v] # "throw"}}
               \cup {Parsed("ready", As(c, "status")) : x \in {y \in {c} : mixed}}
               \cup {Parsed("exception", As(w, k)) :
                        w \in {v \in read.who : mixed \/ request[v] = "throw"},
                        k \in ((GetKinds \cup {"postthrow"}) \cap Kinds) \cup {"status"}}
-------------------------------------------------------------------------------
\* Mutant of NextBlock: the end of the file is noticed one read too late.
NextBlockLate(t, e) ==
    IF e.step > NBlocks THEN Finish(t, e, Msg(e, "body"))
    ELSE Continue(t, [e EXCEPT !.step = @ + 1], Msg(e, "body"))

\* Send one more block or line; the last read meets the end of the file.
NextBlock(t, e) ==
    IF e.step = NBlocks THEN Finish(t, e, Msg(e, "body"))
    ELSE Continue(t, [e EXCEPT !.step = @ + 1], Msg(e, "body"))

\* Mutant of OpenFile: test2 is not set.
OpenFileTwice(t, e, f) ==
    Continue(Install(t, f, File), [e EXCEPT !.file = f], Msg(e, "head"))

\* Open the file and send the head.
OpenFile(t, e, f) ==
    Continue(Install(t, f, File), [e EXCEPT !.step = 1, !.file = f], Msg(e, "head"))

\* Mutants of SendFailed: the entry goes on with the number, or the destructor does.
SendFailedKeepsFile(t, e) == Continue(Close(t, {e.file}), e, <<>>)
SendFailedHolds(t, e) ==
    Continue(Close(t, {e.file}), [e EXCEPT !.file = NoFd, !.held = {e.file}], <<>>)

\* send failed: the stream is closed, and the entry stays.
SendFailed(t, e) == Continue(Close(t, {e.file}), [e EXCEPT !.file = NoFd], <<>>)

(***************************************************************************)
(* send_response_200.  The first call opens the file and sends the head,   *)
(* each later one sends a block; gone says that the peer has closed, and   *)
(* then send may fail.                                                     *)
(***************************************************************************)
SendResponse200(t, e, gone) ==
    {SendFailed(t, e) : x \in {y \in {e} : gone /\ (e.step > 0 \/ FreeFds(t) # {})}}
    \cup
    CASE e.step = 0 /\ FreeFds(t) = {} -> {ThrowStatus(t, e)}
      [] e.step = 0 /\ FreeFds(t) # {} -> {OpenFile(t, e, LowestFree(t))}
      [] e.step > 0 /\ e.file = NoFd   -> {Finish(t, e, <<>>)}
      [] OTHER                         -> {NextBlock(t, e)}

(***************************************************************************)
(* cgi::cgi_run.  The first call opens the output file and, for a POST,    *)
(* the input file, runs the script to its end, closes both descriptors     *)
(* but keeps their numbers in out_fd and in_fd, and opens the output for   *)
(* reading; a script that fails ends the response at once.  Each later     *)
(* call sends a line, the last one meets the end of file.  When the        *)
(* output could not be opened, getline fails without ever meeting the end  *)
(* and every call sends a blank line.                                      *)
(***************************************************************************)
CgiRun(t, e) ==
    LET f == LowestFree(t)
        g == LowestFree(Install(t, f, File))
        numbers == IF e.kind = "cgipost" THEN {f, g} ELSE {f}
    IN  CASE e.step = 0 ->
               {Finish(t, e, Msg(e, "whole")),
                Continue(Install(t, f, File),
                         [e EXCEPT !.step = 1, !.file = f, !.held = numbers \ {NoFd}],
                         Msg(e, "head"))}
          [] e.step > 0 /\ e.file = NoFd -> {Continue(t, e, Msg(e, "blank"))}
          [] OTHER -> {NextBlock(t, e)}

(***************************************************************************)
(* get_method.  The file is looked up again at every call, so any call may *)
(* throw a status, also after the head and some blocks have been sent.     *)
(* A redirect closes the socket, which the caller then closes again.       *)
(***************************************************************************)
GetMethod(t, e, gone) ==
    {ThrowStatus(t, e)} \cup
    CASE e.kind = "redirect" -> {Shut(Finish(t, e, Msg(e, "whole")))}
      [] e.kind = "get"      -> SendResponse200(t, e, gone)
      [] e.kind = "cgiget"   -> CgiRun(t, e)

\* catch (int status) with status 201: the upload is complete.
Created(t, e) ==
    IF e.kind = "cgipost" THEN CgiRun(t, [e EXCEPT !.post_end = TRUE])
    ELSE {Finish(t, e, Msg(e, "whole"))}

(***************************************************************************)
(* post::post_request, for a valid POST with a Content-Length.  A file     *)
(* that cannot be opened is not noticed: the body is then dropped.         *)
(***************************************************************************)
StoreBody(t, e, n) ==
    LET f   == LowestFree(t)
        t1  == IF e.first_time THEN Install(t, f, File) ELSE t
        e1  == IF e.first_time THEN [e EXCEPT !.first_time = FALSE, !.file = f]
               ELSE e
    IN  CASE e.post_end -> Created(t, e)
          [] ~e.post_end /\ e1.got + n < PostLen ->
               {Continue(t1, [e1 EXCEPT !.got = @ + n], <<>>)}
          [] OTHER ->
               Created(Close(t1, {e1.file}),
                       [e1 EXCEPT !.got = PostLen, !.file = NoFd])

\* Without an upload_path init throws, once: first_time is cleared by then.
\* Who gets the entry next has the mode, 0, of a body with a length, a file
\* that was never opened, and a max_size that was never set.
PostRequest(t, e, n) ==
    CASE e.kind # "postthrow" -> StoreBody(t, e, n)
      [] e.kind = "postthrow" /\ e.first_time ->
           {CatchAll(t, [e EXCEPT !.first_time = FALSE])}
      [] OTHER -> {Continue(t, e, <<>>)} \cup Created(t, e)

Dispatch(t, e, n, gone) ==
    CASE e.kind \in GetKinds  -> GetMethod(t, e, gone)
      [] e.kind \in PostKinds -> PostRequest(t, e, n)
      [] OTHER                -> {ThrowStatus(t, e)}

(***************************************************************************)
(* Handle::driver on the entry e, for connection c, of which seg has just  *)
(* been received (<<>> when recv was not called in this pass).             *)
(***************************************************************************)
DriverOutcomes(t, e, c, gone, request, seg) ==
    UNION {CASE p.res = "more"      -> {Continue(t, p.entry, <<>>)}
             [] p.res = "refused"   -> {ThrowStatus(t, p.entry)}
             [] p.res = "exception" -> {CatchAll(t, p.entry)}
             [] p.res = "ready"     -> Dispatch(t, p.entry, BodyLen(e, seg), gone) :
           p \in ParseRequest(e, c, request, seg)}
===============================================================================
