------------------------------ MODULE Webserver -------------------------------
(***************************************************************************)
(* The event loop: class Webserver of server/webserver.cpp, the loop of    *)
(* server/main.cpp around it, the table of descriptors of the process and  *)
(* the peers at the other end of the connections.                          *)
(*                                                                         *)
(* main calls StartServer of each server in turn, for ever.  A call is one *)
(* select that does not wait, at most one accept, and one pass over the    *)
(* list of clients: recv where select saw something to read, then the      *)
(* driver where select saw room to write, if readyforwrite is set.  The    *)
(* flag belongs to the server, not to the client.  readfds and writefds    *)
(* are always updated together and are one variable here, watched.         *)
(***************************************************************************)
EXTENDS Handling

CONSTANTS
    NServers,       \* how many server blocks the configuration has
    SndCap,         \* how many unread writes fill the send buffer of a socket
    MaxGhosts,      \* bound: list items of failed accepts that are kept apart
    AcceptAborts    \* whether a connection may be aborted while it is queued

ASSUME WebserverAssumption ==
    /\ NServers \in Nat \ {0}
    /\ FirstFd + NServers - 1 <= MaxFd
    /\ SndCap \in Nat \ {0}
    /\ MaxGhosts \in Nat \ {0}
    /\ AcceptAborts \in BOOLEAN

Servers == 1 .. NServers
ServerSocket(s) == FirstFd + s - 1

\* What the list of clients holds after an accept that failed: Client(-1).
Ghost == NoFd

VARIABLES
    fdt,            \* what each descriptor number of the process refers to
    cl,             \* the global map "clients" of Handling.cpp
    clients,        \* Webserver::clients, a list of descriptor numbers
    watched,        \* Webserver::readfds and writefds
    maxfds,         \* Webserver::maxfds
    readyforwrite,  \* Webserver::readyforwrite
    cur,            \* main: the server whose StartServer runs
    pc,             \* where it is: "select", "accept" or "iter"
    it,             \* Webserver::itClient, as a position in the list
    tmpread,        \* Webserver::tmpfdread
    tmpwrite,       \* Webserver::tmpfdwrite
    backlog,        \* the connections queued at each listening socket
    conn,           \* "new", "pending", "accepted" or "aborted"
    request,        \* the kind of request the peer sends
    sent,           \* how many units of it the peer has sent
    rcvd,           \* how many units recv has returned
    fin,            \* whether the peer has closed its end
    unread,         \* how many writes the peer has not read yet
    out,            \* history: what was written while the peer was there
    inherited       \* history: connections accepted on a number with an entry

loopVars == <<cur, pc, it, tmpread, tmpwrite>>
listVars == <<clients, watched, maxfds>>
peerVars == <<backlog, conn, request, sent, rcvd, fin, unread, out>>
vars == <<fdt, cl, listVars, readyforwrite, loopVars, peerVars, inherited>>
-------------------------------------------------------------------------------
\* The units a peer sends for a request of kind k.
Stream(k) ==
    <<"P", "H">> \o (IF k \in PostKinds THEN [i \in 1 .. PostLen |-> "B"] ELSE <<>>)

Available(c) == sent[c] - rcvd[c]
Open(c) == \E f \in Fds : fdt[f] = c
Alive(c) == conn[c] = "pending" \/ (conn[c] = "accepted" /\ Open(c))

Listed(s) == {clients[s][i] : i \in DOMAIN clients[s]}

Init ==
    /\ fdt = [f \in Fds |-> IF f \in {ServerSocket(s) : s \in Servers}
                            THEN Listener ELSE Free]
    /\ cl = [f \in Fds |-> NoEntry]
    /\ clients = [s \in Servers |-> <<>>]
    /\ watched = [s \in Servers |-> {ServerSocket(s)}]
    /\ maxfds = [s \in Servers |-> ServerSocket(s)]
    /\ readyforwrite \in [Servers -> BOOLEAN]   \* never initialised
    /\ cur = 1 /\ pc = "select" /\ it = 1
    /\ tmpread = {} /\ tmpwrite = {}
    /\ backlog = [s \in Servers |-> <<>>]
    /\ conn = [c \in Conns |-> "new"]
    /\ request = [c \in Conns |-> "status"]
    /\ sent = [c \in Conns |-> 0]
    /\ rcvd = [c \in Conns |-> 0]
    /\ fin = [c \in Conns |-> FALSE]
    /\ unread = [c \in Conns |-> 0]
    /\ out = [c \in Conns |-> <<>>]
    /\ inherited = {}
-------------------------------------------------------------------------------
(***************************************************************************)
(* The peers.                                                              *)
(***************************************************************************)
serverVars == <<fdt, cl, listVars, readyforwrite, loopVars, inherited>>

Connect(c, s, k) ==
    /\ conn[c] = "new"
    /\ conn' = [conn EXCEPT ![c] = "pending"]
    /\ request' = [request EXCEPT ![c] = k]
    /\ backlog' = [backlog EXCEPT ![s] = Append(@, c)]
    /\ UNCHANGED <<serverVars, sent, rcvd, fin, unread, out>>

Send(c) ==
    /\ Alive(c) /\ ~fin[c]
    /\ sent[c] < Len(Stream(request[c]))
    /\ sent' = [sent EXCEPT ![c] = @ + 1]
    /\ UNCHANGED <<serverVars, backlog, conn, request, rcvd, fin, unread, out>>

PeerClose(c) ==
    /\ Alive(c) /\ ~fin[c]
    /\ fin' = [fin EXCEPT ![c] = TRUE]
    /\ unread' = [unread EXCEPT ![c] = 0]
    /\ UNCHANGED <<serverVars, backlog, conn, request, sent, rcvd, out>>

PeerRead(c) ==
    /\ unread[c] > 0
    /\ unread' = [unread EXCEPT ![c] = @ - 1]
    /\ UNCHANGED <<serverVars, backlog, conn, request, sent, rcvd, fin, out>>
-------------------------------------------------------------------------------
(***************************************************************************)
(* select(maxfds + 1, ...) looks only at the numbers up to maxfds.  When   *)
(* one of them is not open it fails, and leaves the two sets as they were. *)
(* What FD_SET(-1, ..) has done to them depends on the platform: it sets   *)
(* some bit that FD_ISSET(-1, ..) finds again, or nothing.                 *)
(***************************************************************************)
Readable(f) ==
    \/ fdt[f] = Listener /\ backlog[cur] # <<>>
    \/ fdt[f] \in Conns /\ (Available(fdt[f]) > 0 \/ fin[fdt[f]])
    \/ fdt[f] = File

Writable(f) ==
    \/ fdt[f] \in Conns /\ (unread[fdt[f]] < SndCap \/ fin[fdt[f]])
    \/ fdt[f] = File

Scanned(s) == {f \in watched[s] : f <= maxfds[s]}

SelectErr(s) == maxfds[s] + 1 < 0 \/ \E f \in Scanned(s) : fdt[f] = Free

StartPass ==
    /\ pc' = IF ServerSocket(cur) \in tmpread' THEN "accept" ELSE "iter"
    /\ it' = 1
    /\ UNCHANGED <<fdt, cl, listVars, readyforwrite, cur, peerVars, inherited>>

Select ==
    /\ pc = "select"
    /\ ~SelectErr(cur)
    /\ tmpread' = {f \in Scanned(cur) : Readable(f)}
    /\ tmpwrite' = {f \in Scanned(cur) : Writable(f)}
    /\ StartPass

SelectFails ==
    /\ pc = "select"
    /\ SelectErr(cur)
    /\ tmpread' \in {watched[cur], watched[cur] \cup {Ghost}}
    /\ tmpwrite' = tmpread'
    /\ StartPass

(***************************************************************************)
(* AcceptAndAddClientToSet: whatever accept returned is added to the list, *)
(* and the flag of the whole server is reset.  The map of Handling.cpp is  *)
(* not touched: an entry under this number stays.                          *)
(***************************************************************************)
Ghosts(l) == {i \in DOMAIN l : l[i] = Ghost}

\* Mutant of FdSet: one pair of sets for all the servers.
FdSetShared(s, f) == [r \in Servers |-> watched[r] \cup ({f} \ {Ghost})]
FdSet(s, f) == [watched EXCEPT ![s] = @ \cup ({f} \ {Ghost})]

AddClient(s, f) ==
    /\ clients' = [clients EXCEPT ![s] =
                     IF f = Ghost /\ Cardinality(Ghosts(@)) = MaxGhosts THEN @
                     ELSE Append(@, f)]
    /\ watched' = FdSet(s, f)
    /\ maxfds' = [maxfds EXCEPT ![s] = IF f > @ THEN f ELSE @]
    /\ readyforwrite' = [readyforwrite EXCEPT ![s] = FALSE]
    /\ pc' = "iter"
    /\ UNCHANGED <<cl, cur, it, tmpread, tmpwrite>>

Accept ==
    /\ pc = "accept"
    /\ backlog[cur] # <<>> /\ FreeFds(fdt) # {}
    /\ LET c == Head(backlog[cur])
           f == LowestFree(fdt)
       IN  /\ fdt' = Install(fdt, f, c)
           /\ conn' = [conn EXCEPT ![c] = "accepted"]
           /\ inherited' = IF cl[f] # NoEntry THEN inherited \cup {c} ELSE inherited
           /\ AddClient(cur, f)
    /\ backlog' = [backlog EXCEPT ![cur] = Tail(@)]
    /\ UNCHANGED <<request, sent, rcvd, fin, unread, out>>

\* EAGAIN, or EMFILE: then the connection stays in the queue.
AcceptFails ==
    /\ pc = "accept"
    /\ backlog[cur] = <<>> \/ FreeFds(fdt) = {}
    /\ AddClient(cur, Ghost)
    /\ UNCHANGED <<fdt, peerVars, inherited>>

\* ECONNABORTED.
AcceptAborted ==
    /\ AcceptAborts
    /\ pc = "accept"
    /\ backlog[cur] # <<>> /\ FreeFds(fdt) # {}
    /\ conn' = [conn EXCEPT ![Head(backlog[cur])] = "aborted"]
    /\ backlog' = [backlog EXCEPT ![cur] = Tail(@)]
    /\ AddClient(cur, Ghost)
    /\ UNCHANGED <<fdt, inherited, request, sent, rcvd, fin, unread, out>>
-------------------------------------------------------------------------------
\* Mutants: close after the iterator has moved; no FD_CLR; one maxfds for all
\* the servers.
CloseNext(t) ==
    Close(t, {clients[cur][IF it < Len(clients[cur]) THEN it + 1 ELSE it]})
KeepBit(f) == watched
DecrementAll == [s \in Servers |-> maxfds[s] - 1]

(***************************************************************************)
(* DeleteClient on the client the pass is at.  t is the table that recv or *)
(* the driver has left.                                                    *)
(***************************************************************************)
CloseClient(t) == Close(t, {clients[cur][it]})
FdClr(f) == [watched EXCEPT ![cur] = @ \ {f}]
Decrement == [maxfds EXCEPT ![cur] = @ - 1]

DeleteClient(t) ==
    /\ fdt' = CloseClient(t)
    /\ watched' = FdClr(clients[cur][it])
    /\ clients' = [clients EXCEPT ![cur] = RemoveAt(@, it)]
    /\ maxfds' = Decrement
    /\ UNCHANGED it

NextClient(t) == fdt' = t /\ it' = it + 1 /\ UNCHANGED listVars

\* Mutant of EntryAt: the first entry of the map.
FirstEntry(f) ==
    LET used == {g \in Fds : cl[g] # NoEntry}
    IN  IF used = {} THEN NewEntry ELSE cl[Min(used)][1]

EntryAt(f) == IF cl[f] = NoEntry THEN NewEntry ELSE cl[f][1]

\* What write and send do at the other end; the history leaves blank lines out.
Deliver(o, msg) ==
    IF msg # <<>> /\ o \in Conns /\ ~fin[o]
    THEN /\ out' = IF msg[1].what = "blank" THEN out
                   ELSE [out EXCEPT ![o] = Append(@, msg[1])]
         /\ unread' = [unread EXCEPT ![o] = IF @ < SndCap THEN @ + 1 ELSE @]
    ELSE UNCHANGED <<out, unread>>

\* The table the driver leaves when it returns 0: a redirect has closed the
\* client's socket itself.
Left(o, f) == IF o.shut THEN Close(o.fdt, {f}) ELSE o.fdt

\* The call of the driver for the client of number f, after recv returned seg.
Drive(f, seg) ==
    \E o \in DriverOutcomes(fdt, EntryAt(f), fdt[f],
                            fdt[f] \notin Conns \/ (fdt[f] \in Conns /\ fin[fdt[f]]),
                            request, seg) :
        /\ cl' = [cl EXCEPT ![f] = o.entry]
        /\ Deliver(fdt[f], o.msg)
        /\ IF o.ret = 0 THEN DeleteClient(Left(o, f)) ELSE NextClient(o.fdt)

AtClient == pc = "iter" /\ it <= Len(clients[cur])

RecvNothing(f) ==
    f # Ghost /\ fdt[f] \in Conns => Available(fdt[f]) = 0

\* recv returns 0 or -1.
RecvFails ==
    /\ AtClient
    /\ LET f == clients[cur][it]
       IN  f \in tmpread /\ RecvNothing(f)
    /\ DeleteClient(fdt)
    /\ UNCHANGED <<cl, readyforwrite, cur, pc, tmpread, tmpwrite, peerVars, inherited>>

\* Mutant of SetReady: the flag is not set.
LeaveReady == readyforwrite
SetReady == [readyforwrite EXCEPT ![cur] = TRUE]

\* recv returns bytes; they are lost when the driver is not called.
RecvData ==
    /\ AtClient
    /\ LET f == clients[cur][it]
           c == fdt[f]
       IN  /\ f \in tmpread /\ ~RecvNothing(f)
           /\ \E n \in 1 .. Available(c) :
                 /\ rcvd' = [rcvd EXCEPT ![c] = @ + n]
                 /\ IF f \in tmpwrite
                    THEN Drive(f, SubSeq(Stream(request[c]), rcvd[c] + 1, rcvd[c] + n))
                    ELSE NextClient(fdt) /\ UNCHANGED <<cl, out, unread>>
    /\ readyforwrite' = SetReady
    /\ UNCHANGED <<cur, pc, tmpread, tmpwrite, backlog, conn, request, sent, fin, inherited>>

\* Nothing to read: the driver is called with the 0 bytes of this pass.
WriteOnly ==
    /\ AtClient
    /\ LET f == clients[cur][it]
       IN  /\ f \notin tmpread
           /\ IF f \in tmpwrite /\ readyforwrite[cur]
              THEN Drive(f, <<>>)
              ELSE NextClient(fdt) /\ UNCHANGED <<cl, out, unread>>
    /\ UNCHANGED <<readyforwrite, cur, pc, tmpread, tmpwrite,
                   backlog, conn, request, sent, rcvd, fin, inherited>>

\* StartServer returns and main goes to the next server; the temporary sets
\* are dead until the next select.
EndPass ==
    /\ pc = "iter" /\ it > Len(clients[cur])
    /\ cur' = IF cur = NServers THEN 1 ELSE cur + 1
    /\ pc' = "select" /\ it' = 1
    /\ tmpread' = {} /\ tmpwrite' = {}
    /\ UNCHANGED <<fdt, cl, listVars, readyforwrite, peerVars, inherited>>
-------------------------------------------------------------------------------
StartServer ==
    \/ Select \/ SelectFails
    \/ Accept \/ AcceptFails \/ AcceptAborted
    \/ RecvFails \/ RecvData \/ WriteOnly
    \/ EndPass

Peer ==
    \E c \in Conns :
        \/ \E s \in Servers, k \in Kinds : Connect(c, s, k)
        \/ Send(c) \/ PeerClose(c) \/ PeerRead(c)

Next == StartServer \/ Peer

Spec == Init /\ [][Next]_vars

\* The process runs and the peers get on with what they have begun; nobody
\* has to connect, and nobody has to close.
Fairness ==
    /\ WF_vars(StartServer)
    /\ \A c \in Conns : WF_vars(Send(c)) /\ WF_vars(PeerRead(c))

FairSpec == Spec /\ Fairness
-------------------------------------------------------------------------------
TypeOK ==
    /\ fdt \in [Fds -> Objects]
    /\ cl \in [Fds -> Seq(Entry)] /\ \A f \in Fds : Len(cl[f]) <= 1
    /\ clients \in [Servers -> Seq(Fds \cup {Ghost})]
    /\ watched \in [Servers -> SUBSET Fds]
    /\ maxfds \in [Servers -> Int]
    /\ readyforwrite \in [Servers -> BOOLEAN]
    /\ cur \in Servers
    /\ pc \in {"select", "accept", "iter"}
    /\ it \in Nat \ {0}
    /\ tmpread \in SUBSET (Fds \cup {Ghost})
    /\ tmpwrite \in SUBSET (Fds \cup {Ghost})
    /\ backlog \in [Servers -> Seq(Conns)]
    /\ conn \in [Conns -> {"new", "pending", "accepted", "aborted"}]
    /\ request \in [Conns -> AllKinds]
    /\ sent \in [Conns -> Nat]
    /\ rcvd \in [Conns -> Nat]
    /\ \A c \in Conns : rcvd[c] <= sent[c] /\ sent[c] <= Len(Stream(request[c]))
    /\ fin \in [Conns -> BOOLEAN]
    /\ unread \in [Conns -> 0 .. SndCap]
    /\ out \in [Conns -> Seq([by : Conns \cup {NoConn}, what : {"head", "body", "whole"}])]
    /\ inherited \subseteq Conns

(***************************************************************************)
(* The lists, the select sets and the table of descriptors agree, although *)
(* a client is closed in three places (a redirect, a destructor and        *)
(* DeleteClient) and numbers are reused at once: every listed client is an *)
(* open connection of its own, listed once, and just these and the         *)
(* listening socket are watched.                                           *)
(***************************************************************************)
WatchedAreListed ==
    \A s \in Servers : watched[s] = {ServerSocket(s)} \cup (Listed(s) \ {Ghost})

ListedAreOpen ==
    \A s \in Servers : \A f \in Listed(s) \ {Ghost} : fdt[f] \in Conns

ListedOnce ==
    \A s, r \in Servers : \A i \in DOMAIN clients[s], j \in DOMAIN clients[r] :
        clients[s][i] = clients[r][j] /\ clients[s][i] # Ghost => s = r /\ i = j

ClientsAreOpen == WatchedAreListed /\ ListedAreOpen /\ ListedOnce

(***************************************************************************)
(* However many clients are deleted, each with its --maxfds, the listening *)
(* socket stays within what select looks at: a server never goes deaf.     *)
(***************************************************************************)
ListenerWatched ==
    \A s \in Servers : fdt[ServerSocket(s)] = Listener /\ ServerSocket(s) <= maxfds[s]

(***************************************************************************)
(* No descriptor leaks: the descriptor of a file belongs to an entry of    *)
(* the map, and an open connection is in the list of a server.  Without    *)
(* the double close of the CGI also: to one entry only, and no entry has   *)
(* the number of something else.                                           *)
(***************************************************************************)
FileOf(f) == IF cl[f] = NoEntry THEN NoFd ELSE cl[f][1].file

NoLeak ==
    \A f \in Fds :
        /\ fdt[f] = File => \E g \in Fds : FileOf(g) = f
        /\ fdt[f] \in Conns => \E s \in Servers : f \in Listed(s)

FilesAreOwned ==
    \A f, g \in Fds :
        /\ FileOf(f) # NoFd => fdt[FileOf(f)] = File
        /\ FileOf(f) = FileOf(g) /\ f # g => FileOf(f) = NoFd

(***************************************************************************)
(* A connection is closed only in the turn of its own client.  Once a POST *)
(* has been sent to a script, a connection may also be closed in the turn  *)
(* of another client, by what that one's entry holds: the destructor of a  *)
(* script's entry closes numbers that have been closed before, which may   *)
(* be another client's by then, or the file of another entry; and that     *)
(* file's number may in turn be a client's when its entry closes it.       *)
(***************************************************************************)
Closed(f) == fdt[f] \in Conns /\ fdt'[f] # fdt[f]

ClosedByOwner ==
    [][\A f \in Fds : Closed(f) => f = clients[cur][it]]_vars

ClosedByOwnerOrCgi ==
    [][\A f \in Fds : Closed(f) =>
          LET g == clients[cur][it]
          IN  \/ f = g
              \/ /\ \E c \in Conns : request[c] = "cgipost"
                 /\ g \in Fds /\ cl[g] # NoEntry
                 /\ f \in cl[g][1].held \cup {cl[g][1].file}
      ]_vars

(***************************************************************************)
(* An entry outlives its client only when the client hung up in the middle *)
(* of its request or response, or its request ended in catch (...): a      *)
(* request line on which the parser throws, or an upload to a location     *)
(* without an upload_path (or that entry was itself such a leftover).      *)
(***************************************************************************)
StaleEntryCause ==
    \A f \in Fds : cl[f] # NoEntry /\ fdt[f] \notin Conns =>
        \A c \in cl[f][1].who :
            fin[c] \/ request[c] \in ThrowKinds \/ c \in inherited

(***************************************************************************)
(* Nobody is sent another client's response, except a connection that was  *)
(* accepted on the number of a client whose entry had stayed in the map.   *)
(***************************************************************************)
OwnResponse ==
    \A c \in Conns \ inherited : \A i \in DOMAIN out[c] : out[c][i].by = c

(***************************************************************************)
(* A connection carries at most one response, and its pieces in order: a   *)
(* complete message, or a head and then the blocks of the file; only the   *)
(* file that disappears in the middle puts an error page after them.       *)
(***************************************************************************)
What(c) == [i \in DOMAIN out[c] |-> out[c][i].what]

OneResponse ==
    \A c \in Conns \ inherited :
        \/ What(c) \in {<<>>, <<"whole">>}
        \/ \E n \in 0 .. NBlocks :
              LET sofar == <<"head">> \o [i \in 1 .. n |-> "body"]
              IN  What(c) \in {sofar, Append(sofar, "whole")}

(***************************************************************************)
(* A peer that does not hang up is closed by the server only after the     *)
(* last piece of a response: an error page, a redirect, or the last block. *)
(***************************************************************************)
Answered ==
    \A c \in Conns \ inherited :
        conn[c] = "accepted" /\ ~Open(c) /\ ~fin[c] =>
            /\ out[c] # <<>>
            /\ \/ Last(What(c)) = "whole"
               \/ Len(What(c)) = NBlocks + 1

(***************************************************************************)
(* The bytes recv took from the socket have reached the upload: the loop   *)
(* drops what it has received when the socket is not writable, but no      *)
(* upload loses a piece that way, nor is one counted twice.                *)
(***************************************************************************)
UploadExact ==
    \A f \in Fds :
        fdt[f] \in Conns \ inherited /\ cl[f] # NoEntry =>
            LET e == cl[f][1]
                c == fdt[f]
            IN  /\ e.start_read <=> rcvd[c] >= 2
                /\ e.start_read /\ e.owner = c /\ e.kind \in PostKinds =>
                      e.got = rcvd[c] - 2

(***************************************************************************)
(* With peers that send something before they close, with clients that are *)
(* never left above maxfds, and with enough descriptors, every connection  *)
(* is accepted, and then answered and closed; unless it was accepted on a  *)
(* number with an entry, whose request it may never complete.              *)
(***************************************************************************)
Cooperative == \A c \in Conns : fin[c] => sent[c] > 0
InReach == \A s \in Servers : watched[s] = Scanned(s)

Served(c) == conn[c] = "accepted" /\ ~Open(c)

NoStarvation ==
    [](Cooperative /\ InReach) => \A c \in Conns : conn[c] = "pending" ~> Served(c) \/ c \in inherited
-------------------------------------------------------------------------------
(***************************************************************************)
(* What the server promises to those who connect, see Service, is kept as  *)
(* long as no POST goes to a CGI script.                                   *)
(***************************************************************************)
State(c) ==
    IF conn[c] # "accepted" THEN conn[c] ELSE IF Open(c) THEN "open" ELSE "closed"

Promise == INSTANCE Service WITH
    state   <- [c \in Conns |-> State(c)],
    gone    <- fin,
    odd     <- {c \in Conns : request[c] \in ThrowKinds},
    spoiled <- inherited,
    reply   <- out

ImplementsService == Promise!Spec
===============================================================================
