---------------------------------- MODULE Get ----------------------------------
(***************************************************************************)
(* GET: get_method and send_response_200 of get_method/getMethod.cpp, for  *)
(* several clients of one server.  Each step is one call of get_method for *)
(* one of them: the first opens a file and sends the head, the later ones  *)
(* send a block each.  The list of a directory is written to a file whose  *)
(* name, /tmp/listing.html, all clients share.                             *)
(*                                                                         *)
(* The files of the locations do not change meanwhile, all of them can be  *)
(* read, and no index is a directory.  A file is a sequence of characters; *)
(* which, is told apart by where they come from.                           *)
(***************************************************************************)
EXTENDS Routing, SequencesExt

CONSTANTS
    Clients,
    Characters,     \* of files, lists and pages
    NameChars,      \* of names and paths
    Scenarios,      \* locations, page for 200, who asks for what, and a bound:
                    \* the clients with a send that fails or is short, or
                    \* with a directory that cannot be opened
    Disk,           \* what there is: kind and body of each name
    ListLen,        \* characters of a list
    Block,          \* cl::buffer_size
    MaxPages        \* bound: the length of the page, taken as often as it is tried

\* A location of the server: its name, its root, and what it allows.
Location ==
    [name : Seq(NameChars), root : Seq(NameChars), index : Seq(NameChars),
     get : BOOLEAN, autoindex : BOOLEAN, return : BOOLEAN, cgi : BOOLEAN, runs : BOOLEAN]

ListOf(c) == [i \in 1 .. ListLen |-> <<"list", c, i>>]
Pages(n) == [i \in 1 .. n |-> <<"page", i>>]

ASSUME GetAssumption ==
    /\ "/" \in NameChars /\ Block \in Nat \ {0} /\ ListLen \in Nat \ {0} /\ MaxPages \in Nat
    /\ \A s \in Scenarios :
         /\ s.locations \in Seq(Location) /\ Sorted(s.locations)
         /\ s.url \in [Clients -> Seq(NameChars)] /\ s.page \in Nat
    /\ \A n \in DOMAIN Disk : n # <<>> /\ Disk[n].body \in Seq(Characters)
    /\ \A c \in Clients : ListOf(c) \in Seq(Characters)
    /\ \A n \in 0 .. MaxPages : Pages(n) \in Seq(Characters)

VARIABLES
    locations, page, url, losses,   \* the scenario
    target,                 \* what each call finds for the path, see Resolve
    conn,                   \* "open", "closed" by the server, "left" by the peer
    answer,                 \* "none", the status sent, "run" (a script) or "crash"
    test2, test3,           \* the head was sent; the list was written
    stream,                 \* fileStream: what it reads, and how far it is
    announced, sent,        \* Content-Length, and the body so far
    lists, listing,         \* the files that were /tmp/listing.html; which one is now
    lost, joined            \* history: a send failed or was short, or there was no
                            \* list to write; whose list is not alone in its file

config == <<locations, page, url, losses, target>>
files == <<lists, listing, joined>>
vars == <<config, conn, answer, test2, test3, stream, announced, sent, files, lost>>

\* What a stream reads: a file of a location, or one of the lists, by number.
Closed == [list |-> 0, name |-> <<>>, at |-> 0]
OfFile(name) == [list |-> 0, name |-> name, at |-> 0]
OfList(n) == [list |-> n, name |-> <<>>, at |-> 0]
-------------------------------------------------------------------------------
\* A name as the file system sees it: slashes in a row are one.
Plain(p) ==
    LET kept == {i \in DOMAIN p : i = 1 \/ p[i] # "/" \/ p[i - 1] # "/"}
    IN  [i \in 1 .. Cardinality(kept) |->
            p[CHOOSE k \in kept : Cardinality({j \in kept : j <= k}) = i]]

Exists(p) == Plain(p) \in DOMAIN Disk
IsDirectory(p) == Disk[Plain(p)].kind = "dir"
EndsWithSlash(p) == p # <<>> /\ p[Len(p)] = "/"

Does(what, name) == [does |-> what, name |-> name]

\* A file is sent, or run when its location has a program for it.
SendOrRun(l, p) == IF l.cgi /\ l.runs THEN Does("run", p) ELSE Does("file", p)

\* A directory, with the rights of location l: its index, its list, or neither.
\* Where scripts do not run, the name of the index is appended twice.
Directory(l, p) ==
    LET index == p \o Slash \o l.index
    IN  CASE l.index # <<>> /\ l.cgi  -> SendOrRun(l, index)
          [] l.index # <<>> /\ ~l.cgi -> Does("file", index \o Slash \o l.index)
          [] OTHER -> Does(IF l.autoindex THEN "list" ELSE "403", p)

(***************************************************************************)
(* What get_method does with a path: an error, a redirect, a file, a list. *)
(* Rights, index and autoindex are those of the last matching location,    *)
(* root and return those of the first; strlen of a return that is not      *)
(* there crashes.                                                          *)
(***************************************************************************)
Resolve(locs, p) ==
    LET location == locs[GetLocation(locs, WithoutQuery(p))]
        it       == locs[LoopLocation(locs, p)]
        new_path == LoopPath(locs, p)
    IN  IF Matches(locs, WithoutQuery(p)) = {} THEN Does("404", p)
        ELSE IF ~location.get THEN Does("405", p)
        ELSE IF EndsWithSlash(p) THEN Does("301", p)
        ELSE IF ~Exists(new_path) THEN Does("404", p)
        ELSE IF it.return THEN Does(IF location.return THEN "301" ELSE "crash", p)
        ELSE IF IsDirectory(new_path) THEN Directory(location, new_path)
        ELSE SendOrRun(location, new_path)

Body(s, ls) ==
    IF s.list # 0 THEN ls[s.list]
    ELSE IF s.name = <<>> THEN <<>> ELSE Disk[s.name].body

\* What a send does: all, some, or nothing of what it is given.
Sends == {"whole", "short", "fails"}
SentOf(how, b) ==
    CASE how = "whole" -> {b}
      [] how = "short" -> {Take(b, n) : n \in 0 .. Len(b) - 1}
      [] how = "fails" -> {<<>>}

Lose(c, how) ==
    /\ lost' = IF how = "whole" THEN lost ELSE lost \cup {c}
    /\ Cardinality(lost') <= losses

\* A throw, or a redirect: an answer without a file; the entry is erased.
Refuse(c, status) ==
    /\ answer' = [answer EXCEPT ![c] = status]
    /\ conn' = [conn EXCEPT ![c] = "closed"]
    /\ stream' = [stream EXCEPT ![c] = Closed]
    /\ UNCHANGED <<test2, announced, sent, lost>>

(***************************************************************************)
(* send_response_200, the first call.  Where there is a page for 200,      *)
(* set_Status appends it to the body that the head takes along, once more  *)
(* at each try, and overwrites the length.                                 *)
(***************************************************************************)
SendHead(c, s, ls) ==
    LET body == IF page > 0 THEN announced[c] + page ELSE 0
    IN  \E how \in Sends : \E piece \in SentOf(how, Pages(body)) \cup {<<>>} :
          /\ body <= MaxPages
          /\ how = "whole" => piece = Pages(body)
          /\ Lose(c, how)
          /\ announced' = [announced EXCEPT ![c] = IF page > 0 THEN body ELSE Len(Body(s, ls))]
          /\ UNCHANGED conn
          /\ IF how = "fails"
             THEN /\ stream' = [stream EXCEPT ![c] = Closed]
                  /\ UNCHANGED <<answer, test2, sent>>
             ELSE /\ stream' = [stream EXCEPT ![c] = s]
                  /\ answer' = [answer EXCEPT ![c] = "200"]
                  /\ test2' = [test2 EXCEPT ![c] = TRUE]
                  /\ sent' = [sent EXCEPT ![c] = piece]

\* Mutant of GCount: the buffer is sent, not what was read.
GCountWhole(b, at) == [i \in 1 .. Block |-> IF at + i <= Len(b) THEN b[at + i] ELSE <<"old">>]
GCount(b, at) == SubSeq(b, at + 1, Min({at + Block, Len(b)}))

\* The read met the end: less than a block was left, or the stream is closed.
Eof(b, at) == at + Block > Len(b)

\* Mutant of Removed: the list stays.
KeptListing(c) == listing
Removed(c) == 0

\* Another call: a block, and after the last one the end.
NextBlock(c) ==
    LET b == Body(stream[c], lists)
        isList == target[c].does = "list"
    IN  \E how \in Sends : \E piece \in SentOf(how, GCount(b, stream[c].at)) :
          /\ Lose(c, how)
          /\ sent' = [sent EXCEPT ![c] = @ \o piece]
          /\ IF how # "fails" /\ Eof(b, stream[c].at)
             THEN /\ conn' = [conn EXCEPT ![c] = "closed"]
                  /\ stream' = [stream EXCEPT ![c] = Closed]
                  /\ listing' = IF isList THEN Removed(c) ELSE listing
             ELSE /\ stream' = IF how = "fails" THEN [stream EXCEPT ![c] = Closed]
                               ELSE [stream EXCEPT ![c].at = @ + Block]
                  /\ UNCHANGED <<conn, listing>>
          /\ UNCHANGED <<answer, test2, announced>>

\* Mutant of Appended: the file is opened without std::ios::app.
Truncated(old, list) == list
Appended(old, list) == old \o list

\* The list is appended to the file, which is made if there is none.
WriteList(c) ==
    /\ test3' = [test3 EXCEPT ![c] = TRUE]
    /\ IF test3[c] THEN UNCHANGED files
       ELSE IF listing = 0
       THEN /\ lists' = Append(lists, ListOf(c)) /\ listing' = Len(lists')
            /\ UNCHANGED joined
       ELSE /\ lists' = [lists EXCEPT ![listing] = Appended(@, ListOf(c))] /\ UNCHANGED listing
            /\ joined' = joined \cup {c} \cup {d \in Clients : stream[d].list = listing}

(***************************************************************************)
(* No list: the file cannot be opened, and the next call tries again; or   *)
(* the directory cannot, and the next call sends the file as it is then.   *)
(* Either way this call returns without an answer.                         *)
(***************************************************************************)
ListFails(c) ==
    /\ ~test3[c]
    /\ \/ UNCHANGED <<test3, lists, listing, lost>>
       \/ /\ test3' = [test3 EXCEPT ![c] = TRUE]
          /\ lost' = lost \cup {c} /\ Cardinality(lost') <= losses
          /\ IF listing = 0 THEN lists' = Append(lists, <<>>) /\ listing' = Len(lists')
             ELSE UNCHANGED <<lists, listing>>
    /\ UNCHANGED <<conn, answer, test2, stream, announced, sent, joined>>

GetMethod(c) ==
    /\ conn[c] = "open" /\ \A d \in Clients : answer[d] # "crash"
    /\ LET r == target[c]
       IN  CASE r.does = "file" ->
                  /\ UNCHANGED <<test3, lists, joined>>
                  /\ IF test2[c] THEN NextBlock(c)
                     ELSE /\ UNCHANGED listing
                          /\ IF Exists(r.name)
                             THEN SendHead(c, OfFile(Plain(r.name)), lists) ELSE Refuse(c, "404")
             [] r.does = "list" /\ ~test2[c] ->
                  \/ ListFails(c)
                  \/ /\ WriteList(c)
                     /\ IF listing' = 0 THEN Refuse(c, "404")
                        ELSE SendHead(c, OfList(listing'), lists')
             [] r.does = "list" /\ test2[c] ->
                  NextBlock(c) /\ UNCHANGED <<test3, lists, joined>>
             [] OTHER -> Refuse(c, r.does) /\ UNCHANGED <<test3, files>>
    /\ UNCHANGED config

\* The peer has closed: the client is deleted, its entry and its stream stay.
HangUp(c) ==
    /\ conn[c] = "open" /\ conn' = [conn EXCEPT ![c] = "left"]
    /\ UNCHANGED <<config, answer, test2, test3, stream, announced, sent, files, lost>>

Init ==
    /\ \E s \in Scenarios :
         locations = s.locations /\ page = s.page /\ url = s.url /\ losses = s.losses
    /\ target = [c \in Clients |-> Resolve(locations, url[c])]
    /\ conn = [c \in Clients |-> IF url[c] = <<>> THEN "closed" ELSE "open"]
    /\ answer = [c \in Clients |-> "none"]
    /\ test2 = [c \in Clients |-> FALSE] /\ test3 = [c \in Clients |-> FALSE]
    /\ stream = [c \in Clients |-> Closed]
    /\ announced = [c \in Clients |-> 0] /\ sent = [c \in Clients |-> <<>>]
    /\ lists = <<>> /\ listing = 0 /\ lost = {} /\ joined = {}

Next == \E c \in Clients : GetMethod(c) \/ HangUp(c)

Spec == Init /\ [][Next]_vars
-------------------------------------------------------------------------------
Actions == {"301", "403", "404", "405", "run", "crash", "file", "list"}
Statuses == {"none", "200", "301", "403", "404", "405", "run", "crash"}

TypeOK ==
    /\ page \in Nat /\ DOMAIN target = Clients /\ \A c \in Clients : target[c].does \in Actions
    /\ conn \in [Clients -> {"open", "closed", "left"}] /\ answer \in [Clients -> Statuses]
    /\ test2 \in [Clients -> BOOLEAN] /\ test3 \in [Clients -> BOOLEAN]
    /\ stream \in [Clients -> [list : 0 .. Len(lists), name : {<<>>} \cup DOMAIN Disk, at : Nat]]
    /\ announced \in [Clients -> Nat] /\ sent \in [Clients -> Seq(Characters)]
    /\ lists \in Seq(Seq(Characters)) /\ listing \in 0 .. Len(lists)
    /\ lost \subseteq Clients /\ joined \subseteq Clients

Done(c) == conn[c] = "closed" /\ answer[c] = "200" /\ c \notin lost

(***************************************************************************)
(* An answer with a file that went through without a failing or short send *)
(* has the file's characters, all of them once and in order, and as many   *)
(* as were announced, even when their number is a multiple of the block;   *)
(* with a page for status 200, the page comes first and only its length is *)
(* announced.                                                              *)
(***************************************************************************)
BodyAsAnnounced ==
    \A c \in Clients :
        Done(c) /\ target[c].does = "file" =>
            /\ sent[c] = Pages(page) \o Disk[Plain(target[c].name)].body
            /\ announced[c] = IF page > 0 THEN page ELSE Len(sent[c])

(***************************************************************************)
(* The list a client gets, if its directory could be opened and its sends  *)
(* went through, has its own list in one piece, and is nothing but that    *)
(* unless another client's was written to the same file before or          *)
(* meanwhile; that another one's directory could not be opened makes no    *)
(* difference.                                                             *)
(***************************************************************************)
ListingIsOwn ==
    \A c \in Clients :
        Done(c) /\ target[c].does = "list" =>
            /\ Finds(sent[c], ListOf(c)) # {}
            /\ c \notin joined => sent[c] = Pages(page) \o ListOf(c)

(***************************************************************************)
(* /tmp/listing.html is there only while somebody who opened it to write   *)
(* is being answered, or because one of them left before the end.          *)
(***************************************************************************)
ListingFileCause ==
    listing # 0 => \E c \in Clients : test3[c] /\ conn[c] \in {"open", "left"}

(***************************************************************************)
(* Rights are those of a location with a longest name among those that     *)
(* occur in the path.  When only one name occurs in it, at the beginning   *)
(* and as a whole step of the path, then GET looks at the file that POST   *)
(* and DELETE look at.  A redirect crashes only when two names occur.      *)
(***************************************************************************)
RoutesAgree ==
    \A c \in Clients :
        LET p == url[c]
            names == Matches(locations, p)
            l == locations[GetLocation(locations, WithoutQuery(p))]
            rest == Drop(p, Len(l.name))
        IN  Matches(locations, WithoutQuery(p)) # {} =>
              /\ \A i \in Matches(locations, WithoutQuery(p)) :
                    Len(locations[i].name) <= Len(l.name)
              /\ Cardinality(names) = 1 /\ IsAt(p, l.name, 1) /\ WithoutQuery(p) = p
                 /\ (rest = <<>> \/ rest[1] = "/") =>
                    Plain(LoopPath(locations, p) \o Slash) = Plain(GetPath(locations, p) \o Slash)
              /\ answer[c] = "crash" => Cardinality(names) > 1
===============================================================================
