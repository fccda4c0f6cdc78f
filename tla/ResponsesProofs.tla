--------------------------- MODULE ResponsesProofs ----------------------------
(***************************************************************************)
(* Who is answered, with what, and when: when no POST goes to a CGI        *)
(* script, a connection that was accepted on a number without an entry is  *)
(* sent its own response, once, in order and to the end, and its upload    *)
(* gets every unit that recv has returned; for any number of servers,      *)
(* connections, descriptors, blocks and units.                             *)
(***************************************************************************)
EXTENDS WebserverProofs

(***************************************************************************)
(* Connections: one that is open has one number; one that is queued is     *)
(* queued once; and before it is accepted nothing has happened to it.      *)
(***************************************************************************)
ConnsInv ==
    /\ \A f, g \in Fds : fdt[f] \in Conns /\ fdt[f] = fdt[g] => f = g
    /\ \A f \in Fds : fdt[f] \in Conns => conn[fdt[f]] = "accepted"
    /\ \A s \in Servers : \A i \in DOMAIN backlog[s] : conn[backlog[s][i]] = "pending"
    /\ \A s, r \in Servers : \A i \in DOMAIN backlog[s], j \in DOMAIN backlog[r] :
          backlog[s][i] = backlog[r][j] => s = r /\ i = j
    /\ \A c \in Conns : conn[c] # "accepted" =>
          rcvd[c] = 0 /\ out[c] = <<>> /\ c \notin inherited

(***************************************************************************)
(* Entries: one has seen the bytes of the connection that has its number,  *)
(* and of such as may leave an entry behind; and while one stays without a *)
(* client, some connection was closed that may leave one.                  *)
(***************************************************************************)
Excused(v) == fin[v] \/ request[v] \in ThrowKinds \/ v \in inherited

SeenOfExcused ==
    \A f \in Fds : cl[f] # NoEntry =>
        \A v \in cl[f][1].who : conn[v] = "accepted" /\ (v # fdt[f] => Excused(v))

ClosedExcused(v) == conn[v] = "accepted" /\ ~Open(v) /\ Excused(v)

LeftByExcused ==
    \A f \in Fds : cl[f] # NoEntry /\ fdt[f] \notin Conns =>
        \E v \in Conns : ClosedExcused(v)

EntryCause == SeenOfExcused /\ LeftByExcused

(***************************************************************************)
(* Responses: what has been sent to c are the first pieces of a response,  *)
(* as many as the entry of c has counted.  A peer that has gone is not     *)
(* sent anything any more, though its entry goes on counting.              *)
(***************************************************************************)
InOrder(c, n) ==
    \A i \in 1 .. n : out[c][i].what = IF i = 1 THEN "head" ELSE "body"

Serves(e, c) ==
    /\ OwnEntry(e, c)
    /\ e.kind # "postthrow"
    /\ e.start_read <=> rcvd[c] >= 2
    /\ e.kind \in PostKinds => e.got = rcvd[c] - 2
    /\ out[c] # <<>> => e.step > 0
    /\ ~fin[c] => Len(out[c]) = e.step /\ InOrder(c, e.step) /\ FileAtHand(e)

ServesInv == \A f \in Fds : fdt[f] \in Conns \ inherited => Serves(EntryAt(f), fdt[f])

\* What has been sent to c, whether or not c is still there.
OutOK(c) ==
    /\ unread[c] > 0 => out[c] # <<>>
    /\ \A i \in DOMAIN out[c] : out[c][i].by = c
    /\ \E n \in 0 .. NBlocks + 1 :
          /\ InOrder(c, n)
          /\ \/ Len(out[c]) = n
             \/ Len(out[c]) = n + 1 /\ out[c][n + 1].what = "whole"

\* A peer that has not hung up is closed after the last piece.
Ended(c) ==
    conn[c] = "accepted" /\ ~Open(c) /\ ~fin[c] =>
        /\ Len(out[c]) > 0
        /\ out[c][Len(out[c])].what = "whole" \/ Len(out[c]) = NBlocks + 1

SentInv == \A c \in Conns \ inherited : OutOK(c) /\ Ended(c)

(***************************************************************************)
(* The clients whose turn in this pass is still to come: what select has   *)
(* said of them is still true when their turn comes.  So recv fails only   *)
(* on a peer that has gone, and what it returns for a socket that cannot   *)
(* be written comes after a response has begun.                            *)
(***************************************************************************)
Turns == {clients[cur][i] : i \in it .. Len(clients[cur])}

TurnsInv ==
    \A f \in Turns \cap tmpread : f \in Fds /\ fdt[f] \in Conns =>
        /\ Available(fdt[f]) > 0 \/ fin[fdt[f]]
        /\ f \notin tmpwrite /\ fdt[f] \notin inherited => out[fdt[f]] # <<>>

ResponsesInv == Inv /\ ConnsInv /\ EntryCause /\ ServesInv /\ SentInv /\ TurnsInv

-------------------------------------------------------------------------------
\* The pieces in order, and no end before the last: as the properties say it.
LEMMA SentInOrder ==
    ASSUME TypeOK, SentInv
    PROVE  OwnResponse /\ OneResponse /\ Answered
<1>1. out \in [Conns -> Seq([by : Conns \cup {NoConn}, what : {"head", "body", "whole"}])]
  BY DEF TypeOK
<1>2. OwnResponse
  BY DEF SentInv, OutOK, OwnResponse
<1>3. ASSUME NEW c \in Conns
      PROVE  /\ What(c) = [i \in 1 .. Len(out[c]) |-> out[c][i].what]
             /\ What(c) \in Seq({"head", "body", "whole"})
             /\ Len(What(c)) = Len(out[c]) /\ Len(out[c]) \in Nat
  <2> DEFINE o == out[c]
             T == [by : Conns \cup {NoConn}, what : {"head", "body", "whole"}]
  <2>1. o \in Seq(T)
    BY <1>1
  <2>2. What(c) = [i \in DOMAIN o |-> o[i].what]
    BY DEF What
  <2> HIDE DEF o, T
  <2>3. Len(o) \in Nat /\ DOMAIN o = 1 .. Len(o) /\ \A i \in 1 .. Len(o) : o[i] \in T
    BY <2>1
  <2>4. \A i \in 1 .. Len(o) : o[i].what \in {"head", "body", "whole"}
    BY <2>3 DEF T
  <2>5. [i \in 1 .. Len(o) |-> o[i].what] \in Seq({"head", "body", "whole"})
    BY <2>3, <2>4
  <2>6. Len([i \in 1 .. Len(o) |-> o[i].what]) = Len(o)
    BY <2>3, <2>4
  <2> QED
    BY <2>2, <2>3, <2>5, <2>6 DEF o
<1>4. ASSUME NEW c \in Conns \ inherited
      PROVE  \/ What(c) \in {<<>>, <<"whole">>}
             \/ \E n \in 0 .. NBlocks :
                   LET sofar == <<"head">> \o [i \in 1 .. n |-> "body"]
                   IN  What(c) \in {sofar, Append(sofar, "whole")}
  <2> DEFINE w == What(c)
  <2>1. PICK n \in 0 .. NBlocks + 1 :
          /\ InOrder(c, n)
          /\ \/ Len(out[c]) = n
             \/ Len(out[c]) = n + 1 /\ out[c][n + 1].what = "whole"
    BY DEF SentInv, OutOK
  <2>2. /\ w \in Seq({"head", "body", "whole"})
        /\ \A i \in 1 .. n : w[i] = IF i = 1 THEN "head" ELSE "body"
        /\ Len(w) = n \/ (Len(w) = n + 1 /\ w[n + 1] = "whole")
        /\ n \in Nat /\ NBlocks \in Nat
    BY <1>3, <2>1, HandlingAssumption DEF InOrder
  <2> HIDE DEF w
  <2>3. CASE n = 0
    <3>1. w = <<>> \/ w = <<"whole">>
      BY <2>2, <2>3
    <3> QED
      BY <3>1 DEF w
  <2>4. CASE n > 0
    <3> DEFINE b == [i \in 1 .. n - 1 |-> "body"]
               s == <<"head">> \o b
    <3>1. b \in Seq({"head", "body", "whole"}) /\ Len(b) = n - 1
          /\ \A i \in 1 .. n - 1 : b[i] = "body"
      BY <2>2, <2>4
    <3> HIDE DEF b
    <3>2. s \in Seq({"head", "body", "whole"}) /\ Len(s) = n
          /\ \A i \in 1 .. n : s[i] = IF i = 1 THEN "head" ELSE "body"
      BY <2>2, <2>4, <3>1
    <3> HIDE DEF s
    <3>3. Len(w) = n => w = s
      BY <2>2, <3>2, SeqEqual
    <3>4. ASSUME Len(w) = n + 1, w[n + 1] = "whole"
          PROVE  w = Append(s, "whole")
      <4> DEFINE a == Append(s, "whole")
      <4>1. a \in Seq({"head", "body", "whole"}) /\ Len(a) = n + 1
            /\ \A i \in 1 .. n + 1 : a[i] = IF i = n + 1 THEN "whole" ELSE s[i]
        BY <2>2, <3>2
      <4>2. w = a
        <5> HIDE DEF a
        <5> QED
          BY <2>2, <3>2, <3>4, <4>1, SeqEqual
      <4> QED
        BY <4>2
    <3>5. w \in {s, Append(s, "whole")}
      BY <2>2, <3>3, <3>4
    <3>6. n - 1 \in 0 .. NBlocks
      BY <2>2, <2>4
    <3> QED
      BY <3>5, <3>6 DEF w, s, b
  <2>5. n = 0 \/ n > 0
    BY <2>2
  <2> QED
    BY <2>3, <2>4, <2>5
<1>5. OneResponse
  BY <1>4 DEF OneResponse
<1>6. Answered
  <2> SUFFICES ASSUME NEW c \in Conns \ inherited,
                      conn[c] = "accepted" /\ ~Open(c) /\ ~fin[c]
               PROVE  /\ out[c] # <<>>
                      /\ \/ Last(What(c)) = "whole"
                         \/ Len(What(c)) = NBlocks + 1
    BY DEF Answered
  <2>1. /\ Len(out[c]) > 0
        /\ out[c][Len(out[c])].what = "whole" \/ Len(out[c]) = NBlocks + 1
    BY DEF SentInv, Ended
  <2>2. Last(What(c)) = What(c)[Len(out[c])]
    BY <1>3 DEF Last
  <2>3. What(c)[Len(out[c])] = out[c][Len(out[c])].what
    BY <1>3, <2>1
  <2> QED
    BY <1>3, <2>1, <2>2, <2>3
<1> QED
  BY <1>2, <1>5, <1>6

\* An upload has what recv has returned.
LEMMA UploadsExact ==
    ASSUME Inv, ServesInv
    PROVE  UploadExact
<1> SUFFICES ASSUME NEW f \in Fds, fdt[f] \in Conns \ inherited, cl[f] # NoEntry
             PROVE  LET e == cl[f][1]
                        c == fdt[f]
                    IN  /\ e.start_read <=> rcvd[c] >= 2
                        /\ e.start_read /\ e.owner = c /\ e.kind \in PostKinds =>
                              e.got = rcvd[c] - 2
  BY DEF UploadExact
<1>1. Serves(cl[f][1], fdt[f])
  BY DEF ServesInv, EntryAt
<1> QED
  BY <1>1 DEF Serves

\* Nor does an entry stay behind without a cause.
LEMMA StaysForCause ==
    ASSUME TypeOK, EntryCause
    PROVE  StaleEntryCause
<1> SUFFICES ASSUME NEW f \in Fds, cl[f] # NoEntry, fdt[f] \notin Conns,
                    NEW c \in cl[f][1].who
             PROVE  Excused(c)
  BY DEF StaleEntryCause, Excused
<1>1. cl[f][1] \in Entry
  BY EntryAtType DEF EntryAt
<1>2. c \in Conns
  BY <1>1 DEF Entry
<1> QED
  BY <1>2 DEF EntryCause, SeenOfExcused

LEMMA ResponsesInit == Init => ResponsesInv
<1> SUFFICES ASSUME Init PROVE ResponsesInv
  OBVIOUS
<1>1. Inv
  BY InvInit
<1>2. \A f \in Fds : fdt[f] \notin Conns /\ cl[f] = NoEntry
  BY Distinct DEF Init
<1>3. ConnsInv
  BY <1>2 DEF Init, ConnsInv
<1>4. SentInv
  <2> SUFFICES ASSUME NEW c \in Conns PROVE OutOK(c) /\ Ended(c)
    BY DEF SentInv
  <2>1. 0 \in 0 .. NBlocks + 1
    BY HandlingAssumption
  <2> QED
    BY <2>1 DEF Init, OutOK, Ended, InOrder
<1> QED
  BY <1>1, <1>2, <1>3, <1>4 DEF Init, ResponsesInv, EntryCause, SeenOfExcused, LeftByExcused,
                                ServesInv, TurnsInv
-------------------------------------------------------------------------------
\* A peer that connects is nobody's yet; one that goes is excused.
LEMMA ResponsesPeers ==
    ASSUME ResponsesInv, Peer
    PROVE  ConnsInv' /\ EntryCause' /\ ServesInv' /\ SentInv' /\ TurnsInv'
<1>1. TypeOK /\ TypeInv
  BY DEF ResponsesInv, Inv, TypeInv
<1>2. /\ UNCHANGED <<fdt, cl, clients, cur, it, tmpread, tmpwrite, inherited, rcvd, out>>
  BY DEF Peer, Connect, Send, PeerClose, PeerRead, serverVars, listVars, loopVars
<1>3. /\ fdt \in [Fds -> Objects] /\ backlog \in [Servers -> Seq(Conns)]
      /\ conn \in [Conns -> {"new", "pending", "accepted", "aborted"}]
      /\ request \in [Conns -> AllKinds] /\ fin \in [Conns -> BOOLEAN]
      /\ sent \in [Conns -> Nat] /\ rcvd \in [Conns -> Nat]
      /\ unread \in [Conns -> 0 .. SndCap]
  BY <1>1 DEF TypeOK
<1>4. /\ ConnsInv /\ EntryCause /\ ServesInv /\ SentInv /\ TurnsInv
  BY DEF ResponsesInv
<1>5. /\ \A v \in Conns : conn[v] = "accepted" => conn'[v] = "accepted" /\ request'[v] = request[v]
      /\ \A v \in Conns : conn'[v] = "accepted" => conn[v] = "accepted"
      /\ \A v \in Conns : fin[v] => fin'[v]
      /\ \A v \in Conns : sent[v] <= sent'[v] /\ sent'[v] \in Nat
      /\ \A v \in Conns : unread'[v] > 0 => unread[v] > 0
  <2>1. CASE \E c \in Conns, s \in Servers, k \in Kinds : Connect(c, s, k)
    BY <1>3, <2>1 DEF Connect
  <2>2. CASE \E c \in Conns : Send(c)
    BY <1>3, <2>2 DEF Send
  <2>3. CASE \E c \in Conns : PeerClose(c)
    BY <1>3, <2>3 DEF PeerClose
  <2>4. CASE \E c \in Conns : PeerRead(c)
    BY <1>3, <2>4 DEF PeerRead
  <2> QED
    BY <2>1, <2>2, <2>3, <2>4 DEF Peer
<1>6. ConnsInv'
  <2>1. CASE UNCHANGED <<backlog, conn>>
    BY <1>2, <1>4, <2>1 DEF ConnsInv
  <2>2. CASE \E c \in Conns, s \in Servers, k \in Kinds : Connect(c, s, k)
    <3>1. PICK c \in Conns, s \in Servers :
            /\ conn[c] = "new" /\ conn' = [conn EXCEPT ![c] = "pending"]
            /\ backlog' = [backlog EXCEPT ![s] = Append(@, c)]
      BY <2>2 DEF Connect
    <3>2. \A r \in Servers : \A i \in DOMAIN backlog[r] : backlog[r][i] # c
      BY <1>4, <3>1 DEF ConnsInv
    <3>3. /\ \A r \in Servers : r # s => backlog'[r] = backlog[r]
          /\ backlog'[s] = Append(backlog[s], c)
      BY <1>3, <3>1
    <3>4. /\ DOMAIN backlog'[s] = 1 .. Len(backlog[s]) + 1
          /\ DOMAIN backlog[s] = 1 .. Len(backlog[s]) /\ Len(backlog[s]) \in Nat
          /\ \A i \in DOMAIN backlog[s] : backlog'[s][i] = backlog[s][i]
          /\ backlog'[s][Len(backlog[s]) + 1] = c
      BY <1>3, <3>3, SMTT(30)
    <3>5. \A r \in Servers : \A i \in DOMAIN backlog'[r] :
             \/ i \in DOMAIN backlog[r] /\ backlog'[r][i] = backlog[r][i]
             \/ r = s /\ i = Len(backlog[s]) + 1 /\ backlog'[r][i] = c
      BY <3>3, <3>4
    <3>6. \A r \in Servers : \A i \in DOMAIN backlog'[r] : conn'[backlog'[r][i]] = "pending"
      BY <1>3, <1>4, <3>1, <3>5 DEF ConnsInv
    <3>7. \A r, q \in Servers : \A i \in DOMAIN backlog'[r], j \in DOMAIN backlog'[q] :
             backlog'[r][i] = backlog'[q][j] => r = q /\ i = j
      BY <1>4, <3>2, <3>5 DEF ConnsInv
    <3>8. \A f \in Fds : fdt[f] \in Conns => conn'[fdt[f]] = "accepted"
      BY <1>4, <1>5 DEF ConnsInv
    <3>9. \A v \in Conns : conn'[v] # "accepted" => conn[v] # "accepted"
      BY <1>5
    <3> QED
      BY <1>2, <1>4, <3>6, <3>7, <3>8, <3>9 DEF ConnsInv
  <2> QED
    BY <2>1, <2>2 DEF Peer, Send, PeerClose, PeerRead
<1>7. LeftByExcused'
  <2>1. \A v \in Conns : ClosedExcused(v) => ClosedExcused(v)'
    BY <1>2, <1>5 DEF ClosedExcused, Open, Excused
  <2> QED
    BY <1>2, <1>4, <2>1 DEF EntryCause, LeftByExcused
<1>11. SeenOfExcused'
  <2> SUFFICES ASSUME NEW f \in Fds, cl[f] # NoEntry, NEW v \in cl[f][1].who
               PROVE  conn'[v] = "accepted" /\ (v # fdt[f] => Excused(v)')
    BY <1>2 DEF SeenOfExcused
  <2>1. cl[f][1] \in Entry
    BY <1>1, EntryAtType DEF EntryAt
  <2>2. v \in Conns
    BY <2>1 DEF Entry
  <2> QED
    BY <1>2, <1>4, <1>5, <2>2 DEF EntryCause, SeenOfExcused, Excused
<1>8. ServesInv'
  <2> SUFFICES ASSUME NEW f \in Fds, fdt[f] \in Conns \ inherited
               PROVE  Serves(EntryAt(f), fdt[f])'
    BY <1>2 DEF ServesInv
  <2>1. Serves(EntryAt(f), fdt[f])
    BY <1>4 DEF ServesInv
  <2>2. EntryAt(f)' = EntryAt(f) /\ fdt'[f] = fdt[f]
    BY <1>2 DEF EntryAt
  <2>3. ~fin'[fdt[f]] => ~fin[fdt[f]]
    BY <1>5
  <2> QED
    BY <1>2, <2>1, <2>2, <2>3 DEF Serves, InOrder
<1>9. SentInv'
  <2> SUFFICES ASSUME NEW c \in Conns \ inherited
               PROVE  OutOK(c)' /\ Ended(c)'
    BY <1>2 DEF SentInv
  <2>1. OutOK(c) /\ Ended(c)
    BY <1>4 DEF SentInv
  <2>2. OutOK(c)'
    BY <1>2, <1>5, <2>1 DEF OutOK, InOrder
  <2>3. Open(c)' <=> Open(c)
    BY <1>2 DEF Open
  <2> QED
    BY <1>2, <1>5, <2>1, <2>2, <2>3 DEF Ended
<1>10. TurnsInv'
  <2> SUFFICES ASSUME NEW f \in Turns \cap tmpread, f \in Fds /\ fdt[f] \in Conns
               PROVE  /\ Available(fdt[f])' > 0 \/ fin'[fdt[f]]
                      /\ f \notin tmpwrite /\ fdt[f] \notin inherited => out[fdt[f]] # <<>>
    BY <1>2 DEF TurnsInv, Turns, Available
  <2>1. Available(fdt[f]) > 0 => Available(fdt[f])' > 0
    BY <1>2, <1>3, <1>5 DEF Available
  <2> QED
    BY <1>4, <1>5, <2>1 DEF TurnsInv
<1> QED
  BY <1>6, <1>7, <1>8, <1>9, <1>10, <1>11 DEF EntryCause

\* A step that changes none of this.
LEMMA ResponsesFrame ==
    ASSUME ResponsesInv,
           UNCHANGED <<fdt, cl, request, inherited, rcvd, fin, unread, out, backlog, conn>>
    PROVE  ConnsInv' /\ EntryCause' /\ ServesInv' /\ SentInv'
<1>1. ConnsInv' /\ EntryCause'
  BY DEF ResponsesInv, ConnsInv, EntryCause, SeenOfExcused, LeftByExcused, ClosedExcused,
         Open, Excused
<1>2. ServesInv'
  BY DEF ResponsesInv, ServesInv, Serves, InOrder, EntryAt
<1>3. SentInv'
  BY DEF ResponsesInv, SentInv, OutOK, Ended, Open, InOrder
<1> QED
  BY <1>1, <1>2, <1>3

\* What select says is true.
LEMMA ResponsesSelect ==
    ASSUME ResponsesInv, Select \/ SelectFails
    PROVE  ConnsInv' /\ EntryCause' /\ ServesInv' /\ SentInv' /\ TurnsInv'
<1>1. Select
  BY NoSelectErr DEF SelectFails, ResponsesInv
<1>2. /\ tmpread' = {f \in Scanned(cur) : Readable(f)}
      /\ tmpwrite' = {f \in Scanned(cur) : Writable(f)}
      /\ UNCHANGED <<fdt, cl, listVars, cur, peerVars, inherited>>
  BY <1>1 DEF Select, StartPass
<1>3. TurnsInv'
  <2> SUFFICES ASSUME NEW f \in tmpread', f \in Fds /\ fdt[f] \in Conns
               PROVE  /\ Available(fdt[f]) > 0 \/ fin[fdt[f]]
                      /\ f \notin tmpwrite' /\ fdt[f] \notin inherited => out[fdt[f]] # <<>>
    BY <1>2 DEF TurnsInv, Available, peerVars
  <2>1. f \in Scanned(cur) /\ Readable(f)
    BY <1>2
  <2>2. Available(fdt[f]) > 0 \/ fin[fdt[f]]
    BY <2>1, Distinct DEF Readable
  <2>3. f \notin tmpwrite' => unread[fdt[f]] > 0
    <3>1. unread[fdt[f]] \in Nat /\ SndCap \in Nat \ {0}
      BY WebserverAssumption DEF ResponsesInv, Inv, TypeInv, TypeOK
    <3> QED
      BY <1>2, <2>1, <3>1 DEF Writable
  <2>4. unread[fdt[f]] > 0 /\ fdt[f] \notin inherited => out[fdt[f]] # <<>>
    BY DEF ResponsesInv, SentInv, OutOK
  <2> QED
    BY <2>2, <2>3, <2>4
<1> QED
  BY <1>2, <1>3, ResponsesFrame DEF peerVars

LEMMA ResponsesEndPass ==
    ASSUME ResponsesInv, EndPass
    PROVE  ConnsInv' /\ EntryCause' /\ ServesInv' /\ SentInv' /\ TurnsInv'
BY ResponsesFrame DEF EndPass, peerVars, TurnsInv
-------------------------------------------------------------------------------
LEMMA TailAt ==
    ASSUME NEW S, NEW q \in Seq(S), q # <<>>, NEW i \in DOMAIN Tail(q)
    PROVE  i \in Nat /\ i # 0 /\ i + 1 \in DOMAIN q /\ Tail(q)[i] = q[i + 1]
<1>1. DOMAIN Tail(q) = 1 .. Len(q) - 1 /\ DOMAIN q = 1 .. Len(q) /\ Len(q) \in Nat
  OBVIOUS
<1>2. i \in Nat /\ i # 0 /\ i + 1 \in DOMAIN q
  BY <1>1
<1> QED
  BY <1>1, <1>2

\* Taking the first connection off the queue.
LEMMA Dequeue ==
    ASSUME TypeOK, ConnsInv, backlog[cur] # <<>>, NEW d,
           conn' = [conn EXCEPT ![Head(backlog[cur])] = d],
           backlog' = [backlog EXCEPT ![cur] = Tail(@)]
    PROVE  /\ Head(backlog[cur]) \in Conns /\ conn[Head(backlog[cur])] = "pending"
           /\ \A s \in Servers : \A i \in DOMAIN backlog'[s] : conn'[backlog'[s][i]] = "pending"
           /\ \A s, r \in Servers : \A i \in DOMAIN backlog'[s], j \in DOMAIN backlog'[r] :
                 backlog'[s][i] = backlog'[r][j] => s = r /\ i = j
<1> DEFINE c == Head(backlog[cur])
<1>1. /\ cur \in Servers /\ backlog \in [Servers -> Seq(Conns)] /\ backlog[cur] # <<>>
      /\ conn \in [Conns -> {"new", "pending", "accepted", "aborted"}]
  BY DEF TypeOK
<1>2. /\ c \in Conns /\ 1 \in DOMAIN backlog[cur] /\ c = backlog[cur][1]
  BY <1>1
<1>3. conn[c] = "pending"
  BY <1>1, <1>2 DEF ConnsInv
<1>4. \A v \in Conns : v # c => conn'[v] = conn[v]
  BY <1>1
<1> HIDE DEF c
<1>5. \A s \in Servers : \A i \in DOMAIN backlog'[s] :
          LET j == IF s = cur THEN i + 1 ELSE i
          IN  /\ j \in DOMAIN backlog[s] /\ backlog'[s][i] = backlog[s][j]
              /\ backlog'[s][i] # c /\ i \in Nat
  <2> SUFFICES ASSUME NEW s \in Servers, NEW i \in DOMAIN backlog'[s]
               PROVE  LET j == IF s = cur THEN i + 1 ELSE i
                      IN  /\ j \in DOMAIN backlog[s] /\ backlog'[s][i] = backlog[s][j]
                          /\ backlog'[s][i] # c /\ i \in Nat
    OBVIOUS
  <2>1. CASE s = cur
    <3>1. backlog'[s] = Tail(backlog[s]) /\ backlog[s] \in Seq(Conns) /\ backlog[s] # <<>>
      BY <1>1, <2>1
    <3>2. i \in DOMAIN Tail(backlog[s])
      BY <3>1
    <3>3. i \in Nat /\ i # 0 /\ i + 1 \in DOMAIN backlog[s]
          /\ Tail(backlog[s])[i] = backlog[s][i + 1]
      BY <3>1, <3>2, TailAt
    <3>4. i + 1 # 1
      BY <3>3
    <3> QED
      BY <1>1, <1>2, <2>1, <3>1, <3>3, <3>4 DEF ConnsInv
  <2>2. CASE s # cur
    <3>1. backlog'[s] = backlog[s] /\ backlog[s] \in Seq(Conns)
      BY <1>1, <2>2
    <3>2. i \in DOMAIN backlog[s] /\ i \in Nat
      BY <3>1
    <3> QED
      BY <1>1, <1>2, <2>2, <3>1, <3>2 DEF ConnsInv
  <2> QED
    BY <2>1, <2>2
<1>6. \A s \in Servers : backlog'[s] \in Seq(Conns)
  BY <1>1
<1>7. ASSUME NEW s \in Servers, NEW i \in DOMAIN backlog'[s]
      PROVE  conn'[backlog'[s][i]] = "pending"
  <2>1. PICK j \in DOMAIN backlog[s] : backlog'[s][i] = backlog[s][j] /\ backlog'[s][i] # c
    BY <1>5
  <2>2. backlog'[s][i] \in Conns
    BY <1>6
  <2> QED
    BY <1>4, <2>1, <2>2 DEF ConnsInv
<1>8. ASSUME NEW s \in Servers, NEW r \in Servers,
             NEW i \in DOMAIN backlog'[s], NEW j \in DOMAIN backlog'[r],
             backlog'[s][i] = backlog'[r][j]
      PROVE  s = r /\ i = j
  <2> DEFINE a == IF s = cur THEN i + 1 ELSE i
             b == IF r = cur THEN j + 1 ELSE j
  <2>1. /\ a \in DOMAIN backlog[s] /\ b \in DOMAIN backlog[r]
        /\ backlog[s][a] = backlog[r][b] /\ i \in Nat /\ j \in Nat
    BY <1>5, <1>8
  <2>2. s = r /\ a = b
    <3> HIDE DEF a, b
    <3> QED
      BY <2>1 DEF ConnsInv
  <2> QED
    BY <2>1, <2>2
<1> QED
  BY <1>2, <1>3, <1>7, <1>8 DEF c

\* A new client comes last.
LEMMA TurnsAdd ==
    ASSUME TypeOK, NEW f \in Fds \cup {Ghost}, AddClient(cur, f)
    PROVE  Turns' \subseteq Turns \cup {f}
<1> DEFINE L == clients[cur]
<1>1. /\ L \in Seq(Fds \cup {Ghost}) /\ it \in Nat /\ 1 <= it /\ Len(L) \in Nat
  BY DEF TypeOK
<1>2. clients'[cur] = L \/ clients'[cur] = Append(L, f)
  BY AddClientList
<1>3. UNCHANGED <<cur, it>>
  BY DEF AddClient
<1>4. clients'[cur] = L => Turns' = Turns
  BY <1>3 DEF Turns
<1>5. ASSUME clients'[cur] = Append(L, f)
      PROVE  Turns' \subseteq Turns \cup {f}
  <2>1. Turns' = {Append(L, f)[i] : i \in it .. Len(Append(L, f))}
    BY <1>3, <1>5 DEF Turns
  <2>2. Turns = {L[i] : i \in it .. Len(L)}
    BY DEF Turns
  <2>3. /\ Len(Append(L, f)) = Len(L) + 1 /\ Append(L, f)[Len(L) + 1] = f
        /\ \A i \in 1 .. Len(L) : Append(L, f)[i] = L[i]
    BY <1>1
  <2> HIDE DEF L
  <2>4. /\ \A i \in it .. Len(L) + 1 : i = Len(L) + 1 \/ i \in it .. Len(L)
        /\ \A i \in it .. Len(L) : i \in 1 .. Len(L)
    BY <1>1
  <2> QED
    BY <2>1, <2>2, <2>3, <2>4
<1> QED
  BY <1>2, <1>4, <1>5

\* A new client has been sent nothing, and select has not spoken of it.
LEMMA ResponsesAccept ==
    ASSUME ResponsesInv, Accept
    PROVE  ConnsInv' /\ EntryCause' /\ ServesInv' /\ SentInv' /\ TurnsInv'
<1> DEFINE c == Head(backlog[cur])
           f == LowestFree(fdt)
           L == clients[cur]
<1>1. /\ TypeOK /\ cur \in Servers /\ pc = "accept"
      /\ backlog \in [Servers -> Seq(Conns)] /\ backlog[cur] # <<>>
      /\ conn \in [Conns -> {"new", "pending", "accepted", "aborted"}]
      /\ fdt \in Tables /\ L \in Seq(Fds \cup {Ghost})
      /\ clients \in [Servers -> Seq(Fds \cup {Ghost})]
  BY DEF Accept, ResponsesInv, Inv, TypeInv, TypeOK, Tables
<1>2. f \in Fds /\ fdt[f] = Free
  BY <1>1, LowestFreeIsFree DEF Accept, FreeFds
<1>3. /\ fdt' = Install(fdt, f, c) /\ conn' = [conn EXCEPT ![c] = "accepted"]
      /\ inherited' = IF cl[f] # NoEntry THEN inherited \cup {c} ELSE inherited
      /\ AddClient(cur, f)
      /\ backlog' = [backlog EXCEPT ![cur] = Tail(@)]
      /\ UNCHANGED <<cl, cur, it, tmpread, tmpwrite, request, sent, rcvd, fin, unread, out>>
  BY DEF Accept, AddClient
<1>4. /\ ConnsInv /\ EntryCause /\ ServesInv /\ SentInv /\ TurnsInv /\ Inv
  BY DEF ResponsesInv
<1> HIDE DEF f
<1>5. /\ c \in Conns /\ conn[c] = "pending"
      /\ \A s \in Servers : \A i \in DOMAIN backlog'[s] : conn'[backlog'[s][i]] = "pending"
      /\ \A s, r \in Servers : \A i \in DOMAIN backlog'[s], j \in DOMAIN backlog'[r] :
            backlog'[s][i] = backlog'[r][j] => s = r /\ i = j
  BY <1>1, <1>3, <1>4, Dequeue
<1> HIDE DEF c
<1>7. /\ \A g \in Fds : fdt[g] # c
      /\ rcvd[c] = 0 /\ out[c] = <<>> /\ c \notin inherited
  BY <1>4, <1>5 DEF ConnsInv
<1>8. \A g \in Fds : fdt'[g] = IF g = f THEN c ELSE fdt[g]
  BY <1>3 DEF Install
<1>9. \A v \in Conns : conn'[v] = IF v = c THEN "accepted" ELSE conn[v]
  BY <1>1, <1>3, <1>5
<1>12. ConnsInv'
  <2>3. \A g, k \in Fds : fdt'[g] \in Conns /\ fdt'[g] = fdt'[k] => g = k
    BY <1>4, <1>7, <1>8 DEF ConnsInv
  <2>4. \A g \in Fds : fdt'[g] \in Conns => conn'[fdt'[g]] = "accepted"
    BY <1>4, <1>8, <1>9 DEF ConnsInv
  <2>5. \A v \in Conns : conn'[v] # "accepted" =>
          rcvd'[v] = 0 /\ out'[v] = <<>> /\ v \notin inherited'
    BY <1>3, <1>4, <1>9 DEF ConnsInv
  <2> QED
    BY <1>5, <2>3, <2>4, <2>5 DEF ConnsInv
<1>11. LeftByExcused'
  <2>1. ASSUME NEW v \in Conns, ClosedExcused(v)
        PROVE  ClosedExcused(v)'
    <3>1. v # c
      BY <1>5, <2>1 DEF ClosedExcused
    <3>2. ~Open(v)' /\ conn'[v] = "accepted"
      BY <1>8, <1>9, <2>1, <3>1 DEF ClosedExcused, Open
    <3>3. Excused(v)'
      BY <1>3, <2>1 DEF ClosedExcused, Excused
    <3> QED
      BY <3>2, <3>3 DEF ClosedExcused
  <2>2. ASSUME NEW g \in Fds, cl'[g] # NoEntry, fdt'[g] \notin Conns
        PROVE  cl[g] # NoEntry /\ fdt[g] \notin Conns
    BY <1>3, <1>5, <1>8, <2>2
  <2> QED
    BY <1>4, <2>1, <2>2 DEF EntryCause, LeftByExcused
<1>13. SeenOfExcused'
  <2> SUFFICES ASSUME NEW g \in Fds, cl[g] # NoEntry, NEW v \in cl[g][1].who
               PROVE  conn'[v] = "accepted" /\ (v # fdt'[g] => Excused(v)')
    BY <1>3 DEF SeenOfExcused
  <2>1. cl[g][1] \in Entry
    BY <1>1, EntryAtType DEF EntryAt
  <2>2. v \in Conns
    BY <2>1 DEF Entry
  <2>3. conn[v] = "accepted" /\ (v # fdt[g] => Excused(v))
    BY <1>4 DEF EntryCause, SeenOfExcused
  <2>4. Excused(v) => Excused(v)'
    BY <1>3 DEF Excused
  <2>5. v # fdt'[g] => v # fdt[g]
    BY <1>2, <1>8, <2>2, Distinct
  <2> QED
    BY <1>9, <2>2, <2>3, <2>4, <2>5
<1>14. inherited \subseteq inherited'
  BY <1>3
<1>15. ServesInv'
  <2> SUFFICES ASSUME NEW g \in Fds, fdt'[g] \in Conns \ inherited'
               PROVE  Serves(EntryAt(g), fdt[g])'
    BY DEF ServesInv
  <2>1. EntryAt(g)' = EntryAt(g)
    BY <1>3 DEF EntryAt
  <2>2. CASE g # f
    <3>1. fdt'[g] = fdt[g] /\ Serves(EntryAt(g), fdt[g])
      BY <1>4, <1>8, <1>14, <2>2 DEF ServesInv
    <3> QED
      BY <1>3, <2>1, <3>1 DEF Serves, InOrder
  <2>3. CASE g = f
    <3>1. cl[f] = NoEntry /\ fdt'[g] = c
      BY <1>3, <1>5, <1>8, <2>3
    <3>2. EntryAt(g)' = NewEntry
      BY <2>1, <2>3, <3>1 DEF EntryAt
    <3>3. /\ ~NewEntry.start_read /\ ~NewEntry.post_end /\ NewEntry.who = {}
          /\ NewEntry.got = 0 /\ NewEntry.kind = "status" /\ NewEntry.step = 0
      BY DEF NewEntry
    <3>4. "status" \notin PostKinds
      BY DEF PostKinds
    <3> QED
      BY <1>3, <1>7, <3>1, <3>2, <3>3, <3>4 DEF Serves, InOrder, OwnEntry, FileAtHand
  <2> QED
    BY <2>2, <2>3
<1>16. SentInv'
  <2> SUFFICES ASSUME NEW v \in Conns \ inherited'
               PROVE  OutOK(v)' /\ Ended(v)'
    BY DEF SentInv
  <2>1. OutOK(v) /\ Ended(v)
    BY <1>4, <1>14 DEF SentInv
  <2>2. OutOK(v)'
    BY <1>3, <2>1 DEF OutOK, InOrder
  <2>3. v # c => (Open(v)' <=> Open(v)) /\ conn'[v] = conn[v]
    BY <1>2, <1>8, <1>9, Distinct DEF Open
  <2>4. v = c => Open(v)'
    BY <1>2, <1>8 DEF Open
  <2> QED
    BY <1>3, <2>1, <2>2, <2>3, <2>4 DEF Ended
<1>17. TurnsInv'
  <2>1. f \notin tmpread
    <3>1. f \notin watched[cur]
      <4>1. f # ServerSocket(cur)
        BY <1>1, <1>2, <1>4, Distinct DEF Inv, SocketsInv, ListenerWatched
      <4>2. f \notin Listed(cur) \ {Ghost}
        BY <1>1, <1>2, <1>4, Distinct DEF Inv, SocketsInv, ClientsAreOpen, ListedAreOpen
      <4> QED
        BY <1>1, <1>4, <4>1, <4>2 DEF Inv, SocketsInv, ClientsAreOpen, WatchedAreListed
    <3> QED
      BY <1>1, <1>4, <3>1 DEF Inv, SocketsInv
  <2>2. Turns' \subseteq Turns \cup {f}
    BY <1>1, <1>2, <1>3, TurnsAdd
  <2> SUFFICES ASSUME NEW g \in Turns' \cap tmpread', g \in Fds, fdt'[g] \in Conns
               PROVE  /\ Available(fdt[g])' > 0 \/ fin'[fdt'[g]]
                      /\ g \notin tmpwrite' /\ fdt'[g] \notin inherited' => out'[fdt'[g]] # <<>>
    BY DEF TurnsInv, Available
  <2>3. g # f /\ g # Ghost
    BY <1>3, <2>1, Distinct DEF Ghost
  <2>4. fdt'[g] = fdt[g]
    BY <1>8, <2>3
  <2>5. g \in Turns \cap tmpread
    BY <1>3, <2>2, <2>3
  <2> QED
    BY <1>3, <1>4, <1>14, <2>4, <2>5 DEF TurnsInv, Available
<1> QED
  BY <1>11, <1>12, <1>13, <1>15, <1>16, <1>17 DEF EntryCause

\* A connection that is aborted in the queue, or none at all.
LEMMA ResponsesNoAccept ==
    ASSUME ResponsesInv, AcceptFails \/ AcceptAborted
    PROVE  ConnsInv' /\ EntryCause' /\ ServesInv' /\ SentInv' /\ TurnsInv'
<1>1. /\ AddClient(cur, Ghost)
      /\ UNCHANGED <<fdt, cl, cur, it, tmpread, tmpwrite, inherited, request, sent,
                     rcvd, fin, unread, out>>
  BY DEF AcceptFails, AcceptAborted, AddClient, peerVars
<1>2. /\ TypeOK /\ ConnsInv /\ EntryCause /\ ServesInv /\ SentInv /\ TurnsInv
      /\ conn \in [Conns -> {"new", "pending", "accepted", "aborted"}]
  BY DEF ResponsesInv, Inv, TypeInv, TypeOK
<1>3. TurnsInv'
  <2>1. Turns' \subseteq Turns \cup {Ghost}
    BY <1>1, <1>2, TurnsAdd
  <2>2. Ghost \notin Fds
    BY Distinct DEF Ghost
  <2> SUFFICES ASSUME NEW g \in Turns' \cap tmpread, g \in Fds, fdt[g] \in Conns
               PROVE  /\ Available(fdt[g]) > 0 \/ fin[fdt[g]]
                      /\ g \notin tmpwrite /\ fdt[g] \notin inherited => out[fdt[g]] # <<>>
    BY <1>1 DEF TurnsInv, Available
  <2> QED
    BY <1>2, <2>1, <2>2 DEF TurnsInv
<1>4. CASE AcceptFails
  <2>1. UNCHANGED <<backlog, conn>>
    BY <1>4 DEF AcceptFails, peerVars
  <2> QED
    BY <1>1, <1>3, <2>1, ResponsesFrame
<1>5. CASE AcceptAborted
  <2>1. /\ conn' = [conn EXCEPT ![Head(backlog[cur])] = "aborted"]
        /\ backlog' = [backlog EXCEPT ![cur] = Tail(@)]
        /\ backlog[cur] # <<>>
    BY <1>5 DEF AcceptAborted
  <2>2. PICK c \in Conns : c = Head(backlog[cur]) /\ conn[c] = "pending"
    BY <1>2, <2>1, Dequeue
  <2>3. /\ \A s \in Servers : \A i \in DOMAIN backlog'[s] : conn'[backlog'[s][i]] = "pending"
        /\ \A s, r \in Servers : \A i \in DOMAIN backlog'[s], j \in DOMAIN backlog'[r] :
              backlog'[s][i] = backlog'[r][j] => s = r /\ i = j
    BY <1>2, <2>1, Dequeue
  <2>4. \A v \in Conns : conn'[v] = IF v = c THEN "aborted" ELSE conn[v]
    BY <1>2, <2>1, <2>2
  <2>5. \A v \in Conns : conn[v] = "accepted" <=> conn'[v] = "accepted"
    BY <2>2, <2>4
  <2>6. ConnsInv'
    BY <1>1, <1>2, <2>3, <2>5 DEF ConnsInv
  <2>10. LeftByExcused'
    <3>1. \A v \in Conns : ClosedExcused(v) => ClosedExcused(v)'
      BY <1>1, <2>5 DEF ClosedExcused, Open, Excused
    <3> QED
      BY <1>1, <1>2, <3>1 DEF EntryCause, LeftByExcused
  <2>7. SeenOfExcused'
    <3> SUFFICES ASSUME NEW f \in Fds, cl[f] # NoEntry, NEW v \in cl[f][1].who
                 PROVE  conn'[v] = "accepted" /\ (v # fdt[f] => Excused(v)')
      BY <1>1 DEF SeenOfExcused
    <3>1. cl[f][1] \in Entry
      BY <1>2, EntryAtType DEF EntryAt
    <3>2. v \in Conns
      BY <3>1 DEF Entry
    <3> QED
      BY <1>1, <1>2, <2>5, <3>2 DEF EntryCause, SeenOfExcused, Excused
  <2>8. ServesInv'
    BY <1>1, <1>2 DEF ServesInv, Serves, InOrder, EntryAt
  <2>9. SentInv'
    BY <1>1, <1>2, <2>5 DEF SentInv, OutOK, Ended, Open, InOrder
  <2> QED
    BY <1>3, <2>6, <2>7, <2>8, <2>9, <2>10 DEF EntryCause
<1> QED
  BY <1>4, <1>5
-------------------------------------------------------------------------------
\* A client whose turn is over has no other in this pass.
LEMMA TurnsShrink ==
    ASSUME Inv, InPass, NEW f \in Fds, f = clients[cur][it],
           NEW t, DeleteClient(t) \/ NextClient(t)
    PROVE  f \in Turns /\ Turns' \subseteq Turns \ {f}
<1> DEFINE L == clients[cur]
           M == {L[i] : i \in it + 1 .. Len(L)}
<1>1. /\ TypeOK /\ cur \in Servers /\ clients \in [Servers -> Seq(Fds \cup {Ghost})]
      /\ L \in Seq(Fds \cup {Ghost}) /\ Len(L) \in Nat /\ it \in 1 .. Len(L) /\ it \in Nat
      /\ DOMAIN L = 1 .. Len(L) /\ ListedOnce
  <2>1. /\ TypeOK /\ cur \in Servers /\ clients \in [Servers -> Seq(Fds \cup {Ghost})]
        /\ ListedOnce /\ it \in Nat \ {0} /\ it <= Len(clients[cur])
    BY DEF Inv, TypeInv, TypeOK, InPass, AtClient, SocketsInv, ClientsAreOpen
  <2>2. L \in Seq(Fds \cup {Ghost})
    BY <2>1
  <2> QED
    BY <2>1, <2>2
<1>2. cur' = cur
  BY DEF InPass
<1>3. f \in Turns
  BY <1>1 DEF Turns
<1>4. f # Ghost
  BY Distinct DEF Ghost
<1>5. f \notin M
  <2> SUFFICES ASSUME NEW i \in it + 1 .. Len(L), L[i] = f
               PROVE  FALSE
    OBVIOUS
  <2>1. i \in DOMAIN L /\ i # it /\ it \in DOMAIN L
    BY <1>1
  <2> QED
    BY <1>1, <1>4, <2>1 DEF ListedOnce
<1>6. M \subseteq Turns
  <2>1. \A i \in it + 1 .. Len(L) : i \in it .. Len(L)
    BY <1>1
  <2> QED
    BY <2>1 DEF Turns
<1>7. Turns' \subseteq M
  <2>1. CASE DeleteClient(t)
    <3>1. clients'[cur] = RemoveAt(L, it) /\ it' = it
      BY <1>1, <2>1 DEF DeleteClient
    <3>2. /\ Len(RemoveAt(L, it)) = Len(L) - 1
          /\ \A j \in 1 .. Len(L) - 1 :
                RemoveAt(L, it)[j] = IF j < it THEN L[j] ELSE L[j + 1]
      BY <1>1, RemoveAtElements
    <3>3. Turns' = {RemoveAt(L, it)[j] : j \in it .. Len(L) - 1}
      BY <1>2, <3>1, <3>2 DEF Turns
    <3> HIDE DEF L
    <3>4. \A j \in it .. Len(L) - 1 :
             RemoveAt(L, it)[j] = L[j + 1] /\ j + 1 \in it + 1 .. Len(L)
      BY <1>1, <3>2
    <3> QED
      BY <3>3, <3>4
  <2>2. CASE NextClient(t)
    <3>1. UNCHANGED clients /\ it' = it + 1
      BY <2>2 DEF NextClient, listVars
    <3> QED
      BY <1>2, <3>1 DEF Turns
  <2> QED
    BY <2>1, <2>2
<1> HIDE DEF M
<1> QED
  BY <1>3, <1>5, <1>6, <1>7

(***************************************************************************)
(* The turn of c, which has number f: what the others have is not touched. *)
(***************************************************************************)
LEMMA ResponsesTurn ==
    ASSUME ResponsesInv, InPass, NEW f \in Fds, f = clients[cur][it],
           NEW c \in Conns, fdt[f] = c,
           NEW t \in Tables, SameSockets(t), DeleteClient(t) \/ NextClient(t),
           UNCHANGED <<backlog, conn, request, sent, fin, inherited>>,
           \A d \in Conns \ {c} : rcvd'[d] = rcvd[d] /\ out'[d] = out[d] /\ unread'[d] = unread[d],
           \A g \in Fds \ {f} : cl'[g] = cl[g],
           cl'[f] # NoEntry =>
              \A v \in cl'[f][1].who : /\ v \in Conns /\ conn[v] = "accepted"
                                       /\ (v # c \/ DeleteClient(t)) => Excused(v),
           cl'[f] # NoEntry /\ DeleteClient(t) => Excused(c),
           c \notin inherited => OutOK(c)',
           c \notin inherited /\ NextClient(t) => Serves(EntryAt(f), c)',
           c \notin inherited /\ DeleteClient(t) /\ ~fin[c] =>
              /\ Len(out'[c]) > 0
              /\ out'[c][Len(out'[c])].what = "whole" \/ Len(out'[c]) = NBlocks + 1
    PROVE  ConnsInv' /\ EntryCause' /\ ServesInv' /\ SentInv' /\ TurnsInv'
<1>1. /\ TypeOK /\ ConnsInv /\ EntryCause /\ ServesInv /\ SentInv /\ TurnsInv /\ Inv
  BY DEF ResponsesInv, Inv, TypeInv
<1>2. /\ UNCHANGED <<cur, tmpread, tmpwrite>>
  BY DEF InPass
<1>3. conn[c] = "accepted"
  BY <1>1 DEF ConnsInv
<1>4. /\ NextClient(t) => fdt'[f] = c
      /\ DeleteClient(t) => fdt'[f] = Free
      /\ \A g \in Fds \ {f} : fdt'[g] = t[g]
  BY DEF NextClient, DeleteClient, CloseClient, Close, SameSockets
<1>5. \A g \in Fds \ {f} : /\ fdt'[g] \in Conns => fdt'[g] = fdt[g] /\ fdt[g] # c
                           /\ fdt[g] \in Conns => fdt'[g] = fdt[g]
  BY <1>1, <1>4 DEF SameSockets, ConnsInv
<1>6. fdt'[f] = Free \/ fdt'[f] = c
  BY <1>4
<1>7. Free \notin Conns
  BY Distinct
<1>8. ConnsInv'
  <2>1. \A g, k \in Fds : fdt'[g] \in Conns /\ fdt'[g] = fdt'[k] => g = k
    BY <1>1, <1>5, <1>6, <1>7 DEF ConnsInv
  <2>2. \A g \in Fds : fdt'[g] \in Conns => conn[fdt'[g]] = "accepted"
    BY <1>1, <1>3, <1>5, <1>6, <1>7 DEF ConnsInv
  <2>3. \A d \in Conns : conn[d] # "accepted" =>
           rcvd'[d] = 0 /\ out'[d] = <<>> /\ d \notin inherited
    BY <1>1, <1>3 DEF ConnsInv
  <2> QED
    BY <1>1, <2>1, <2>2, <2>3 DEF ConnsInv
<1>13. LeftByExcused'
  <2>1. \A v \in Conns : Open(v)' => Open(v)
    BY <1>5, <1>6, <1>7 DEF Open
  <2>2. \A v \in Conns : ClosedExcused(v) => ClosedExcused(v)'
    BY <2>1 DEF ClosedExcused, Excused
  <2> SUFFICES ASSUME NEW g \in Fds, cl'[g] # NoEntry, fdt'[g] \notin Conns
               PROVE  \E v \in Conns : ClosedExcused(v)'
    BY DEF LeftByExcused
  <2>3. CASE g # f
    <3>1. cl[g] # NoEntry /\ fdt[g] \notin Conns
      BY <1>5, <2>3
    <3> QED
      BY <1>1, <2>2, <3>1 DEF EntryCause, LeftByExcused
  <2>4. CASE g = f
    <3>1. DeleteClient(t)
      BY <1>4, <2>4
    <3>2. ~Open(c)'
      BY <1>4, <1>5, <1>7, <3>1 DEF Open
    <3>3. Excused(c)'
      BY <2>4, <3>1 DEF Excused
    <3> QED
      BY <1>3, <3>2, <3>3 DEF ClosedExcused
  <2> QED
    BY <2>3, <2>4
<1>9. SeenOfExcused'
  <2> SUFFICES ASSUME NEW g \in Fds, cl'[g] # NoEntry, NEW v \in cl'[g][1].who
               PROVE  conn[v] = "accepted" /\ (v # fdt'[g] => Excused(v))
    BY DEF SeenOfExcused, Excused
  <2>1. CASE g = f
    BY <1>4, <2>1
  <2>2. CASE g # f
    <3>1. cl[g] # NoEntry /\ v \in cl[g][1].who
      BY <2>2
    <3>2. cl[g][1] \in Entry
      BY <1>1, <3>1, EntryAtType DEF EntryAt
    <3>3. v \in Conns
      BY <3>1, <3>2 DEF Entry
    <3> QED
      BY <1>1, <1>5, <2>2, <3>1, <3>3 DEF EntryCause, SeenOfExcused
  <2> QED
    BY <2>1, <2>2
<1>10. ServesInv'
  <2> SUFFICES ASSUME NEW g \in Fds, fdt'[g] \in Conns \ inherited
               PROVE  Serves(EntryAt(g), fdt[g])'
    BY DEF ServesInv
  <2>1. CASE g = f
    <3>1. fdt'[f] = c /\ NextClient(t) /\ c \notin inherited
      BY <1>4, <1>6, <1>7, <2>1
    <3>2. Serves(EntryAt(f), c)'
      BY <3>1
    <3> QED
      BY <2>1, <3>1, <3>2 DEF Serves, InOrder
  <2>2. CASE g # f
    <3>1. fdt'[g] = fdt[g] /\ fdt[g] # c /\ fdt[g] \in Conns /\ cl'[g] = cl[g]
      BY <1>5, <2>2
    <3>2. Serves(EntryAt(g), fdt[g])
      BY <1>1, <3>1 DEF ServesInv
    <3>3. EntryAt(g)' = EntryAt(g)
      BY <3>1 DEF EntryAt
    <3> QED
      BY <3>1, <3>2, <3>3 DEF Serves, InOrder
  <2> QED
    BY <2>1, <2>2
<1>11. SentInv'
  <2> SUFFICES ASSUME NEW d \in Conns \ inherited
               PROVE  OutOK(d)' /\ Ended(d)'
    BY DEF SentInv
  <2>1. OutOK(d) /\ Ended(d)
    BY <1>1 DEF SentInv
  <2>2. CASE d = c
    <3>1. NextClient(t) => Open(d)'
      BY <1>4, <2>2 DEF Open
    <3> QED
      BY <2>2, <3>1 DEF Ended
  <2>3. CASE d # c
    <3>1. Open(d)' <=> Open(d)
      BY <1>4, <1>5, <1>6, <1>7, <2>3 DEF Open
    <3>2. rcvd'[d] = rcvd[d] /\ out'[d] = out[d] /\ unread'[d] = unread[d]
      BY <2>3
    <3> QED
      BY <2>1, <3>1, <3>2, SMTT(30) DEF OutOK, Ended, InOrder
  <2> QED
    BY <2>2, <2>3
<1>12. TurnsInv'
  <2> SUFFICES ASSUME NEW g \in Turns' \cap tmpread, g \in Fds, fdt'[g] \in Conns
               PROVE  /\ Available(fdt[g])' > 0 \/ fin[fdt'[g]]
                      /\ g \notin tmpwrite /\ fdt'[g] \notin inherited => out'[fdt'[g]] # <<>>
    BY <1>2 DEF TurnsInv, Available
  <2>1. g \in Turns /\ g # f
    BY <1>1, TurnsShrink
  <2>2. fdt'[g] = fdt[g] /\ fdt[g] # c /\ fdt[g] \in Conns
    BY <1>5, <2>1
  <2>3. rcvd'[fdt[g]] = rcvd[fdt[g]] /\ out'[fdt[g]] = out[fdt[g]]
    BY <2>2
  <2> QED
    BY <1>1, <2>1, <2>2, <2>3 DEF TurnsInv, Available
<1> QED
  BY <1>8, <1>9, <1>10, <1>11, <1>12, <1>13 DEF EntryCause
-------------------------------------------------------------------------------
\* seg are the n units that come after the first m of a request.
Segment(seg, m, n) ==
    /\ seg \in Seq(Units) /\ Len(seg) = n
    /\ m < 2 => (HeadEnds(seg) <=> m + n >= 2)
    /\ m < 2 /\ m + n >= 2 =>
          Cardinality({i \in DOMAIN seg : seg[i] = "B"}) = m + n - 2

LEMMA SegmentUnits ==
    ASSUME NEW k, NEW m \in Nat, NEW n \in Nat, m + n <= Len(Stream(k))
    PROVE  Segment(SubSeq(Stream(k), m + 1, m + n), m, n)
<1> DEFINE w == Stream(k)
           tail == IF k \in PostKinds THEN [i \in 1 .. PostLen |-> "B"] ELSE <<>>
<1>1. w \in Seq(Units) /\ Len(w) \in Nat
  BY StreamType
<1>2. \A i \in 1 .. Len(w) : w[i] = IF i = 1 THEN "P" ELSE IF i = 2 THEN "H" ELSE "B"
  <2>1. /\ tail \in Seq(Units) /\ Len(tail) \in Nat
        /\ \A i \in 1 .. Len(tail) : tail[i] = "B"
    BY HandlingAssumption DEF Units
  <2>2. w = <<"P", "H">> \o tail
    BY DEF Stream
  <2>3. <<"P", "H">> \in Seq(Units)
    BY DEF Units
  <2> HIDE DEF w, tail
  <2> QED
    BY <2>1, <2>2, <2>3
<1> HIDE DEF w
<1>3. m + n <= Len(w)
  BY DEF w
<1> DEFINE seg == SubSeq(w, m + 1, m + n)
<1>4. /\ seg \in Seq(Units) /\ Len(seg) = n /\ DOMAIN seg = 1 .. n
      /\ \A i \in 1 .. n : seg[i] = w[m + i]
  <2>1. \A i \in m + 1 .. m + n : w[i] \in Units
    BY <1>1, <1>3
  <2>2. Len(seg) = n /\ \A i \in 1 .. n : seg[i] = w[m + i]
    BY <1>1, <1>3, SMTT(30)
  <2>3. seg \in Seq(Units)
    BY <1>1, <1>3, SMTT(30)
  <2>4. DOMAIN seg = 1 .. Len(seg)
    BY <2>3, LenProperties
  <2> QED
    BY <2>2, <2>3, <2>4, Zenon
<1> HIDE DEF seg
<1>5. \A i \in 1 .. n : m + i \in 1 .. Len(w)
  BY <1>1, <1>3
<1>6. \A i \in 1 .. n : /\ (seg[i] = "H" <=> m + i = 2)
                        /\ (seg[i] = "B" <=> m + i > 2)
  BY <1>2, <1>4, <1>5
<1>7. ASSUME m < 2
      PROVE  HeadEnds(seg) <=> m + n >= 2
  <2>1. ASSUME m + n >= 2
        PROVE  HeadEnds(seg)
    <3> DEFINE i == 2 - m
    <3>1. i \in 1 .. n /\ m + i = 2
      BY <1>7, <2>1
    <3> HIDE DEF i
    <3> QED
      BY <1>4, <1>6, <3>1 DEF HeadEnds
  <2>2. ASSUME HeadEnds(seg)
        PROVE  m + n >= 2
    <3>1. PICK i \in 1 .. n : seg[i] = "H"
      BY <1>4, <2>2 DEF HeadEnds
    <3> QED
      BY <1>6, <3>1
  <2> QED
    BY <2>1, <2>2
<1>8. ASSUME m < 2, m + n >= 2
      PROVE  Cardinality({i \in DOMAIN seg : seg[i] = "B"}) = m + n - 2
  <2>1. {i \in DOMAIN seg : seg[i] = "B"} = 3 - m .. n
    <3>1. \A i : i \in 3 - m .. n <=> i \in 1 .. n /\ m + i > 2
      BY <1>8
    <3> QED
      BY <1>4, <1>6, <3>1
  <2>2. /\ 3 - m \in Int /\ n \in Int /\ n - (3 - m) + 1 = m + n - 2
        /\ 3 - m > n => m + n - 2 = 0
    BY <1>8
  <2> QED
    BY <2>1, <2>2, FS_Interval
<1> QED
  BY <1>4, <1>7, <1>8 DEF Segment, w, seg

(***************************************************************************)
(* What the driver writes goes to c, the client whose turn it is, and is   *)
(* the piece that comes next.                                              *)
(***************************************************************************)
LEMMA DeliverNext ==
    ASSUME TypeOK, NEW c \in Conns, NEW msg \in Messages, Deliver(c, msg)
    PROVE  /\ \A d \in Conns \ {c} : out'[d] = out[d] /\ unread'[d] = unread[d]
           /\ fin[c] \/ msg = <<>> => UNCHANGED <<out, unread>>
           /\ ~fin[c] /\ msg # <<>> =>
                 out'[c] = IF IsPiece(msg) THEN Append(out[c], msg[1]) ELSE out[c]
<1>1. /\ unread \in [Conns -> 0 .. SndCap] /\ fin \in [Conns -> BOOLEAN]
      /\ DOMAIN out = Conns
  BY DEF TypeOK
<1> QED
  BY <1>1 DEF Deliver, IsPiece

\* Longer by one piece.
LEMMA OnePieceMore ==
    ASSUME TypeOK, NEW c \in Conns, NEW m, out'[c] = Append(out[c], m),
           NEW n \in 0 .. NBlocks, Len(out[c]) = n, InOrder(c, n)
    PROVE  /\ Len(out'[c]) = n + 1 /\ out'[c][n + 1] = m
           /\ \A i \in 1 .. n : out'[c][i] = out[c][i]
           /\ DOMAIN out'[c] = 1 .. n + 1 /\ DOMAIN out[c] = 1 .. n
           /\ InOrder(c, n)'
           /\ m.what = (IF n = 0 THEN "head" ELSE "body") => InOrder(c, n + 1)'
<1> DEFINE o == out[c]
           T == [by : Conns \cup {NoConn}, what : {"head", "body", "whole"}]
<1>1. o \in Seq(T)
  BY DEF TypeOK
<1> HIDE DEF T
<1>2. /\ Len(Append(o, m)) = n + 1 /\ Append(o, m)[n + 1] = m /\ n \in Nat
      /\ \A i \in 1 .. n : Append(o, m)[i] = o[i]
      /\ DOMAIN Append(o, m) = 1 .. n + 1 /\ DOMAIN o = 1 .. n
  BY <1>1, HandlingAssumption
<1> HIDE DEF o
<1>3. out'[c] = Append(o, m)
  BY DEF o
<1>4. InOrder(c, n)'
  BY <1>2, <1>3 DEF InOrder, o
<1>5. m.what = (IF n = 0 THEN "head" ELSE "body") => InOrder(c, n + 1)'
  BY <1>2, <1>3 DEF InOrder, o
<1> QED
  BY <1>2, <1>3, <1>4, <1>5 DEF o

(***************************************************************************)
(* A call of the driver in the turn of c, which recv has returned the next *)
(* n units of, or none.                                                    *)
(***************************************************************************)
LEMMA ResponsesDrive ==
    ASSUME ResponsesInv, InPass, NEW f \in Fds, f = clients[cur][it],
           f \in tmpread \cup tmpwrite, NEW c \in Conns, fdt[f] = c,
           NEW n \in Nat,
           rcvd' = [rcvd EXCEPT ![c] = @ + n],
           UNCHANGED <<backlog, conn, request, sent, fin, inherited>>,
           NEW seg, Segment(seg, rcvd[c], n), Drive(f, seg)
    PROVE  ConnsInv' /\ EntryCause' /\ ServesInv' /\ SentInv' /\ TurnsInv'
<1> DEFINE gone == fdt[f] \notin Conns \/ (fdt[f] \in Conns /\ fin[fdt[f]])
<1>0. PICK e : e = EntryAt(f)
  OBVIOUS
<1>1. PICK o \in DriverOutcomes(fdt, e, c, gone, request, seg) :
        /\ cl' = [cl EXCEPT ![f] = o.entry]
        /\ Deliver(c, o.msg)
        /\ IF o.ret = 0 THEN DeleteClient(o.fdt) ELSE NextClient(o.fdt)
  BY <1>0, DriveParts
<1>2. /\ TypeOK /\ FilesInv /\ NoCgiPost(request) /\ fdt \in Tables
      /\ request \in [Conns -> AllKinds] /\ cl \in [Fds -> Seq(Entry)]
      /\ rcvd \in [Conns -> Nat] /\ it \in Nat
  BY DEF ResponsesInv, Inv, TypeInv, TypeOK, Tables
<1>3. /\ ConnsInv /\ EntryCause /\ ServesInv /\ SentInv /\ TurnsInv
  BY DEF ResponsesInv
<1>4. gone \in BOOLEAN /\ (gone <=> fin[c])
  OBVIOUS
<1>5. e \in Entry /\ EntryOK(e) /\ HasFile(fdt, e)
  <2>1. e \in Entry /\ FileOf(f) = e.file
    BY <1>0, <1>2, EntryAtType, FileOfEntry
  <2>2. EntryOK(e)
    BY <1>0, <1>2, NewEntryOK DEF EntryAt, FilesInv
  <2> QED
    BY <1>2, <2>1, <2>2, FileOfEntry DEF FilesInv, FilesAreOwned, HasFile
<1>6. \A v \in e.who : v \in Conns /\ conn[v] = "accepted" /\ (v # c => Excused(v))
  <2>1. CASE cl[f] = NoEntry
    BY <1>0, <2>1 DEF EntryAt, NewEntry
  <2>2. CASE cl[f] # NoEntry
    BY <1>0, <1>3, <1>5, <2>2 DEF EntryAt, EntryCause, SeenOfExcused, Entry
  <2> QED
    BY <2>1, <2>2
<1>7. c \notin inherited => Serves(e, c)
  BY <1>0, <1>3 DEF ServesInv
<1> DEFINE m == rcvd[c]
<1>8. /\ m \in Nat /\ rcvd'[c] = m + n
      /\ \A d \in Conns \ {c} : rcvd'[d] = rcvd[d]
  BY <1>2
<1>9. Segment(seg, m, n) /\ seg \in Seq(Units)
  BY DEF Segment
<1> HIDE DEF gone
<1>10. Effects(fdt, e, o)
  BY <1>1, <1>2, <1>4, <1>5, <1>9, DriverEffects
<1>11. /\ o.fdt \in Tables /\ o.entry \in Entries /\ o.msg \in Messages /\ o.ret \in {0, 1}
  <2>1. o \in Outcomes
    BY <1>1, <1>2, <1>4, <1>5, <1>9, DriverOutcomesType
  <2> QED
    BY <2>1 DEF Outcomes
<1> DEFINE t == o.fdt
           d == o.entry[1]
<1>12. SameSockets(t)
  BY <1>10 DEF Effects, SameSockets
<1>13. o.entry # NoEntry => d \in Entry /\ EntryOK(d)
  BY <1>10, <1>11 DEF Effects, Entries
<1>14. /\ cl'[f] = o.entry
       /\ \A g \in Fds \ {f} : cl'[g] = cl[g]
  BY <1>1, <1>2
<1>15. cl'[f] # NoEntry => cl'[f][1].who \subseteq e.who \cup {c}
  <2>1. o \in DriverOutcomes(fdt, e, c, gone, request, seg)
    BY <1>1
  <2>2. NoCgiPost(request) /\ seg \in Seq(Units) /\ gone \in BOOLEAN
    BY <1>2, <1>4, <1>9
  <2>3. request \in [Conns -> AllKinds] /\ fdt \in Tables /\ EntryOK(e)
    BY <1>2, <1>5
  <2>4. o.entry # NoEntry => o.entry[1].who \subseteq e.who \cup {c}
    BY <1>5, <2>1, <2>2, <2>3, DriverWho, ZenonT(30)
  <2> QED
    BY <1>14, <2>4
<1> DEFINE k == BodyLen(e, seg)
<1>16. c \notin inherited =>
         /\ Answers(e, c, k, gone, o)
         /\ o.ret = 1 => (d.start_read <=> (e.start_read \/ HeadEnds(seg)))
         /\ o.ret = 1 /\ e.start_read => d.kind = e.kind
         /\ o.ret = 1 => d.kind # "postthrow"
         /\ o.ret = 0 /\ o.entry # NoEntry => request[c] \in ThrowKinds
  <2> SUFFICES ASSUME c \notin inherited
               PROVE  /\ Answers(e, c, k, gone, o)
                      /\ o.ret = 1 => (d.start_read <=> (e.start_read \/ HeadEnds(seg)))
                      /\ o.ret = 1 /\ e.start_read => d.kind = e.kind
                      /\ o.ret = 1 => d.kind # "postthrow"
                      /\ o.ret = 0 /\ o.entry # NoEntry => request[c] \in ThrowKinds
    OBVIOUS
  <2>1. o \in DriverOutcomes(fdt, e, c, gone, request, seg)
    BY <1>1
  <2>2. OwnEntry(e, c) /\ e.kind # "postthrow"
    BY <1>7 DEF Serves
  <2>3. NoCgiPost(request) /\ seg \in Seq(Units) /\ gone \in BOOLEAN
    BY <1>2, <1>4, <1>9
  <2>4. request \in [Conns -> AllKinds] /\ fdt \in Tables /\ EntryOK(e)
    BY <1>2, <1>5
  <2> QED
    BY <1>5, <2>1, <2>2, <2>3, <2>4, DriverAnswers, SMTT(40)
<1> HIDE DEF t, d, k
<1>17. /\ DeleteClient(t) \/ NextClient(t)
       /\ DeleteClient(t) => o.ret = 0
       /\ NextClient(t) => o.ret = 1
  <2>1. it + 1 # it
    BY <1>2
  <2> QED
    BY <1>1, <1>11, <2>1 DEF DeleteClient, NextClient, t
<1>28. cl'[f] # NoEntry /\ DeleteClient(t) => Excused(c)
  BY <1>14, <1>16, <1>17 DEF Excused
<1>18. cl'[f] # NoEntry =>
          \A v \in cl'[f][1].who : /\ v \in Conns /\ conn[v] = "accepted"
                                   /\ (v # c \/ DeleteClient(t)) => Excused(v)
  <2>1. conn[c] = "accepted"
    BY <1>3 DEF ConnsInv
  <2> QED
    BY <1>6, <1>15, <1>28, <2>1
<1>19. /\ \A v \in Conns \ {c} : out'[v] = out[v] /\ unread'[v] = unread[v]
       /\ fin[c] \/ o.msg = <<>> => UNCHANGED <<out, unread>>
       /\ ~fin[c] /\ o.msg # <<>> =>
             out'[c] = IF IsPiece(o.msg) THEN Append(out[c], o.msg[1]) ELSE out[c]
  BY <1>1, <1>2, <1>11, DeliverNext
<1>20. e.step \in 0 .. NBlocks /\ NBlocks \in Nat \ {0}
  BY <1>5, HandlingAssumption DEF Entry
<1>21. ASSUME c \notin inherited, ~fin[c], IsPiece(o.msg)
       PROVE  /\ out'[c] = Append(out[c], o.msg[1])
              /\ Len(out[c]) = e.step /\ Len(out'[c]) = e.step + 1
              /\ out'[c][e.step + 1] = o.msg[1]
              /\ \A i \in 1 .. e.step : out'[c][i] = out[c][i]
              /\ InOrder(c, e.step)'
              /\ o.msg[1].what = (IF e.step = 0 THEN "head" ELSE "body") =>
                    InOrder(c, e.step + 1)'
              /\ DOMAIN out'[c] = 1 .. e.step + 1 /\ DOMAIN out[c] = 1 .. e.step
  <2>1. Len(out[c]) = e.step /\ InOrder(c, e.step)
    BY <1>7, <1>21 DEF Serves
  <2>2. out'[c] = Append(out[c], o.msg[1])
    BY <1>19, <1>21 DEF IsPiece
  <2>3. PICK s \in 0 .. NBlocks : s = e.step
    BY <1>20
  <2>4. PICK x : x = o.msg[1]
    OBVIOUS
  <2>5. /\ out'[c] = Append(out[c], x) /\ Len(out[c]) = s /\ InOrder(c, s)
    BY <2>1, <2>2, <2>3, <2>4
  <2>6. /\ Len(out'[c]) = s + 1 /\ out'[c][s + 1] = x
        /\ \A i \in 1 .. s : out'[c][i] = out[c][i]
        /\ DOMAIN out'[c] = 1 .. s + 1 /\ DOMAIN out[c] = 1 .. s
        /\ InOrder(c, s)'
        /\ x.what = (IF s = 0 THEN "head" ELSE "body") => InOrder(c, s + 1)'
    BY <1>2, <2>3, <2>5, OnePieceMore, ZenonT(30)
  <2> QED
    BY <2>3, <2>4, <2>5, <2>6
<1>22. fin[c] \/ ~IsPiece(o.msg) => out'[c] = out[c]
  BY <1>19 DEF IsPiece
<1>23. ASSUME c \notin inherited
       PROVE  OutOK(c)'
  <2>1. OutOK(c)
    BY <1>3, <1>23 DEF SentInv
  <2>2. CASE fin[c] \/ o.msg = <<>>
    BY <1>19, <2>1, <2>2 DEF OutOK, InOrder
  <2>3. CASE ~fin[c] /\ o.msg # <<>> /\ ~IsPiece(o.msg)
    <3>1. o.ret = 1 /\ d.step = e.step /\ d.step > 0
      BY <1>16, <1>23, <2>3 DEF Answers, IsPiece, d
    <3>2. Len(out[c]) = e.step
      BY <1>7, <1>23, <2>3 DEF Serves
    <3>3. out[c] # <<>>
      BY <1>20, <3>1, <3>2
    <3> QED
      BY <1>22, <2>1, <2>3, <3>3 DEF OutOK, InOrder
  <2>4. CASE ~fin[c] /\ IsPiece(o.msg)
    <3>0. PICK s : s = e.step
      OBVIOUS
    <3>1. /\ Len(out[c]) = s /\ Len(out'[c]) = s + 1 /\ out'[c][s + 1] = o.msg[1]
          /\ \A i \in 1 .. s : out'[c][i] = out[c][i]
          /\ InOrder(c, s)'
          /\ o.msg[1].what = (IF s = 0 THEN "head" ELSE "body") => InOrder(c, s + 1)'
          /\ DOMAIN out'[c] = 1 .. s + 1 /\ DOMAIN out[c] = 1 .. s
      BY <1>21, <1>23, <2>4, <3>0
    <3>2. o.msg[1].by = c
      BY <1>16, <1>23, <2>4 DEF Answers, IsPiece
    <3>3. \/ o.msg[1].what = "whole"
          \/ o.msg[1].what = IF s = 0 THEN "head" ELSE "body"
      BY <1>11, <1>16, <1>20, <1>23, <2>4, <3>0 DEF Answers, IsPiece
    <3>4. s \in 0 .. NBlocks + 1 /\ s + 1 \in 0 .. NBlocks + 1
      BY <1>20, <3>0
    <3>5. \E j \in 0 .. NBlocks + 1 :
             /\ InOrder(c, j)'
             /\ \/ Len(out'[c]) = j
                \/ Len(out'[c]) = j + 1 /\ out'[c][j + 1].what = "whole"
      BY <3>1, <3>3, <3>4
    <3>7. \A i \in DOMAIN out'[c] : out'[c][i].by = c
      <4>1. \A i \in 1 .. s + 1 : i = s + 1 \/ i \in 1 .. s
        BY <3>4
      <4> QED
        BY <2>1, <3>1, <3>2, <4>1 DEF OutOK
    <3>8. out'[c] # <<>>
      BY <3>1, <3>4
    <3> QED
      BY <3>5, <3>7, <3>8 DEF OutOK
  <2> QED
    BY <2>2, <2>3, <2>4
<1>24. ASSUME c \notin inherited, o.ret = 1
       PROVE  Serves(d, c)'
  <2>1. /\ OwnEntry(d, c) /\ d \in Entry /\ EntryOK(d) /\ d.kind # "postthrow"
        /\ d.kind \in PostKinds => d.got = e.got + k
        /\ ~fin[c] /\ FileAtHand(e) => FileAtHand(d)
        /\ d.step = IF IsPiece(o.msg) THEN e.step + 1 ELSE e.step
        /\ IsPiece(o.msg) => o.msg[1].what = IF e.step = 0 THEN "head" ELSE "body"
    BY <1>4, <1>13, <1>16, <1>24 DEF Answers, d
  <2>2. /\ OwnEntry(e, c) /\ (e.start_read <=> m >= 2)
        /\ e.kind \in PostKinds => e.got = m - 2
        /\ out[c] # <<>> => e.step > 0
        /\ ~fin[c] => Len(out[c]) = e.step /\ InOrder(c, e.step) /\ FileAtHand(e)
    BY <1>7, <1>24 DEF Serves, m
  <2>3. d.start_read <=> m + n >= 2
    <3>1. m >= 2 => m + n >= 2
      BY <1>8
    <3>2. m >= 2 \/ m < 2
      BY <1>8
    <3> QED
      BY <1>9, <1>16, <1>24, <2>2, <3>1, <3>2 DEF Segment
  <2>4. d.kind \in PostKinds => d.got = m + n - 2
    <3>1. CASE e.start_read
      <4>1. k = n /\ d.kind = e.kind
        BY <1>9, <1>16, <1>24, <3>1 DEF BodyLen, k, Segment
      <4> QED
        BY <1>8, <2>1, <2>2, <4>1
    <3>2. CASE ~e.start_read
      <4>1. e.got = 0 /\ m < 2
        BY <1>8, <2>2, <3>2 DEF OwnEntry
      <4>2. d.kind \in PostKinds => m + n >= 2
        BY <2>1, <2>3 DEF EntryOK, PostKinds
      <4>3. m + n >= 2 => k = m + n - 2
        BY <1>9, <3>2, <4>1 DEF BodyLen, k, Segment
      <4> QED
        BY <1>8, <2>1, <4>1, <4>2, <4>3
    <3> QED
      BY <3>1, <3>2
  <2>5. out'[c] # <<>> => d.step > 0
    <3>1. CASE IsPiece(o.msg)
      BY <1>20, <2>1, <3>1
    <3>2. CASE ~IsPiece(o.msg)
      BY <1>22, <2>1, <2>2, <3>2
    <3> QED
      BY <3>1, <3>2
  <2>6. ~fin[c] => Len(out'[c]) = d.step /\ FileAtHand(d)
    BY <1>21, <1>22, <1>24, <2>1, <2>2
  <2>7. ASSUME ~fin[c]
        PROVE  InOrder(c, d.step)'
    <3>1. PICK s, r : s = e.step /\ r = d.step
      OBVIOUS
    <3>2. InOrder(c, r)'
      <4>1. CASE IsPiece(o.msg)
        BY <1>21, <1>24, <2>1, <2>7, <3>1, <4>1
      <4>2. CASE ~IsPiece(o.msg)
        BY <1>22, <2>1, <2>2, <2>7, <3>1, <4>2 DEF InOrder
      <4> QED
        BY <4>1, <4>2
    <3> QED
      BY <3>1, <3>2 DEF InOrder, d
  <2> QED
    BY <1>8, <2>1, <2>3, <2>4, <2>5, <2>6, <2>7 DEF Serves, d, m
<1>25. c \notin inherited /\ NextClient(t) => Serves(EntryAt(f), c)'
  <2>1. NextClient(t) => o.ret = 1
    BY <1>17
  <2>2. c \notin inherited /\ o.ret = 1 => EntryAt(f)' = d
    BY <1>14, <1>16 DEF Answers, EntryAt, d
  <2> QED
    BY <1>24, <2>1, <2>2 DEF Serves, d
<1>26. c \notin inherited /\ DeleteClient(t) /\ ~fin[c] =>
          /\ Len(out'[c]) > 0
          /\ out'[c][Len(out'[c])].what = "whole" \/ Len(out'[c]) = NBlocks + 1
  <2> SUFFICES ASSUME c \notin inherited, DeleteClient(t), ~fin[c]
               PROVE  /\ Len(out'[c]) > 0
                      /\ out'[c][Len(out'[c])].what = "whole" \/ Len(out'[c]) = NBlocks + 1
    OBVIOUS
  <2>1. o.ret = 0 /\ FileAtHand(e)
    BY <1>7, <1>17 DEF Serves
  <2>2. /\ IsPiece(o.msg)
        /\ o.msg[1].what = "whole" \/ e.step = NBlocks
    BY <1>4, <1>16, <2>1 DEF Answers, IsPiece
  <2> QED
    BY <1>20, <1>21, <2>2
<1>27. t \in Tables
  BY <1>11 DEF t
<1> QED
  BY <1>8, <1>12, <1>14, <1>17, <1>18, <1>19, <1>23, <1>25, <1>26, <1>27, <1>28,
     ResponsesTurn

\* The client whose turn it is, unless accept has failed for it, is open.
LEMMA ClientInTurn ==
    ASSUME Inv, InPass, clients[cur][it] # Ghost
    PROVE  clients[cur][it] \in Fds /\ fdt[clients[cur][it]] \in Conns
<1>1. /\ clients[cur][it] \in Fds \cup {Ghost} /\ cur \in Servers
      /\ clients \in [Servers -> Seq(Fds \cup {Ghost})] /\ it \in Nat \ {0}
      /\ it <= Len(clients[cur])
  BY ClientAtIt DEF Inv, InPass, AtClient, TypeInv, TypeOK
<1>2. clients[cur][it] \in Listed(cur) \ {Ghost}
  BY <1>1 DEF Listed
<1> QED
  BY <1>1, <1>2 DEF Inv, SocketsInv, ClientsAreOpen, ListedAreOpen

\* recv fails only on a peer that has gone.
LEMMA ResponsesRecvFails ==
    ASSUME ResponsesInv, RecvFails
    PROVE  ConnsInv' /\ EntryCause' /\ ServesInv' /\ SentInv' /\ TurnsInv'
<1>1. /\ Inv /\ TypeOK /\ ConnsInv /\ EntryCause /\ ServesInv /\ SentInv /\ TurnsInv
  BY DEF ResponsesInv, Inv, TypeInv
<1>2. /\ InPass /\ DeleteClient(fdt)
      /\ UNCHANGED <<cl, backlog, conn, request, sent, rcvd, fin, unread, out, inherited>>
  BY DEF RecvFails, InPass, peerVars
<1>3. PICK f : f = clients[cur][it]
  OBVIOUS
<1>4. f \in tmpread /\ RecvNothing(f) /\ f # Ghost
  BY <1>1, <1>3 DEF RecvFails, Inv, SocketsInv
<1>5. f \in Fds /\ fdt[f] \in Conns
  BY <1>1, <1>2, <1>3, <1>4, ClientInTurn
<1>6. PICK c \in Conns : c = fdt[f]
  BY <1>5
<1>7. fdt \in Tables /\ SameSockets(fdt)
  BY <1>1 DEF TypeOK, Tables, SameSockets
<1>8. fin[c]
  <2>1. f \in Turns
    BY <1>1, <1>2, <1>3, <1>5, TurnsShrink
  <2>2. ~(Available(c) > 0)
    BY <1>4, <1>5, <1>6 DEF RecvNothing
  <2> QED
    BY <1>1, <1>4, <1>5, <1>6, <2>1, <2>2 DEF TurnsInv
<1>9. cl'[f] # NoEntry =>
        \A v \in cl'[f][1].who : /\ v \in Conns /\ conn[v] = "accepted"
                                 /\ (v # c \/ DeleteClient(fdt)) => Excused(v)
  <2> SUFFICES ASSUME cl[f] # NoEntry, NEW v \in cl[f][1].who
               PROVE  v \in Conns /\ conn[v] = "accepted" /\ Excused(v)
    BY <1>2
  <2>1. cl[f][1] \in Entry
    BY <1>1, <1>5, EntryAtType DEF EntryAt
  <2> QED
    BY <1>1, <1>5, <1>6, <1>8, <2>1 DEF EntryCause, SeenOfExcused, Excused, Entry
<1>12. Excused(c)
  BY <1>8 DEF Excused
<1>10. c \notin inherited => OutOK(c)'
  <2>1. c \notin inherited => OutOK(c)
    BY <1>1 DEF SentInv
  <2> QED
    BY <1>2, <2>1 DEF OutOK, InOrder
<1>11. ~NextClient(fdt)
  <2>1. it + 1 # it
    BY <1>1 DEF TypeOK
  <2> QED
    BY <1>2, <2>1 DEF NextClient, DeleteClient
<1> QED
  BY <1>2, <1>3, <1>5, <1>6, <1>7, <1>8, <1>9, <1>10, <1>11, <1>12, ResponsesTurn

(***************************************************************************)
(* What recv returns goes to the driver; or it is lost, but then a         *)
(* response has begun, and what is lost are not bytes of an upload.        *)
(***************************************************************************)
LEMMA ResponsesRecvData ==
    ASSUME ResponsesInv, RecvData
    PROVE  ConnsInv' /\ EntryCause' /\ ServesInv' /\ SentInv' /\ TurnsInv'
<1>1. /\ Inv /\ TypeOK /\ ConnsInv /\ EntryCause /\ ServesInv /\ SentInv /\ TurnsInv
      /\ rcvd \in [Conns -> Nat] /\ sent \in [Conns -> Nat]
      /\ \A v \in Conns : rcvd[v] <= sent[v] /\ sent[v] <= Len(Stream(request[v]))
  BY DEF ResponsesInv, Inv, TypeInv, TypeOK
<1>2. InPass /\ UNCHANGED <<backlog, conn, request, sent, fin, inherited>>
  BY DEF RecvData, InPass
<1>3. PICK f : f = clients[cur][it]
  OBVIOUS
<1>4. f \in tmpread /\ f # Ghost
  BY <1>1, <1>3 DEF RecvData, Inv, SocketsInv
<1>5. f \in Fds /\ fdt[f] \in Conns
  BY <1>1, <1>2, <1>3, <1>4, ClientInTurn
<1>6. PICK c \in Conns : c = fdt[f]
  BY <1>5
<1>7. PICK n \in 1 .. Available(c) :
        /\ rcvd' = [rcvd EXCEPT ![c] = @ + n]
        /\ IF f \in tmpwrite
           THEN Drive(f, SubSeq(Stream(request[c]), rcvd[c] + 1, rcvd[c] + n))
           ELSE NextClient(fdt) /\ UNCHANGED <<cl, out, unread>>
  BY <1>3, <1>6 DEF RecvData
<1>8. n \in Nat /\ rcvd[c] + n <= Len(Stream(request[c]))
  <2>1. Len(Stream(request[c])) \in Nat
    BY StreamType
  <2> QED
    BY <1>1, <1>7, <2>1 DEF Available
<1>9. CASE f \in tmpwrite
  <2>1. PICK seg : seg = SubSeq(Stream(request[c]), rcvd[c] + 1, rcvd[c] + n)
    OBVIOUS
  <2>2. Drive(f, seg)
    BY <1>7, <1>9, <2>1
  <2>3. Segment(seg, rcvd[c], n)
    <3>1. rcvd[c] \in Nat
      BY <1>1
    <3> QED
      BY <1>8, <2>1, <3>1, SegmentUnits
  <2> QED
    BY <1>2, <1>3, <1>4, <1>5, <1>6, <1>7, <1>8, <2>2, <2>3, ResponsesDrive
<1>10. CASE f \notin tmpwrite
  <2>1. NextClient(fdt) /\ UNCHANGED <<cl, out, unread>>
    BY <1>7, <1>10
  <2>2. fdt \in Tables /\ SameSockets(fdt)
    BY <1>1 DEF TypeOK, Tables, SameSockets
  <2>3. /\ rcvd'[c] = rcvd[c] + n
        /\ \A d \in Conns \ {c} : rcvd'[d] = rcvd[d]
    BY <1>1, <1>7
  <2>4. ~DeleteClient(fdt)
    <3>1. it + 1 # it
      BY <1>1 DEF TypeOK
    <3> QED
      BY <2>1, <3>1 DEF NextClient, DeleteClient
  <2>5. cl'[f] # NoEntry =>
          \A v \in cl'[f][1].who : /\ v \in Conns /\ conn[v] = "accepted"
                                   /\ (v # c \/ DeleteClient(fdt)) => Excused(v)
    <3> SUFFICES ASSUME cl[f] # NoEntry, NEW v \in cl[f][1].who
                 PROVE  v \in Conns /\ conn[v] = "accepted" /\ (v # c => Excused(v))
      BY <2>1, <2>4
    <3>1. cl[f][1] \in Entry
      BY <1>1, <1>5, EntryAtType DEF EntryAt
    <3> QED
      BY <1>1, <1>5, <1>6, <3>1 DEF EntryCause, SeenOfExcused, Entry
  <2>6. ASSUME c \notin inherited
        PROVE  OutOK(c)' /\ Serves(EntryAt(f), c)'
    <3>1. OutOK(c) /\ Serves(EntryAt(f), c)
      BY <1>1, <1>5, <1>6, <2>6 DEF SentInv, ServesInv
    <3>2. f \in Turns
      BY <1>1, <1>2, <1>3, <1>5, <2>1, TurnsShrink
    <3>3. out[c] # <<>>
      BY <1>1, <1>4, <1>5, <1>6, <1>10, <2>6, <3>2 DEF TurnsInv
    <3>4. EntryAt(f) \in Entry /\ EntryOK(EntryAt(f))
      BY <1>1, <1>5, EntryAtType, NewEntryOK DEF EntryAt, Inv, FilesInv
    <3>5. EntryAt(f).step # 0
      BY <3>1, <3>3, <3>4 DEF Serves, Entry
    <3>6. EntryAt(f).kind \in GetKinds /\ EntryAt(f).start_read
      BY <3>4, <3>5 DEF EntryOK, GetKinds
    <3>7. EntryAt(f).kind \notin PostKinds /\ rcvd[c] >= 2
      BY <3>1, <3>6 DEF Serves, GetKinds, PostKinds
    <3>8. rcvd'[c] >= 2
      BY <1>1, <1>8, <2>3, <3>7
    <3>9. EntryAt(f)' = EntryAt(f)
      BY <2>1 DEF EntryAt
    <3>10. OutOK(c)'
      BY <2>1, <3>1 DEF OutOK, InOrder
    <3>11. Serves(EntryAt(f), c)'
      BY <1>2, <2>1, <3>1, <3>6, <3>7, <3>8, <3>9 DEF Serves, InOrder
    <3> QED
      BY <3>10, <3>11
  <2> QED
    BY <1>2, <1>3, <1>5, <1>6, <2>1, <2>2, <2>3, <2>4, <2>5, <2>6, ResponsesTurn
<1> QED
  BY <1>9, <1>10

\* Nothing to receive: the driver has nothing but the response to go on with.
LEMMA ResponsesWriteOnly ==
    ASSUME ResponsesInv, WriteOnly
    PROVE  ConnsInv' /\ EntryCause' /\ ServesInv' /\ SentInv' /\ TurnsInv'
<1>1. /\ Inv /\ TypeOK /\ rcvd \in [Conns -> Nat] /\ it \in Nat /\ TurnsInv
  BY DEF ResponsesInv, Inv, TypeInv, TypeOK
<1>2. InPass /\ UNCHANGED <<backlog, conn, request, sent, rcvd, fin, inherited>>
  BY DEF WriteOnly, InPass
<1>3. PICK f : f = clients[cur][it]
  OBVIOUS
<1>4. IF f \in tmpwrite /\ readyforwrite[cur]
      THEN Drive(f, <<>>)
      ELSE NextClient(fdt) /\ UNCHANGED <<cl, out, unread>>
  BY <1>3 DEF WriteOnly
<1>5. CASE f \in tmpwrite /\ readyforwrite[cur]
  <2>1. f # Ghost
    BY <1>1, <1>5 DEF Inv, SocketsInv
  <2>2. f \in Fds /\ fdt[f] \in Conns
    BY <1>1, <1>2, <1>3, <2>1, ClientInTurn
  <2>3. PICK c \in Conns : c = fdt[f]
    BY <2>2
  <2>4. rcvd[c] \in Nat
    BY <1>1
  <2>5. rcvd' = [rcvd EXCEPT ![c] = @ + 0]
    <3>1. rcvd[c] + 0 = rcvd[c]
      BY <2>4
    <3> QED
      BY <1>1, <1>2, <3>1
  <2>6. PICK seg : seg = <<>>
    OBVIOUS
  <2>7. Segment(seg, rcvd[c], 0)
    <3>1. seg \in Seq(Units) /\ Len(seg) = 0 /\ DOMAIN seg = {}
      BY <2>6
    <3> QED
      BY <2>4, <3>1 DEF Segment, HeadEnds
  <2>8. 0 \in Nat /\ Drive(f, seg)
    BY <1>4, <1>5, <2>6
  <2> QED
    BY <1>2, <1>3, <1>5, <2>2, <2>3, <2>5, <2>7, <2>8, ResponsesDrive
<1>6. CASE ~(f \in tmpwrite /\ readyforwrite[cur])
  <2>1. /\ UNCHANGED <<fdt, clients, cur, tmpread, tmpwrite, cl, out, unread>>
        /\ it' = it + 1
    BY <1>2, <1>4, <1>6 DEF NextClient, listVars, InPass
  <2>2. Turns' \subseteq Turns
    <3>1. Len(clients[cur]) \in Nat
      BY <1>1, LenProperties DEF TypeOK
    <3>2. it + 1 .. Len(clients[cur]) \subseteq it .. Len(clients[cur])
      BY <1>1, <3>1
    <3> QED
      BY <2>1, <3>2 DEF Turns
  <2>3. TurnsInv'
    BY <1>1, <1>2, <2>1, <2>2 DEF TurnsInv, Available
  <2> QED
    BY <1>2, <2>1, <2>3, ResponsesFrame
<1> QED
  BY <1>5, <1>6

\* Every step keeps the invariant, unless it asks for a POST to a script.
LEMMA ResponsesStep ==
    ASSUME ResponsesInv, [Next]_vars, NoCgiPost(request')
    PROVE  ResponsesInv'
<1>1. Inv'
  BY InvStep DEF ResponsesInv
<1>2. CASE Peer
  BY <1>1, <1>2, ResponsesPeers DEF ResponsesInv
<1>3. CASE Select \/ SelectFails
  BY <1>1, <1>3, ResponsesSelect DEF ResponsesInv
<1>4. CASE Accept
  BY <1>1, <1>4, ResponsesAccept DEF ResponsesInv
<1>5. CASE AcceptFails \/ AcceptAborted
  BY <1>1, <1>5, ResponsesNoAccept DEF ResponsesInv
<1>6. CASE RecvFails
  BY <1>1, <1>6, ResponsesRecvFails DEF ResponsesInv
<1>7. CASE RecvData
  BY <1>1, <1>7, ResponsesRecvData DEF ResponsesInv
<1>8. CASE WriteOnly
  BY <1>1, <1>8, ResponsesWriteOnly DEF ResponsesInv
<1>9. CASE EndPass
  BY <1>1, <1>9, ResponsesEndPass DEF ResponsesInv
<1>10. CASE UNCHANGED vars
  <2>1. UNCHANGED <<fdt, cl, request, inherited, rcvd, fin, unread, out, backlog, conn,
                    clients, cur, it, tmpread, tmpwrite, sent>>
    BY <1>10 DEF vars, listVars, loopVars, peerVars
  <2>2. TurnsInv'
    BY <2>1 DEF ResponsesInv, TurnsInv, Turns, Available
  <2> QED
    BY <1>1, <2>1, <2>2, ResponsesFrame DEF ResponsesInv
<1> QED
  BY <1>2, <1>3, <1>4, <1>5, <1>6, <1>7, <1>8, <1>9, <1>10 DEF Next, StartServer

\* So it holds as long as nobody has asked for one.
CalmResponsesInv == TypeInv /\ (NoCgiPost(request) => ResponsesInv)

LEMMA CalmResponsesInit == Init => CalmResponsesInv
BY TypeInit, ResponsesInit DEF CalmResponsesInv

LEMMA CalmResponsesStep == CalmResponsesInv /\ [Next]_vars => CalmResponsesInv'
<1> SUFFICES ASSUME CalmResponsesInv, [Next]_vars
             PROVE  CalmResponsesInv'
  OBVIOUS
<1>1. TypeInv'
  BY TypeStep DEF CalmResponsesInv
<1>2. ASSUME NoCgiPost(request')
      PROVE  ResponsesInv'
  BY <1>2, SomeCgiPostStays, ResponsesStep DEF CalmResponsesInv
<1> QED
  BY <1>1, <1>2 DEF CalmResponsesInv, NoCgiPost
-------------------------------------------------------------------------------
(***************************************************************************)
(* For any number of servers, clients and descriptors, as long as no POST  *)
(* goes to a CGI script: an entry stays in the map without its client only *)
(* when each of those whose bytes it has seen hung up, sent a request line *)
(* that makes the parser throw or an upload to a location without an       *)
(* upload_path, or was accepted on such a leftover.                        *)
(***************************************************************************)
THEOREM LeftoversHaveCause == Spec => [](NoCgiPost(request) => StaleEntryCause)
<1>1. CalmResponsesInv => (NoCgiPost(request) => StaleEntryCause)
  BY StaysForCause DEF CalmResponsesInv, ResponsesInv, Inv, TypeInv
<1> QED
  BY <1>1, CalmResponsesInit, CalmResponsesStep, PTL DEF Spec

(***************************************************************************)
(* Nobody is sent another client's response, except a connection that was  *)
(* accepted on a number with an entry.                                     *)
(***************************************************************************)
THEOREM EveryoneGetsOwnResponse == Spec => [](NoCgiPost(request) => OwnResponse)
<1>1. CalmResponsesInv => (NoCgiPost(request) => OwnResponse)
  BY SentInOrder DEF CalmResponsesInv, ResponsesInv, Inv, TypeInv
<1> QED
  BY <1>1, CalmResponsesInit, CalmResponsesStep, PTL DEF Spec

(***************************************************************************)
(* A connection carries at most one response: one message, or a head and   *)
(* then the blocks, in order; only the file that disappears in the middle  *)
(* puts an error page after them.                                          *)
(***************************************************************************)
THEOREM OneResponseInOrder == Spec => [](NoCgiPost(request) => OneResponse)
<1>1. CalmResponsesInv => (NoCgiPost(request) => OneResponse)
  BY SentInOrder DEF CalmResponsesInv, ResponsesInv, Inv, TypeInv
<1> QED
  BY <1>1, CalmResponsesInit, CalmResponsesStep, PTL DEF Spec

(***************************************************************************)
(* A peer that does not hang up is closed only after the last piece of its *)
(* response: an error page, a redirect, or the last block.                 *)
(***************************************************************************)
THEOREM ClosedAfterAnswer == Spec => [](NoCgiPost(request) => Answered)
<1>1. CalmResponsesInv => (NoCgiPost(request) => Answered)
  BY SentInOrder DEF CalmResponsesInv, ResponsesInv, Inv, TypeInv
<1> QED
  BY <1>1, CalmResponsesInit, CalmResponsesStep, PTL DEF Spec

(***************************************************************************)
(* What recv has returned of an upload has reached the upload, once each   *)
(* unit, although the loop drops what it has received when the socket      *)
(* cannot be written.                                                      *)
(***************************************************************************)
THEOREM UploadsLoseNothing == Spec => [](NoCgiPost(request) => UploadExact)
<1>1. CalmResponsesInv => (NoCgiPost(request) => UploadExact)
  BY UploadsExact DEF CalmResponsesInv, ResponsesInv
<1> QED
  BY <1>1, CalmResponsesInit, CalmResponsesStep, PTL DEF Spec
-------------------------------------------------------------------------------(***************************************************************************)
(* What the server promises: each step is one of Service, or none.         *)
(***************************************************************************)
\* What Service sees of a step in which nothing but this changes for c.
LEMMA OnlyStateOf ==
    ASSUME NEW c \in Conns, \A d \in Conns \ {c} : State(d)' = State(d)
    PROVE  [d \in Conns |-> State(d)]' = [[d \in Conns |-> State(d)] EXCEPT ![c] = State(c)']
OBVIOUS

LEMMA KeepsStill ==
    ASSUME UNCHANGED <<fdt, conn, request, fin, out, inherited>>
    PROVE  UNCHANGED Promise!serviceVars
BY DEF Promise!serviceVars, State, Open

\* A request line that cannot be read stays so.
LEMMA OddStays ==
    ASSUME UNCHANGED request
    PROVE  UNCHANGED {c \in Conns : request[c] \in ThrowKinds}
OBVIOUS

LEMMA KeepsPeers ==
    ASSUME ResponsesInv, Peer
    PROVE  [Promise!Next]_(Promise!serviceVars)
<1>1. /\ conn \in [Conns -> {"new", "pending", "accepted", "aborted"}]
      /\ request \in [Conns -> AllKinds] /\ fin \in [Conns -> BOOLEAN]
      /\ \A c \in Conns : conn[c] = "new" => request[c] = "status"
  BY DEF ResponsesInv, Inv, TypeInv, TypeOK
<1>2. UNCHANGED <<fdt, out, inherited>>
  BY DEF Peer, Connect, Send, PeerClose, PeerRead, serverVars
<1>3. \A d \in Conns : Open(d)' <=> Open(d)
  BY <1>2 DEF Open
<1>4. ASSUME NEW c \in Conns, NEW s \in Servers, NEW k \in Kinds, Connect(c, s, k)
      PROVE  Promise!Arrive(c)
  <2>1. /\ conn[c] = "new" /\ conn' = [conn EXCEPT ![c] = "pending"]
        /\ request' = [request EXCEPT ![c] = k] /\ UNCHANGED fin
    BY <1>4 DEF Connect
  <2>2. State(c) = "new" /\ State(c)' = "pending"
    BY <1>1, <2>1 DEF State
  <2>3. \A d \in Conns \ {c} : State(d)' = State(d)
    BY <1>1, <1>3, <2>1 DEF State
  <2>4. {d \in Conns : request[d] \in ThrowKinds}' \in
           {{d \in Conns : request[d] \in ThrowKinds}, {d \in Conns : request[d] \in ThrowKinds} \cup {c}}
    <3>1. \A d \in Conns : request'[d] = IF d = c THEN k ELSE request[d]
      BY <1>1, <2>1
    <3>2. request[c] \notin ThrowKinds
      BY <1>1, <2>1 DEF ThrowKinds
    <3> QED
      BY <3>1, <3>2
  <2> QED
    BY <1>2, <2>1, <2>2, <2>3, <2>4, OnlyStateOf DEF Promise!Arrive
<1>5. ASSUME NEW c \in Conns, PeerClose(c)
      PROVE  Promise!HangUp(c)
  <2>1. /\ Alive(c) /\ ~fin[c] /\ fin' = [fin EXCEPT ![c] = TRUE]
        /\ UNCHANGED <<conn, request>>
    BY <1>5 DEF PeerClose
  <2>2. \A d \in Conns : State(d)' = State(d)
    BY <1>3, <2>1 DEF State
  <2>3. State(c) \in {"pending", "open"}
    BY <2>1 DEF Alive, State
  <2> QED
    BY <1>2, <2>1, <2>2, <2>3 DEF Promise!HangUp
<1>6. ASSUME NEW c \in Conns, Send(c) \/ PeerRead(c)
      PROVE  UNCHANGED Promise!serviceVars
  BY <1>2, <1>6, KeepsStill DEF Send, PeerRead
<1> QED
  BY <1>4, <1>5, <1>6 DEF Peer, Promise!Next

\* Taking a connection, with the entry of another or without.
LEMMA KeepsAccept ==
    ASSUME ResponsesInv, Accept
    PROVE  Promise!Next
<1> DEFINE f == LowestFree(fdt)
<1>1. /\ TypeOK /\ ConnsInv /\ EntryCause /\ fdt \in Tables
      /\ backlog \in [Servers -> Seq(Conns)] /\ cur \in Servers
      /\ conn \in [Conns -> {"new", "pending", "accepted", "aborted"}]
  BY DEF ResponsesInv, Inv, TypeInv, TypeOK, Tables
<1>2. PICK c : c = Head(backlog[cur])
  OBVIOUS
<1>3. /\ fdt' = Install(fdt, f, c) /\ conn' = [conn EXCEPT ![c] = "accepted"]
      /\ inherited' = IF cl[f] # NoEntry THEN inherited \cup {c} ELSE inherited
      /\ backlog[cur] # <<>> /\ FreeFds(fdt) # {}
      /\ UNCHANGED <<request, fin, out>>
  BY <1>2 DEF Accept
<1>4. f \in Fds /\ fdt[f] = Free
  BY <1>1, <1>3, LowestFreeIsFree DEF FreeFds
<1>5. c \in Conns /\ conn[c] = "pending"
  <2>1. 1 \in DOMAIN backlog[cur] /\ c = backlog[cur][1]
    BY <1>1, <1>2, <1>3
  <2> QED
    BY <1>1, <2>1 DEF ConnsInv
<1> HIDE DEF f
<1>6. /\ \A g \in Fds : fdt'[g] = IF g = f THEN c ELSE fdt[g]
      /\ \A d \in Conns : conn'[d] = IF d = c THEN "accepted" ELSE conn[d]
  BY <1>1, <1>3, <1>5 DEF Install
<1>7. State(c) = "pending" /\ State(c)' = "open"
  BY <1>4, <1>5, <1>6 DEF State, Open
<1>8. ASSUME NEW d \in Conns \ {c}
      PROVE  State(d)' = State(d)
  <2>1. Open(d)' <=> Open(d)
    BY <1>4, <1>6, Distinct DEF Open
  <2> QED
    BY <1>6, <2>1 DEF State
<1>9. cl[f] # NoEntry => Promise!Disorder
  <2> SUFFICES ASSUME cl[f] # NoEntry
               PROVE  Promise!Disorder
    OBVIOUS
  <2>1. PICK v \in Conns : ClosedExcused(v)
    BY <1>1, <1>4, Distinct DEF EntryCause, LeftByExcused
  <2>2. State(v) = "closed" /\ Excused(v)
    BY <2>1 DEF ClosedExcused, State
  <2> QED
    BY <2>2 DEF Promise!Disorder, Excused
<1>10. Promise!Take(c)
  BY <1>3, <1>5, <1>7, <1>8, <1>9, OnlyStateOf DEF Promise!Take
<1> QED
  BY <1>5, <1>10 DEF Promise!Next

LEMMA KeepsNoAccept ==
    ASSUME ResponsesInv, AcceptFails \/ AcceptAborted
    PROVE  [Promise!Next]_(Promise!serviceVars)
<1>1. /\ ConnsInv /\ backlog \in [Servers -> Seq(Conns)] /\ cur \in Servers
      /\ conn \in [Conns -> {"new", "pending", "accepted", "aborted"}]
  BY DEF ResponsesInv, Inv, TypeInv, TypeOK
<1>2. CASE AcceptFails
  BY <1>2, KeepsStill DEF AcceptFails, peerVars
<1>3. CASE AcceptAborted
  <2>1. PICK c : c = Head(backlog[cur])
    OBVIOUS
  <2>2. /\ backlog[cur] # <<>> /\ conn' = [conn EXCEPT ![c] = "aborted"]
        /\ UNCHANGED <<fdt, inherited, request, fin, out>>
    BY <1>3, <2>1 DEF AcceptAborted
  <2>3. c \in Conns /\ conn[c] = "pending"
    <3>1. 1 \in DOMAIN backlog[cur] /\ c = backlog[cur][1]
      BY <1>1, <2>1, <2>2
    <3> QED
      BY <1>1, <3>1 DEF ConnsInv
  <2>4. State(c) = "pending" /\ State(c)' = "aborted"
    BY <1>1, <2>2, <2>3 DEF State
  <2>5. \A d \in Conns \ {c} : State(d)' = State(d)
    BY <1>1, <2>2 DEF State, Open
  <2>6. Promise!Drop(c)
    BY <2>2, <2>3, <2>4, <2>5, OnlyStateOf DEF Promise!Drop
  <2> QED
    BY <2>3, <2>6 DEF Promise!Next
<1> QED
  BY <1>2, <1>3

\* A response is complete with a piece of its own, or with the last block.
LEMMA CompleteIs ==
    ASSUME NEW o \in Seq(Promise!Piece)
    PROVE  Promise!Complete(o) <=>
              Len(o) > 0 /\ (o[Len(o)].what = "whole" \/ Len(o) = NBlocks + 1)
BY DEF Promise!Complete, Promise!Last

\* So it is not while the pieces are a head and blocks, but not the last one.
LEMMA Incomplete ==
    ASSUME NEW o \in Seq(Promise!Piece), Len(o) \in 0 .. NBlocks,
           \A i \in 1 .. Len(o) : o[i].what = IF i = 1 THEN "head" ELSE "body"
    PROVE  ~Promise!Complete(o)
<1>1. NBlocks \in Nat
  BY HandlingAssumption
<1>2. Len(o) > 0 => o[Len(o)].what # "whole"
  BY <1>1
<1> QED
  BY <1>1, <1>2, CompleteIs

\* The piece that has been added is the one that is due.
LEMMA PieceIsDue ==
    ASSUME TypeOK, SentInv', NEW c \in Conns, c \notin inherited',
           Len(out[c]) \in 0 .. NBlocks, InOrder(c, Len(out[c])),
           NEW m \in Promise!Piece, out'[c] = Append(out[c], m)
    PROVE  \E what \in {"whole", IF out[c] = <<>> THEN "head" ELSE "body"} :
              m = [by |-> c, what |-> what]
<1>1. PICK n \in 0 .. NBlocks : n = Len(out[c])
  OBVIOUS
<1>2. /\ Len(out'[c]) = n + 1 /\ out'[c][n + 1] = m /\ DOMAIN out'[c] = 1 .. n + 1
      /\ n \in Nat
  BY <1>1, OnePieceMore, HandlingAssumption
<1>3. m.by = c
  BY <1>2 DEF SentInv, OutOK
<1>4. PICK k \in 0 .. NBlocks + 1 :
        /\ InOrder(c, k)'
        /\ \/ Len(out'[c]) = k
           \/ Len(out'[c]) = k + 1 /\ out'[c][k + 1].what = "whole"
  BY DEF SentInv, OutOK
<1>5. m.what = "whole" \/ m.what = IF n = 0 THEN "head" ELSE "body"
  <2>1. CASE k = n + 1
    <3>1. m.what = IF n + 1 = 1 THEN "head" ELSE "body"
      BY <1>2, <1>4, <2>1 DEF InOrder
    <3> QED
      BY <1>2, <3>1
  <2>2. CASE k = n
    BY <1>2, <1>4, <2>2
  <2> QED
    BY <1>2, <1>4, <2>1, <2>2
<1>6. n = 0 <=> out[c] = <<>>
  <2>1. out[c] \in Seq([by : Conns \cup {NoConn}, what : {"head", "body", "whole"}])
    BY DEF TypeOK
  <2> QED
    BY <1>1, <2>1
<1> QED
  BY <1>3, <1>5, <1>6 DEF Promise!Piece

(***************************************************************************)
(* The turn of a client: it is sent one piece or none, and is closed or    *)
(* not; for the others nothing changes.                                    *)
(***************************************************************************)
LEMMA KeepsTurn ==
    ASSUME ResponsesInv, ResponsesInv', InPass, NEW f \in Fds, f = clients[cur][it],
           NEW c \in Conns, fdt[f] = c,
           NEW t \in Tables, SameSockets(t), DeleteClient(t) \/ NextClient(t),
           UNCHANGED <<conn, request, fin, inherited>>,
           \A d \in Conns \ {c} : out'[d] = out[d],
           \/ out'[c] = out[c]
           \/ ~fin[c] /\ \E m \in Promise!Piece : out'[c] = Append(out[c], m)
    PROVE  [Promise!Next]_(Promise!serviceVars)
<1>1. /\ TypeOK /\ TypeOK' /\ ConnsInv /\ ServesInv /\ ServesInv' /\ SentInv'
      /\ out \in [Conns -> Seq([by : Conns \cup {NoConn}, what : {"head", "body", "whole"}])]
      /\ out' \in [Conns -> Seq([by : Conns \cup {NoConn}, what : {"head", "body", "whole"}])]
  BY DEF ResponsesInv, Inv, TypeInv, TypeOK
<1>2. /\ NextClient(t) => fdt'[f] = c
      /\ DeleteClient(t) => fdt'[f] = Free
      /\ \A g \in Fds \ {f} : fdt'[g] = t[g]
  BY DEF NextClient, DeleteClient, CloseClient, Close, SameSockets
<1>3. \A g \in Fds \ {f} : /\ fdt'[g] \in Conns => fdt'[g] = fdt[g] /\ fdt[g] # c
                           /\ fdt[g] \in Conns => fdt'[g] = fdt[g]
  BY <1>1, <1>2 DEF SameSockets, ConnsInv
<1>4. conn[c] = "accepted" /\ State(c) = "open"
  BY <1>1 DEF ConnsInv, State, Open
<1>5. ASSUME NEW d \in Conns \ {c}
      PROVE  State(d)' = State(d)
  <2>1. Open(d)' <=> Open(d)
    BY <1>2, <1>3, Distinct DEF Open
  <2> QED
    BY <2>1 DEF State
<1>6. /\ NextClient(t) => Open(c)' /\ State(c)' = "open" /\ fdt'[f] = c
      /\ DeleteClient(t) => ~Open(c)' /\ State(c)' = "closed"
  BY <1>2, <1>3, <1>4, Distinct DEF State, Open
<1>7. [d \in Conns |-> State(d)]' = [[d \in Conns |-> State(d)] EXCEPT ![c] = State(c)']
  BY <1>5, OnlyStateOf
<1>8. UNCHANGED {d \in Conns : request[d] \in ThrowKinds}
  BY OddStays
<1> DEFINE S == [d \in Conns |-> State(d)]
<1>9. State(c)' = State(c) => S' = S
  BY <1>5
<1>10. State(c)' = "closed" => S' = [S EXCEPT ![c] = "closed"]
  BY <1>7
<1>11. S[c] = "open"
  BY <1>4
<1> HIDE DEF S
<1>12. ASSUME c \notin inherited, ~fin[c]
       PROVE  /\ Len(out[c]) \in 0 .. NBlocks /\ InOrder(c, Len(out[c]))
              /\ ~Promise!Complete(out[c])
  <2>1. EntryAt(f).step \in 0 .. NBlocks
    BY <1>1, EntryAtType DEF Entry
  <2>2. Len(out[c]) \in 0 .. NBlocks /\ InOrder(c, Len(out[c]))
    BY <1>1, <1>12, <2>1 DEF ServesInv, Serves
  <2> QED
    BY <1>1, <2>2, Incomplete DEF InOrder, Promise!Piece
<1>13. ASSUME c \notin inherited, ~fin[c], NextClient(t)
       PROVE  ~Promise!Complete(out'[c])
  <2>1. fdt'[f] = c /\ c \in Conns \ inherited' /\ ~fin'[c]
    BY <1>6, <1>13
  <2>2. PICK e : e = EntryAt(f)'
    OBVIOUS
  <2>3. e.step \in 0 .. NBlocks
    <3>1. cl'[f] \in Seq(Entry)
      BY <1>1 DEF TypeOK
    <3>2. cl'[f] = NoEntry \/ cl'[f][1] \in Entry
      BY <3>1 DEF NoEntry
    <3>3. e \in Entry
      BY <2>2, <3>2, NewEntryType DEF EntryAt
    <3> QED
      BY <3>3 DEF Entry
  <2>4. Len(out'[c]) = e.step /\ InOrder(c, e.step)'
    BY <1>1, <2>1, <2>2 DEF ServesInv, Serves, InOrder
  <2> QED
    BY <1>1, <2>3, <2>4, Incomplete DEF InOrder, Promise!Piece
<1>14. ASSUME c \notin inherited, ~fin[c], DeleteClient(t)
       PROVE  Promise!Complete(out'[c])
  <2>1. conn'[c] = "accepted" /\ ~Open(c)' /\ ~fin'[c] /\ c \in Conns \ inherited'
    BY <1>4, <1>6, <1>14
  <2>2. /\ Len(out'[c]) > 0
        /\ out'[c][Len(out'[c])].what = "whole" \/ Len(out'[c]) = NBlocks + 1
    BY <1>1, <2>1 DEF SentInv, Ended
  <2> QED
    BY <1>1, <2>2, CompleteIs DEF Promise!Piece
<1>15. S' = S \/ S' = [S EXCEPT ![c] = "closed"]
  BY <1>4, <1>6, <1>9, <1>10
<1>16. CASE out'[c] = out[c]
  <2>1. UNCHANGED out
    BY <1>1, <1>16
  <2>2. CASE NextClient(t)
    BY <1>4, <1>6, <1>8, <1>9, <2>1, <2>2 DEF Promise!serviceVars, S
  <2>3. CASE DeleteClient(t) /\ fin[c]
    <3>1. Promise!Leave(c)
      BY <1>6, <1>8, <1>10, <1>11, <2>1, <2>3 DEF Promise!Leave, Promise!Close, S
    <3> QED
      BY <3>1 DEF Promise!Next
  <2>4. CASE c \in inherited
    <3>1. Promise!Anything(c)
      BY <1>8, <1>11, <1>15, <2>1, <2>4 DEF Promise!Anything, Promise!Close, S
    <3> QED
      BY <3>1 DEF Promise!Next
  <2> QED
    BY <1>12, <1>14, <1>16, <2>2, <2>3, <2>4
<1>17. CASE ~fin[c] /\ \E m \in Promise!Piece : out'[c] = Append(out[c], m)
  <2>1. PICK m \in Promise!Piece : out'[c] = Append(out[c], m)
    BY <1>17
  <2>2. out' = [out EXCEPT ![c] = Append(@, m)]
    BY <1>1, <2>1
  <2>3. CASE c \in inherited
    <3>1. Promise!Anything(c)
      BY <1>8, <1>11, <1>15, <2>2, <2>3
         DEF Promise!Anything, Promise!Close, Promise!Send, S
    <3> QED
      BY <3>1 DEF Promise!Next
  <2>4. CASE c \notin inherited
    <3>1. PICK what \in {"whole", IF out[c] = <<>> THEN "head" ELSE "body"} :
            m = [by |-> c, what |-> what]
      BY <1>1, <1>12, <1>17, <2>1, <2>4, PieceIsDue
    <3>2. Promise!Send(c, [by |-> c, what |-> what])
      BY <2>2, <3>1 DEF Promise!Send
    <3>3. IF Promise!Complete(out'[c]) THEN S' = [S EXCEPT ![c] = "closed"] ELSE UNCHANGED S
      BY <1>4, <1>6, <1>9, <1>10, <1>13, <1>14, <1>17, <2>4
    <3>4. Promise!Reply(c)
      BY <1>8, <1>11, <1>17, <2>4, <3>2, <3>3 DEF Promise!Reply, Promise!Close, S
    <3> QED
      BY <3>4 DEF Promise!Next
  <2> QED
    BY <2>3, <2>4
<1> QED
  BY <1>16, <1>17

LEMMA KeepsDrive ==
    ASSUME ResponsesInv, ResponsesInv', InPass, NEW f \in Fds, f = clients[cur][it],
           NEW c \in Conns, fdt[f] = c,
           UNCHANGED <<conn, request, fin, inherited>>,
           NEW seg \in Seq(Units), Drive(f, seg)
    PROVE  [Promise!Next]_(Promise!serviceVars)
<1> DEFINE gone == fdt[f] \notin Conns \/ (fdt[f] \in Conns /\ fin[fdt[f]])
<1>1. PICK e : e = EntryAt(f)
  OBVIOUS
<1>2. PICK o \in DriverOutcomes(fdt, e, c, gone, request, seg) :
        /\ Deliver(c, o.msg)
        /\ IF o.ret = 0 THEN DeleteClient(o.fdt) ELSE NextClient(o.fdt)
  BY <1>1, DriveParts
<1>3. /\ TypeOK /\ FilesInv /\ NoCgiPost(request) /\ fdt \in Tables
      /\ request \in [Conns -> AllKinds] /\ gone \in BOOLEAN
      /\ conn[c] = "accepted" /\ SentInv'
  BY DEF ResponsesInv, ConnsInv, Inv, TypeInv, TypeOK, Tables
<1>4. e \in Entry /\ EntryOK(e) /\ HasFile(fdt, e)
  <2>1. e \in Entry /\ FileOf(f) = e.file
    BY <1>1, <1>3, EntryAtType, FileOfEntry
  <2>2. EntryOK(e)
    BY <1>1, <1>3, NewEntryOK DEF EntryAt, FilesInv
  <2> QED
    BY <1>3, <2>1, <2>2, FileOfEntry DEF FilesInv, FilesAreOwned, HasFile
<1> HIDE DEF gone
<1>5. SameSockets(o.fdt)
  <2>1. Effects(fdt, e, o)
    BY <1>2, <1>3, <1>4, DriverEffects
  <2> QED
    BY <2>1 DEF Effects, SameSockets
<1>6. o.fdt \in Tables /\ o.msg \in Messages
  <2>1. o \in Outcomes
    BY <1>2, <1>3, <1>4, DriverOutcomesType
  <2> QED
    BY <2>1 DEF Outcomes
<1>7. DeleteClient(o.fdt) \/ NextClient(o.fdt)
  BY <1>2
<1>8. /\ \A d \in Conns \ {c} : out'[d] = out[d]
      /\ fin[c] \/ o.msg = <<>> => UNCHANGED out
      /\ ~fin[c] /\ o.msg # <<>> =>
            out'[c] = IF IsPiece(o.msg) THEN Append(out[c], o.msg[1]) ELSE out[c]
  BY <1>2, <1>3, <1>6, DeliverNext
<1>9. IsPiece(o.msg) => o.msg[1] \in Promise!Piece
  BY <1>6 DEF Messages, Message, IsPiece, Promise!Piece
<1>10. \/ out'[c] = out[c]
       \/ ~fin[c] /\ \E m \in Promise!Piece : out'[c] = Append(out[c], m)
  BY <1>8, <1>9
<1> QED
  BY <1>3, <1>5, <1>6, <1>7, <1>8, <1>10, KeepsTurn

LEMMA KeepsRecvFails ==
    ASSUME ResponsesInv, ResponsesInv', RecvFails
    PROVE  [Promise!Next]_(Promise!serviceVars)
<1>1. Inv /\ TypeOK
  BY DEF ResponsesInv, Inv, TypeInv
<1>2. InPass /\ DeleteClient(fdt) /\ UNCHANGED <<conn, request, fin, out, inherited>>
  BY DEF RecvFails, InPass, peerVars
<1>3. PICK f : f = clients[cur][it]
  OBVIOUS
<1>4. f # Ghost
  BY <1>1, <1>3 DEF RecvFails, Inv, SocketsInv
<1>5. f \in Fds /\ fdt[f] \in Conns
  BY <1>1, <1>2, <1>3, <1>4, ClientInTurn
<1>6. fdt \in Tables /\ SameSockets(fdt)
  BY <1>1 DEF TypeOK, Tables, SameSockets
<1> QED
  BY <1>2, <1>3, <1>5, <1>6, KeepsTurn

LEMMA KeepsRecvData ==
    ASSUME ResponsesInv, ResponsesInv', RecvData
    PROVE  [Promise!Next]_(Promise!serviceVars)
<1>1. /\ Inv /\ TypeOK /\ rcvd \in [Conns -> Nat] /\ sent \in [Conns -> Nat]
      /\ \A v \in Conns : rcvd[v] <= sent[v] /\ sent[v] <= Len(Stream(request[v]))
  BY DEF ResponsesInv, Inv, TypeInv, TypeOK
<1>2. InPass /\ UNCHANGED <<conn, request, fin, inherited>>
  BY DEF RecvData, InPass
<1>3. PICK f : f = clients[cur][it]
  OBVIOUS
<1>4. f # Ghost
  BY <1>1, <1>3 DEF RecvData, Inv, SocketsInv
<1>5. f \in Fds /\ fdt[f] \in Conns
  BY <1>1, <1>2, <1>3, <1>4, ClientInTurn
<1>6. PICK c \in Conns : c = fdt[f]
  BY <1>5
<1>7. PICK n \in 1 .. Available(c) :
        IF f \in tmpwrite
        THEN Drive(f, SubSeq(Stream(request[c]), rcvd[c] + 1, rcvd[c] + n))
        ELSE NextClient(fdt) /\ UNCHANGED <<cl, out, unread>>
  BY <1>3, <1>6 DEF RecvData
<1>8. CASE f \in tmpwrite
  <2>1. PICK seg : seg = SubSeq(Stream(request[c]), rcvd[c] + 1, rcvd[c] + n)
    OBVIOUS
  <2>2. n \in Nat /\ rcvd[c] \in Nat /\ rcvd[c] + n <= Len(Stream(request[c]))
    <3>1. Len(Stream(request[c])) \in Nat
      BY StreamType
    <3> QED
      BY <1>1, <1>7, <3>1 DEF Available
  <2>3. seg \in Seq(Units)
    BY <2>1, <2>2, SegmentUnits DEF Segment
  <2>4. Drive(f, seg)
    BY <1>7, <1>8, <2>1
  <2> QED
    BY <1>2, <1>3, <1>5, <1>6, <2>3, <2>4, KeepsDrive
<1>9. CASE f \notin tmpwrite
  <2>1. fdt \in Tables /\ SameSockets(fdt)
    BY <1>1 DEF TypeOK, Tables, SameSockets
  <2> QED
    BY <1>2, <1>3, <1>5, <1>6, <1>7, <1>9, <2>1, KeepsTurn
<1> QED
  BY <1>8, <1>9

LEMMA KeepsWriteOnly ==
    ASSUME ResponsesInv, ResponsesInv', WriteOnly
    PROVE  [Promise!Next]_(Promise!serviceVars)
<1>1. Inv
  BY DEF ResponsesInv
<1>2. InPass /\ UNCHANGED <<conn, request, fin, inherited>>
  BY DEF WriteOnly, InPass
<1>3. PICK f : f = clients[cur][it]
  OBVIOUS
<1>4. IF f \in tmpwrite /\ readyforwrite[cur]
      THEN Drive(f, <<>>)
      ELSE NextClient(fdt) /\ UNCHANGED <<cl, out, unread>>
  BY <1>3 DEF WriteOnly
<1>5. CASE f \in tmpwrite /\ readyforwrite[cur]
  <2>1. f # Ghost
    BY <1>1, <1>5 DEF Inv, SocketsInv
  <2>2. f \in Fds /\ fdt[f] \in Conns
    BY <1>1, <1>2, <1>3, <2>1, ClientInTurn
  <2>3. PICK seg : seg = <<>>
    OBVIOUS
  <2>4. seg \in Seq(Units) /\ Drive(f, seg)
    BY <1>4, <1>5, <2>3
  <2> QED
    BY <1>2, <1>3, <2>2, <2>4, KeepsDrive
<1>6. CASE ~(f \in tmpwrite /\ readyforwrite[cur])
  BY <1>2, <1>4, <1>6, KeepsStill DEF NextClient
<1> QED
  BY <1>5, <1>6

LEMMA KeepsStep ==
    ASSUME ResponsesInv, ResponsesInv', [Next]_vars
    PROVE  [Promise!Next]_(Promise!serviceVars)
<1>1. CASE Select \/ SelectFails \/ EndPass
  BY <1>1, KeepsStill DEF Select, SelectFails, StartPass, EndPass, peerVars
<1>2. CASE UNCHANGED vars
  BY <1>2, KeepsStill DEF vars, peerVars
<1> QED
  BY <1>1, <1>2, KeepsPeers, KeepsAccept, KeepsNoAccept, KeepsRecvFails, KeepsRecvData,
     KeepsWriteOnly DEF Next, StartServer

(***************************************************************************)
(* The event loop implements Service, when no kind of request is a POST to *)
(* a script: for any number of servers, connections and descriptors, each  *)
(* step is one of Service or changes nothing that Service sees.            *)
(***************************************************************************)
THEOREM ServerKeepsPromise ==
    ASSUME "cgipost" \notin Kinds
    PROVE  Spec => ImplementsService
<1>1. Init => Promise!Init
  <2> SUFFICES ASSUME Init
               PROVE  Promise!Init
    OBVIOUS
  <2>1. \A c \in Conns : State(c) = "new" /\ request[c] \notin ThrowKinds
    BY DEF Init, State, ThrowKinds
  <2> QED
    BY <2>1 DEF Init, Promise!Init
<1>2. Init => ResponsesInv
  BY ResponsesInit
<1>3. ResponsesInv /\ [Next]_vars => ResponsesInv'
  <2>1. ResponsesInv /\ [Next]_vars => NoCgiPost(request')
    BY InvAlways DEF ResponsesInv, Inv
  <2> QED
    BY <2>1, ResponsesStep
<1>4. ResponsesInv /\ ResponsesInv' /\ [Next]_vars => [Promise!Next]_(Promise!serviceVars)
  BY KeepsStep
<1> QED
  BY <1>1, <1>2, <1>3, <1>4, PTL DEF Spec, ImplementsService, Promise!Spec
===============================================================================
