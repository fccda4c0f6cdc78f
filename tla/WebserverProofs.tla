--------------------------- MODULE WebserverProofs ----------------------------
(***************************************************************************)
(* Proofs about the event loop, for any number of servers, connections,    *)
(* descriptors and blocks.                                                 *)
(***************************************************************************)
EXTENDS Webserver, SequenceTheorems, WellFoundedInduction, FiniteSetTheorems, TLAPS

(***************************************************************************)
(* One call of the driver.                                                 *)
(***************************************************************************)
Tables == [Fds -> Objects]

\* A nonempty set of descriptor numbers has a least element.
LEMMA LeastFd ==
    ASSUME NEW S, S \subseteq Fds, S # {}
    PROVE  Min(S) \in S
<1> DEFINE R == {p \in Nat \X Nat : p[1] < p[2]}
<1>1. S \subseteq Nat
  BY HandlingAssumption DEF Fds
<1>2. IsWellFoundedOn(R, Nat)
  BY NatLessThanWellFounded DEF OpToRel
<1>3. PICK x \in S : \A y \in S : <<y, x>> \notin R
  BY <1>1, <1>2, WFMin
<1>4. ASSUME NEW y \in S
      PROVE  x =< y
  <2>1. y \in Nat /\ x \in Nat /\ <<y, x>> \notin R
    BY <1>1, <1>3
  <2>2. ~(y < x)
    BY <2>1
  <2> QED
    BY <2>1, <2>2
<1> QED
  BY <1>4 DEF Min

\* The number that open and accept return is free, unless none is.
LEMMA LowestFreeIsFree ==
    ASSUME NEW t \in Tables
    PROVE  \/ LowestFree(t) \in FreeFds(t)
           \/ FreeFds(t) = {} /\ LowestFree(t) = NoFd
BY LeastFd DEF LowestFree, FreeFds
-------------------------------------------------------------------------------
(***************************************************************************)
(* Types.                                                                  *)
(***************************************************************************)
Entries == {NoEntry} \cup {<<e>> : e \in Entry}
Message == [by : Conns \cup {NoConn}, what : {"head", "body", "whole", "blank"}]
Messages == {<<>>} \cup {<<m>> : m \in Message}
Outcomes == [fdt : Tables, entry : Entries, ret : {0, 1}, msg : Messages,
             shut : BOOLEAN]

\* The table of descriptors stays one when numbers are closed or a file is
\* opened.
LEMMA TableTypes ==
    ASSUME NEW t \in Tables
    PROVE  /\ \A fs : Close(t, fs) \in Tables
           /\ \A f : Install(t, f, File) \in Tables
BY DEF Tables, Objects, Close, Install

\* A file is read at least once, so the step after the head is a step.
LEMMA OneBlock == 1 \in 0 .. NBlocks
BY HandlingAssumption

\* The constructor of cl makes an entry.
LEMMA NewEntryType == NewEntry \in Entry
BY HandlingAssumption DEF NewEntry, Entry, NoFd, AllKinds

\* Whatever an entry sends is one message.
LEMMA MsgType ==
    ASSUME NEW e \in Entry, NEW what \in {"head", "body", "whole", "blank"}
    PROVE  Msg(e, what) \in Messages
<1>1. [by |-> e.owner, what |-> what] \in Message
  BY DEF Entry, Message
<1> QED
  BY <1>1 DEF Msg, Messages

\* The ways a call of the driver may end are outcomes.
LEMMA EndTypes ==
    ASSUME NEW t \in Tables, NEW e \in Entry
    PROVE  /\ \A msg \in Messages : Finish(t, e, msg) \in Outcomes
           /\ \A msg \in Messages : Continue(t, e, msg) \in Outcomes
           /\ ThrowStatus(t, e) \in Outcomes
           /\ CatchAll(t, e) \in Outcomes
<1>1. Erase(t, e) \in Tables
  BY TableTypes DEF Erase
<1>2. <<e>> \in Entries /\ NoEntry \in Entries
  BY DEF Entries
<1>3. ASSUME NEW msg \in Messages
      PROVE  Finish(t, e, msg) \in Outcomes /\ Continue(t, e, msg) \in Outcomes
  BY <1>1, <1>2 DEF Finish, Continue, Outcome, Outcomes
<1>4. Msg(e, "whole") \in Messages
  BY MsgType
<1> QED
  BY <1>2, <1>3, <1>4 DEF ThrowStatus, CatchAll, Outcome, Outcomes

\* Sending one more block is an outcome: step never passes NBlocks.
LEMMA NextBlockType ==
    ASSUME NEW t \in Tables, NEW e \in Entry
    PROVE  NextBlock(t, e) \in Outcomes
<1>1. Msg(e, "body") \in Messages
  BY MsgType
<1>2. CASE e.step = NBlocks
  BY <1>1, <1>2, EndTypes DEF NextBlock
<1>3. CASE e.step # NBlocks
  <2>1. [e EXCEPT !.step = @ + 1] \in Entry
    BY <1>3, HandlingAssumption DEF Entry
  <2> QED
    BY <1>1, <1>3, <2>1, EndTypes DEF NextBlock
<1> QED
  BY <1>2, <1>3

\* So is each call of send_response_200.
LEMMA SendResponse200Type ==
    ASSUME NEW t \in Tables, NEW e \in Entry, NEW gone \in BOOLEAN
    PROVE  SendResponse200(t, e, gone) \subseteq Outcomes
<1>1. <<>> \in Messages /\ Msg(e, "head") \in Messages
  BY MsgType DEF Messages
<1>2. SendFailed(t, e) \in Outcomes
  <2>1. [e EXCEPT !.file = NoFd] \in Entry
    BY DEF Entry
  <2> QED
    BY <1>1, <2>1, EndTypes, TableTypes DEF SendFailed
<1>3. FreeFds(t) # {} => OpenFile(t, e, LowestFree(t)) \in Outcomes
  <2>1. SUFFICES ASSUME FreeFds(t) # {}
                 PROVE  OpenFile(t, e, LowestFree(t)) \in Outcomes
    OBVIOUS
  <2>2. LowestFree(t) \in Fds
    BY <2>1, LowestFreeIsFree DEF FreeFds
  <2>3. [e EXCEPT !.step = 1, !.file = LowestFree(t)] \in Entry
    BY <2>2, OneBlock DEF Entry
  <2> QED
    BY <1>1, <2>3, EndTypes, TableTypes DEF OpenFile
<1>4. e.step \in 0 .. NBlocks
  BY DEF Entry
<1> QED
  BY <1>1, <1>2, <1>3, <1>4, EndTypes, NextBlockType, HandlingAssumption
  DEF SendResponse200

\* So is each call of cgi_run.
LEMMA CgiRunType ==
    ASSUME NEW t \in Tables, NEW e \in Entry
    PROVE  CgiRun(t, e) \subseteq Outcomes
<1> DEFINE f == LowestFree(t)
           g == LowestFree(Install(t, f, File))
           numbers == IF e.kind = "cgipost" THEN {f, g} ELSE {f}
           e1 == [e EXCEPT !.step = 1, !.file = f, !.held = numbers \ {NoFd}]
<1>1. /\ Msg(e, "whole") \in Messages /\ Msg(e, "head") \in Messages
      /\ Msg(e, "blank") \in Messages
  BY MsgType
<1>2. f \in Fds \cup {NoFd} /\ g \in Fds \cup {NoFd}
  <2>1. Install(t, f, File) \in Tables
    BY TableTypes
  <2> QED
    BY <2>1, LowestFreeIsFree DEF FreeFds
<1>3. e1 \in Entry
  <2> HIDE DEF f, g
  <2> QED
    BY <1>2, OneBlock DEF Entry
<1>4. Continue(Install(t, f, File), e1, Msg(e, "head")) \in Outcomes
  <2> HIDE DEF f, e1
  <2> QED
    BY <1>1, <1>3, EndTypes, TableTypes
<1>5. /\ Finish(t, e, Msg(e, "whole")) \in Outcomes
      /\ Continue(t, e, Msg(e, "blank")) \in Outcomes
      /\ NextBlock(t, e) \in Outcomes
  BY <1>1, EndTypes, NextBlockType
<1>6. e.step \in 0 .. NBlocks
  BY DEF Entry
<1> QED
  BY <1>4, <1>5, <1>6, HandlingAssumption DEF CgiRun

\* So is each call of get_method.
LEMMA GetMethodType ==
    ASSUME NEW t \in Tables, NEW e \in Entry, NEW gone \in BOOLEAN,
           e.kind \in GetKinds
    PROVE  GetMethod(t, e, gone) \subseteq Outcomes
<1>1. ThrowStatus(t, e) \in Outcomes /\ Shut(Finish(t, e, Msg(e, "whole"))) \in Outcomes
  <2>1. ThrowStatus(t, e) \in Outcomes /\ Finish(t, e, Msg(e, "whole")) \in Outcomes
    BY EndTypes, MsgType
  <2>2. \A o \in Outcomes : Shut(o) \in Outcomes
    BY DEF Shut, Outcomes
  <2> QED
    BY <2>1, <2>2
<1> QED
  BY <1>1, SendResponse200Type, CgiRunType DEF GetMethod, GetKinds

\* So is the answer to an upload that is complete.
LEMMA CreatedType ==
    ASSUME NEW t \in Tables, NEW e \in Entry
    PROVE  Created(t, e) \subseteq Outcomes
<1>1. [e EXCEPT !.post_end = TRUE] \in Entry
  BY DEF Entry
<1>2. Finish(t, e, Msg(e, "whole")) \in Outcomes
  BY EndTypes, MsgType
<1> QED
  BY <1>1, <1>2, CgiRunType DEF Created

\* So is each piece of a body: no more than PostLen units are stored.
LEMMA StoreBodyType ==
    ASSUME NEW t \in Tables, NEW e \in Entry, NEW n \in Nat
    PROVE  StoreBody(t, e, n) \subseteq Outcomes
<1> DEFINE f  == LowestFree(t)
           t1 == IF e.first_time THEN Install(t, f, File) ELSE t
           e1 == IF e.first_time THEN [e EXCEPT !.first_time = FALSE, !.file = f]
                 ELSE e
           e2 == [e1 EXCEPT !.got = @ + n]
           e3 == [e1 EXCEPT !.got = PostLen, !.file = NoFd]
<1>1. f \in Fds \cup {NoFd}
  BY LowestFreeIsFree DEF FreeFds
<1>2. t1 \in Tables
  BY TableTypes
<1>3. e1 \in Entry
  <2> HIDE DEF f
  <2> QED
    BY <1>1 DEF Entry
<1>4. e1.got + n < PostLen => e2 \in Entry
  <2> HIDE DEF e1
  <2> QED
    BY <1>3, HandlingAssumption DEF Entry
<1>5. e3 \in Entry
  <2> HIDE DEF e1
  <2>1. PostLen \in 0 .. PostLen
    BY HandlingAssumption
  <2> QED
    BY <1>3, <2>1 DEF Entry
<1>6. e1.got + n < PostLen => Continue(t1, e2, <<>>) \in Outcomes
  <2> HIDE DEF t1, e2
  <2>1. <<>> \in Messages
    BY DEF Messages
  <2> QED
    BY <1>2, <1>4, <2>1, EndTypes
<1>7. Created(t, e) \subseteq Outcomes
  BY CreatedType
<1>8. Created(Close(t1, {e1.file}), e3) \subseteq Outcomes
  <2> HIDE DEF t1, e1, e3
  <2> QED
    BY <1>2, <1>5, CreatedType, TableTypes
<1>9. e.post_end \in BOOLEAN
  BY DEF Entry
<1>10. CASE e.post_end
  BY <1>7, <1>10 DEF StoreBody
<1>11. CASE ~e.post_end /\ e1.got + n < PostLen
  BY <1>6, <1>11 DEF StoreBody
<1>12. CASE ~e.post_end /\ ~(e1.got + n < PostLen)
  BY <1>8, <1>12 DEF StoreBody
<1> QED
  BY <1>9, <1>10, <1>11, <1>12

\* So is each call of post_request.
LEMMA PostRequestType ==
    ASSUME NEW t \in Tables, NEW e \in Entry, NEW n \in Nat
    PROVE  PostRequest(t, e, n) \subseteq Outcomes
<1>1. StoreBody(t, e, n) \subseteq Outcomes /\ Created(t, e) \subseteq Outcomes
  BY StoreBodyType, CreatedType
<1>2. Continue(t, e, <<>>) \in Outcomes
  BY EndTypes DEF Messages
<1>3. CatchAll(t, [e EXCEPT !.first_time = FALSE]) \in Outcomes
  <2>1. [e EXCEPT !.first_time = FALSE] \in Entry
    BY DEF Entry
  <2> QED
    BY <2>1, EndTypes
<1>4. e.first_time \in BOOLEAN
  BY DEF Entry
<1> QED
  BY <1>1, <1>2, <1>3, <1>4 DEF PostRequest

\* The length of the body that came with a head is a number.
LEMMA BodyLenType ==
    ASSUME NEW e, NEW seg \in Seq(Units)
    PROVE  BodyLen(e, seg) \in Nat
<1>1. IsFiniteSet(DOMAIN seg)
  BY FS_Interval
<1>2. IsFiniteSet({i \in DOMAIN seg : seg[i] = "B"})
  BY <1>1, FS_Subset
<1> QED
  BY <1>2, FS_CardinalityType DEF BodyLen

(***************************************************************************)
(* What parse_request makes of the entry: r has read seg, and the head of  *)
(* r is complete, with a request of kind k of connection w.                *)
(***************************************************************************)
Received(e, c, seg) == [e EXCEPT !.who = IF seg = <<>> THEN @ ELSE @ \cup {c}]
HeadOf(r, w, k) == [[r EXCEPT !.start_read = TRUE] EXCEPT !.owner = w, !.kind = k]

\* What the entry an exception leaves may go on with.
LeftKinds == ((GetKinds \cup {"postthrow"}) \cap Kinds) \cup {"status"}

\* The three ways in which a part of a head may be taken.
LEMMA HeadBegun ==
    ASSUME NEW e, NEW c, NEW kinds, NEW seg, ~e.start_read, ~HeadEnds(seg),
           NEW p \in ParseRequest(e, c, kinds, seg)
    PROVE  LET r == Received(e, c, seg)
           IN  \/ p = Parsed("more", r)
               \/ /\ p = Parsed("refused", OwnedBy(r, c))
                  /\ seg # <<>> /\ (r.who # {c} \/ kinds[c] = "status")
               \/ \E w \in r.who :
                     /\ p = Parsed("exception", OwnedBy(r, w))
                     /\ seg # <<>> /\ (r.who # {c} \/ kinds[w] = "throw")
<1> DEFINE r == Received(e, c, seg)
<1>1. ParseRequest(e, c, kinds, seg) =
        {Parsed("more", r)}
        \cup {Parsed("refused", OwnedBy(r, v)) :
                 v \in {w \in {c} : seg # <<>> /\ (r.who # {c} \/ kinds[w] = "status")}}
        \cup {Parsed("exception", OwnedBy(r, w)) :
                 w \in {v \in r.who : seg # <<>> /\ (r.who # {c} \/ kinds[v] = "throw")}}
  BY DEF ParseRequest, Received
<1> HIDE DEF r
<1>2. \/ p = Parsed("more", r)
      \/ /\ p = Parsed("refused", OwnedBy(r, c))
         /\ seg # <<>> /\ (r.who # {c} \/ kinds[c] = "status")
      \/ \E w \in r.who : /\ p = Parsed("exception", OwnedBy(r, w))
                          /\ seg # <<>> /\ (r.who # {c} \/ kinds[w] = "throw")
  BY <1>1
<1> QED
  BY <1>2 DEF r

\* The three ways in which a head that is complete may be read.
LEMMA HeadEnded ==
    ASSUME NEW e, NEW c, NEW kinds, NEW seg, ~e.start_read, HeadEnds(seg)
    PROVE  ParseRequest(e, c, kinds, seg) =
             LET r == Received(e, c, seg)
             IN  {Parsed("ready", HeadOf(r, w, kinds[w])) :
                    w \in {v \in r.who : kinds[v] # "throw"}}
                 \cup {Parsed("ready", HeadOf(r, c, "status")) : x \in {y \in {c} : r.who # {c}}}
                 \cup {Parsed("exception", HeadOf(r, w, k)) :
                         w \in {v \in r.who : r.who # {c} \/ kinds[v] = "throw"},
                         k \in LeftKinds}
BY DEF ParseRequest, Received, HeadOf, LeftKinds

\* Bytes of one connection more have made the head.
LEMMA ReceivedType ==
    ASSUME NEW e \in Entry, NEW c, NEW seg, seg # <<>> => c \in Conns
    PROVE  /\ Received(e, c, seg) \in Entry
           /\ Received(e, c, seg).file = e.file
           /\ Received(e, c, seg).start_read = e.start_read
<1> DEFINE who == IF seg = <<>> THEN e.who ELSE e.who \cup {c}
<1>1. who \subseteq Conns
  BY DEF Entry
<1>2. Received(e, c, seg) = [e EXCEPT !.who = who]
  BY DEF Received
<1> HIDE DEF who
<1> QED
  BY <1>1, <1>2 DEF Entry

\* The entries parse_request may return are well typed.
LEMMA ParseRequestType ==
    ASSUME NEW e \in Entry, NEW c, NEW kinds \in [Conns -> AllKinds],
           NEW seg \in Seq(Units), seg # <<>> => c \in Conns
    PROVE  ParseRequest(e, c, kinds, seg)
             \subseteq [res : {"ready", "more", "refused", "exception"}, entry : Entry]
<1> DEFINE r == Received(e, c, seg)
<1>1. r \in Entry
  BY ReceivedType
<1>2. ASSUME NEW w \in Conns, NEW k \in AllKinds
      PROVE  HeadOf(r, w, k) \in Entry
  <2> HIDE DEF r
  <2> QED
    BY <1>1 DEF Entry, HeadOf
<1>3. r.who \subseteq Conns
  BY <1>1 DEF Entry
<1>4. HeadEnds(seg) => c \in Conns
  BY DEF HeadEnds
<1>5. "status" \in AllKinds /\ LeftKinds \subseteq AllKinds
  BY DEF AllKinds, LeftKinds, PostKinds
<1>6. CASE e.start_read
  BY <1>6 DEF ParseRequest, Parsed
<1>7. CASE ~e.start_read /\ ~HeadEnds(seg)
  <2>1. ASSUME NEW w \in Conns PROVE OwnedBy(r, w) \in Entry
    <3> HIDE DEF r
    <3> QED
      BY <1>1 DEF Entry, OwnedBy
  <2>2. ASSUME NEW p \in ParseRequest(e, c, kinds, seg)
        PROVE  p \in [res : {"ready", "more", "refused", "exception"}, entry : Entry]
    <3>1. \/ p = Parsed("more", r)
          \/ p = Parsed("refused", OwnedBy(r, c)) /\ c \in Conns
          \/ \E w \in r.who : p = Parsed("exception", OwnedBy(r, w))
      BY <1>7, HeadBegun
    <3> HIDE DEF r
    <3> QED
      BY <1>1, <1>3, <2>1, <3>1 DEF Parsed
  <2> QED
    BY <2>2
<1>8. CASE ~e.start_read /\ HeadEnds(seg)
  <2> HIDE DEF r
  <2>1. \A w \in r.who : HeadOf(r, w, kinds[w]) \in Entry
    BY <1>2, <1>3
  <2>2. HeadOf(r, c, "status") \in Entry
    BY <1>2, <1>4, <1>5, <1>8
  <2>3. \A w \in r.who, k \in LeftKinds : HeadOf(r, w, k) \in Entry
    BY <1>2, <1>3, <1>5
  <2> QED
    BY <1>8, <2>1, <2>2, <2>3, HeadEnded DEF Parsed, r
<1>9. e.start_read \in BOOLEAN
  BY DEF Entry
<1> QED
  BY <1>6, <1>7, <1>8, <1>9

\* So is one step of any request.
LEMMA DispatchType ==
    ASSUME NEW t \in Tables, NEW e \in Entry, NEW n \in Nat, NEW gone \in BOOLEAN
    PROVE  Dispatch(t, e, n, gone) \subseteq Outcomes
BY GetMethodType, PostRequestType, EndTypes DEF Dispatch

\* Every outcome of a call of the driver is well typed.
LEMMA DriverOutcomesType ==
    ASSUME NEW t \in Tables, NEW e \in Entry, NEW c, NEW gone \in BOOLEAN,
           NEW kinds \in [Conns -> AllKinds],
           NEW seg \in Seq(Units), seg # <<>> => c \in Conns
    PROVE  DriverOutcomes(t, e, c, gone, kinds, seg) \subseteq Outcomes
<1>1. ASSUME NEW p \in ParseRequest(e, c, kinds, seg)
      PROVE  (CASE p.res = "more"      -> {Continue(t, p.entry, <<>>)}
                [] p.res = "refused"   -> {ThrowStatus(t, p.entry)}
                [] p.res = "exception" -> {CatchAll(t, p.entry)}
                [] p.res = "ready"     -> Dispatch(t, p.entry, BodyLen(e, seg), gone))
             \subseteq Outcomes
  <2>0. ParseRequest(e, c, kinds, seg)
          \subseteq [res : {"ready", "more", "refused", "exception"}, entry : Entry]
    BY ParseRequestType
  <2>1. p.res \in {"ready", "more", "refused", "exception"} /\ p.entry \in Entry
    BY <2>0
  <2>2. /\ Continue(t, p.entry, <<>>) \in Outcomes /\ CatchAll(t, p.entry) \in Outcomes
        /\ ThrowStatus(t, p.entry) \in Outcomes
    BY <2>1, EndTypes DEF Messages
  <2>3. Dispatch(t, p.entry, BodyLen(e, seg), gone) \subseteq Outcomes
    BY <2>1, BodyLenType, DispatchType
  <2> QED
    BY <2>1, <2>2, <2>3
<1> QED
  BY <1>1 DEF DriverOutcomes
-------------------------------------------------------------------------------
(***************************************************************************)
(* What a call does to the table of descriptors, when no POST goes to a    *)
(* CGI script.  EntryOK is what the calls keep true of an entry: only the  *)
(* CGI holds numbers, and only that of its own open stream; an entry that  *)
(* has not begun its response or its upload has no file.                   *)
(***************************************************************************)
EntryOK(e) ==
    /\ e.kind # "cgipost"
    /\ e.held # {} => e.kind = "cgiget" /\ e.held = {e.file}
    /\ ~e.start_read => e.kind = "status" /\ e.first_time
    /\ e.kind \in GetKinds => e.first_time
    /\ e.kind \notin GetKinds => e.step = 0
    /\ e.step = 0 /\ e.first_time => e.file = NoFd

HasFile(t, e) == e.file = NoFd \/ (e.file \in Fds /\ t[e.file] = File)

(***************************************************************************)
(* No socket is opened or closed; the open files are those that were open, *)
(* without the entry's, and the one the entry now has, which is the one it *)
(* had or was free.                                                        *)
(***************************************************************************)
Effects(t, e, o) ==
    /\ \A g \in Fds : t[g] \in Conns \cup {Listener} => o.fdt[g] = t[g]
    /\ \A g \in Fds : o.fdt[g] \in Conns \cup {Listener} => t[g] = o.fdt[g]
    /\ \A g \in Fds : o.fdt[g] = File <=>
          \/ t[g] = File /\ g # e.file
          \/ o.entry # NoEntry /\ o.entry[1].file = g
    /\ o.entry # NoEntry =>
          LET d == o.entry[1]
          IN  /\ EntryOK(d)
              /\ d.file \in {NoFd, e.file} \/ (d.file \in Fds /\ t[d.file] = Free)

\* The things a descriptor refers to differ, and -1 is no descriptor.
LEMMA Distinct ==
    /\ File # Free /\ File # Listener /\ Free # Listener
    /\ File \notin Conns /\ Free \notin Conns /\ Listener \notin Conns
    /\ NoFd \notin Fds /\ Fds \subseteq Nat
BY HandlingAssumption DEF NoFd, Fds

\* Ending a response closes the file of the entry and nothing else.
LEMMA FinishEffects ==
    ASSUME NEW t \in Tables, NEW e \in Entry, EntryOK(e), HasFile(t, e), NEW msg
    PROVE  Effects(t, e, Finish(t, e, msg))
<1>1. e.held \subseteq {e.file}
  BY DEF EntryOK
<1>2. {e.file} \cup e.held = {e.file}
  BY <1>1
<1>3. Finish(t, e, msg).fdt = Close(t, {e.file}) /\ Finish(t, e, msg).entry = NoEntry
  BY <1>2 DEF Finish, Erase, Outcome
<1> QED
  BY <1>3, Distinct DEF Effects, Close, HasFile

\* Going on without opening or closing anything.
LEMMA ContinueEffects ==
    ASSUME NEW t \in Tables, NEW e \in Entry, EntryOK(e), HasFile(t, e),
           NEW d \in Entry, EntryOK(d), d.file = e.file, NEW msg
    PROVE  Effects(t, e, Continue(t, d, msg)) /\ Effects(t, e, CatchAll(t, d))
<1>1. /\ Continue(t, d, msg).fdt = t /\ Continue(t, d, msg).entry = <<d>>
      /\ CatchAll(t, d).fdt = t /\ CatchAll(t, d).entry = <<d>>
  BY DEF Continue, CatchAll, Outcome
<1>2. <<d>> # NoEntry /\ <<d>>[1] = d
  BY DEF NoEntry
<1> QED
  BY <1>1, <1>2, Distinct DEF Effects, HasFile

\* Going on with a file that has just been opened, or could not be.
LEMMA OpenEffects ==
    ASSUME NEW t \in Tables, NEW e \in Entry, e.file = NoFd,
           NEW d \in Entry, EntryOK(d), d.file = LowestFree(t), NEW msg
    PROVE  Effects(t, e, Continue(Install(t, LowestFree(t), File), d, msg))
<1> DEFINE f == LowestFree(t)
           o == Continue(Install(t, f, File), d, msg)
<1>1. o.fdt = Install(t, f, File) /\ o.entry = <<d>>
  BY DEF Continue, Outcome
<1>2. <<d>> # NoEntry /\ <<d>>[1] = d
  BY DEF NoEntry
<1>3. f = NoFd \/ (f \in Fds /\ t[f] = Free)
  BY LowestFreeIsFree DEF FreeFds
<1>4. \A g \in Fds : o.fdt[g] = IF g = f THEN File ELSE t[g]
  BY <1>1 DEF Install
<1> HIDE DEF f, o
<1>5. d.file = f
  BY DEF f
<1>6. Effects(t, e, o)
  BY <1>1, <1>2, <1>3, <1>4, <1>5, Distinct DEF Effects
<1> QED
  BY <1>6 DEF o, f

\* Going on with the file closed.
LEMMA CloseEffects ==
    ASSUME NEW t \in Tables, NEW e \in Entry, HasFile(t, e),
           NEW d \in Entry, EntryOK(d), d.file = NoFd, NEW msg
    PROVE  Effects(t, e, Continue(Close(t, {e.file}), d, msg))
<1> DEFINE o == Continue(Close(t, {e.file}), d, msg)
<1>1. o.fdt = Close(t, {e.file}) /\ o.entry = <<d>>
  BY DEF Continue, Outcome
<1>2. <<d>> # NoEntry /\ <<d>>[1] = d
  BY DEF NoEntry
<1>3. \A g \in Fds : o.fdt[g] = IF g = e.file THEN Free ELSE t[g]
  BY <1>1 DEF Close
<1> HIDE DEF o
<1>4. Effects(t, e, o)
  BY <1>1, <1>2, <1>3, Distinct DEF Effects, HasFile
<1> QED
  BY <1>4 DEF o

\* Sending a block opens nothing; the last one closes the file.
LEMMA NextBlockEffects ==
    ASSUME NEW t \in Tables, NEW e \in Entry, EntryOK(e), HasFile(t, e),
           e.kind \in GetKinds, e.step > 0
    PROVE  Effects(t, e, NextBlock(t, e))
<1>1. CASE e.step = NBlocks
  BY <1>1, FinishEffects DEF NextBlock
<1>2. CASE e.step # NBlocks
  <2> DEFINE d == [e EXCEPT !.step = @ + 1]
  <2>1. d \in Entry
    BY <1>2, HandlingAssumption DEF Entry
  <2>2. e.step \in Nat
    BY DEF Entry
  <2>3. EntryOK(d) /\ d.file = e.file
    BY <2>2 DEF EntryOK, Entry
  <2> HIDE DEF d
  <2>4. Effects(t, e, Continue(t, d, Msg(e, "body")))
    BY <2>1, <2>3, ContinueEffects
  <2> QED
    BY <1>2, <2>4 DEF NextBlock, d
<1> QED
  BY <1>1, <1>2

\* A download opens one file, and only its first call does.
LEMMA SendResponse200Effects ==
    ASSUME NEW t \in Tables, NEW e \in Entry, EntryOK(e), HasFile(t, e),
           NEW gone \in BOOLEAN, e.kind = "get",
           NEW o \in SendResponse200(t, e, gone)
    PROVE  Effects(t, e, o)
<1>1. e.held = {} /\ e.first_time /\ e.step \in 0 .. NBlocks
  BY DEF EntryOK, GetKinds, Entry
<1>2. Effects(t, e, SendFailed(t, e))
  <2> DEFINE d == [e EXCEPT !.file = NoFd]
  <2>1. d \in Entry /\ d.file = NoFd
    BY DEF Entry
  <2>2. EntryOK(d)
    BY <1>1 DEF EntryOK, Entry
  <2> HIDE DEF d
  <2>3. Effects(t, e, Continue(Close(t, {e.file}), d, <<>>))
    BY <2>1, <2>2, CloseEffects
  <2> QED
    BY <2>3 DEF SendFailed, d
<1>3. ASSUME e.step = 0, FreeFds(t) # {}
      PROVE  Effects(t, e, OpenFile(t, e, LowestFree(t)))
  <2> DEFINE f == LowestFree(t)
             d == [e EXCEPT !.step = 1, !.file = f]
  <2>1. f \in Fds
    BY <1>3, LowestFreeIsFree DEF FreeFds
  <2>2. d \in Entry /\ d.file = f
    <3> HIDE DEF f
    <3> QED
      BY <2>1, OneBlock DEF Entry
  <2>3. EntryOK(d)
    <3> HIDE DEF f
    <3> QED
      BY <1>1, <2>1 DEF EntryOK, Entry, GetKinds
  <2>4. e.file = NoFd
    BY <1>1, <1>3 DEF EntryOK
  <2> HIDE DEF d
  <2>5. Effects(t, e, Continue(Install(t, LowestFree(t), File), d, Msg(e, "head")))
    BY <2>2, <2>3, <2>4, OpenEffects
  <2> QED
    BY <2>5 DEF OpenFile, d
<1>4. Effects(t, e, ThrowStatus(t, e)) /\ Effects(t, e, Finish(t, e, <<>>))
  BY FinishEffects DEF ThrowStatus
<1>5. e.step > 0 => Effects(t, e, NextBlock(t, e))
  BY NextBlockEffects DEF GetKinds
<1>6. CASE o = SendFailed(t, e)
  BY <1>2, <1>6
<1>7. CASE o # SendFailed(t, e)
  BY <1>1, <1>3, <1>4, <1>5, <1>7, HandlingAssumption DEF SendResponse200
<1> QED
  BY <1>6, <1>7

\* A CGI for a GET leaves in out_fd the number that its stream has too.
LEMMA CgiRunEffects ==
    ASSUME NEW t \in Tables, NEW e \in Entry, EntryOK(e), HasFile(t, e),
           e.kind = "cgiget", NEW o \in CgiRun(t, e)
    PROVE  Effects(t, e, o)
<1>1. e.first_time /\ e.step \in 0 .. NBlocks
  BY DEF EntryOK, GetKinds, Entry
<1> DEFINE f == LowestFree(t)
           d == [e EXCEPT !.step = 1, !.file = f, !.held = {f} \ {NoFd}]
<1>2. f \in Fds \cup {NoFd}
  BY LowestFreeIsFree DEF FreeFds
<1>3. d \in Entry /\ d.file = f
  <2> HIDE DEF f
  <2> QED
    BY <1>2, OneBlock DEF Entry
<1>4. EntryOK(d)
  <2> HIDE DEF f
  <2> QED
    BY <1>1, <1>2 DEF EntryOK, Entry, GetKinds
<1>5. e.step = 0 => Effects(t, e, Continue(Install(t, LowestFree(t), File), d, Msg(e, "head")))
  <2> HIDE DEF d
  <2> QED
    BY <1>1, <1>3, <1>4, OpenEffects DEF EntryOK
<1>6. /\ Effects(t, e, Finish(t, e, Msg(e, "whole")))
      /\ Effects(t, e, Continue(t, e, Msg(e, "blank")))
  BY FinishEffects, ContinueEffects
<1>7. e.step > 0 => Effects(t, e, NextBlock(t, e))
  BY NextBlockEffects DEF GetKinds
<1>8. CASE e.step = 0
  <2>1. o \in {Finish(t, e, Msg(e, "whole")),
               Continue(Install(t, LowestFree(t), File), d, Msg(e, "head"))}
    BY <1>8 DEF CgiRun
  <2> HIDE DEF d
  <2> QED
    BY <1>5, <1>6, <1>8, <2>1
<1>9. CASE e.step > 0
  <2>1. o \in {Continue(t, e, Msg(e, "blank")), NextBlock(t, e)}
    BY <1>9 DEF CgiRun
  <2> QED
    BY <1>6, <1>7, <1>9, <2>1
<1> QED
  BY <1>1, <1>8, <1>9, HandlingAssumption

\* That a redirect closes its socket is seen in the field shut alone.
LEMMA ShutFinish ==
    ASSUME NEW t, NEW e, NEW msg
    PROVE  LET o == Finish(t, e, msg)
               s == Shut(o)
           IN  s.fdt = o.fdt /\ s.entry = o.entry /\ s.ret = o.ret /\ s.msg = o.msg
BY DEF Shut, Finish, Outcome

\* So a GET opens and closes no file but its own.
LEMMA GetMethodEffects ==
    ASSUME NEW t \in Tables, NEW e \in Entry, EntryOK(e), HasFile(t, e),
           NEW gone \in BOOLEAN, e.kind \in GetKinds,
           NEW o \in GetMethod(t, e, gone)
    PROVE  Effects(t, e, o)
<1>1. Effects(t, e, ThrowStatus(t, e)) /\ Effects(t, e, Shut(Finish(t, e, Msg(e, "whole"))))
  BY FinishEffects, ShutFinish DEF ThrowStatus, Effects
<1>2. \/ o = ThrowStatus(t, e)
      \/ e.kind = "redirect" /\ o = Shut(Finish(t, e, Msg(e, "whole")))
      \/ e.kind = "get" /\ o \in SendResponse200(t, e, gone)
      \/ e.kind = "cgiget" /\ o \in CgiRun(t, e)
  BY DEF GetMethod, GetKinds
<1> QED
  BY <1>1, <1>2, SendResponse200Effects, CgiRunEffects

\* An upload opens one file, and closes it when the body is complete.
LEMMA StoreBodyEffects ==
    ASSUME NEW t \in Tables, NEW e \in Entry, EntryOK(e), HasFile(t, e),
           NEW n \in Nat, e.kind = "post", NEW o \in StoreBody(t, e, n)
    PROVE  Effects(t, e, o)
<1> DEFINE f  == LowestFree(t)
           t1 == IF e.first_time THEN Install(t, f, File) ELSE t
           e1 == IF e.first_time THEN [e EXCEPT !.first_time = FALSE, !.file = f]
                 ELSE e
           e2 == [e1 EXCEPT !.got = @ + n]
           e3 == [e1 EXCEPT !.got = PostLen, !.file = NoFd]
<1>1. e.step = 0 /\ e.held = {} /\ e.start_read
  BY DEF EntryOK, GetKinds
<1>2. f \in Fds \cup {NoFd}
  BY LowestFreeIsFree DEF FreeFds
<1>3. e1 \in Entry
  <2> HIDE DEF f
  <2> QED
    BY <1>2 DEF Entry
<1>4. CASE e.post_end
  <2>1. o = Finish(t, e, Msg(e, "whole"))
    BY <1>4 DEF StoreBody, Created
  <2> QED
    BY <2>1, FinishEffects
<1>5. CASE ~e.post_end /\ e1.got + n < PostLen
  <2>1. o = Continue(t1, e2, <<>>)
    BY <1>5 DEF StoreBody
  <2>2. e2 \in Entry
    <3> HIDE DEF e1
    <3> QED
      BY <1>3, <1>5, HandlingAssumption DEF Entry
  <2>3. CASE e.first_time
    <3>1. e.file = NoFd
      BY <1>1, <2>3 DEF EntryOK
    <3>2. EntryOK(e2) /\ e2.file = f
      <4> HIDE DEF f
      <4> QED
        BY <1>1, <2>3 DEF EntryOK, Entry, GetKinds
    <3>3. t1 = Install(t, LowestFree(t), File)
      BY <2>3
    <3> HIDE DEF e2, t1
    <3> QED
      BY <2>1, <2>2, <3>1, <3>2, <3>3, OpenEffects
  <2>4. CASE ~e.first_time
    <3>1. EntryOK(e2) /\ e2.file = e.file
      BY <1>1, <2>4 DEF EntryOK, Entry
    <3>2. t1 = t
      BY <2>4
    <3> HIDE DEF e2, t1
    <3> QED
      BY <2>1, <2>2, <3>1, <3>2, ContinueEffects
  <2> QED
    BY <2>3, <2>4
<1>6. CASE ~e.post_end /\ ~(e1.got + n < PostLen)
  <2> DEFINE u == Close(t1, {e1.file})
  <2>1. o \in Created(u, e3)
    BY <1>6 DEF StoreBody
  <2>2. e3.kind = "post" /\ e3.held = {} /\ e3.file = NoFd
    BY <1>1 DEF Entry
  <2>3. o = Finish(u, e3, Msg(e3, "whole"))
    <3> HIDE DEF u, e3
    <3> QED
      BY <2>1, <2>2 DEF Created
  <2>4. o.fdt = Close(u, {NoFd}) /\ o.entry = NoEntry
    <3> HIDE DEF u, e3
    <3>1. {e3.file} \cup e3.held = {NoFd}
      BY <2>2
    <3> QED
      BY <2>3, <3>1 DEF Finish, Erase, Outcome
  <2>5. \A g \in Fds : o.fdt[g] = u[g]
    <3> HIDE DEF u
    <3> QED
      BY <2>4, Distinct DEF Close
  <2>6. \A g \in Fds : o.fdt[g] = IF g = e.file THEN Free ELSE t[g]
    <3>1. CASE e.first_time
      <4>1. e.file = NoFd /\ e1.file = f
        BY <1>1, <3>1 DEF EntryOK, Entry
      <4>2. f = NoFd \/ (f \in Fds /\ t[f] = Free)
        BY LowestFreeIsFree DEF FreeFds
      <4>3. \A g \in Fds : u[g] = IF g = f THEN Free ELSE t[g]
        <5>1. t1 = Install(t, f, File)
          BY <3>1
        <5> HIDE DEF f, t1, e1
        <5> QED
          BY <4>1, <5>1 DEF Install, Close
      <4> HIDE DEF u, f
      <4> QED
        BY <2>5, <4>1, <4>2, <4>3, Distinct
    <3>2. CASE ~e.first_time
      BY <2>5, <3>2 DEF Close
    <3> QED
      BY <3>1, <3>2
  <2> HIDE DEF u
  <2> QED
    BY <2>4, <2>6, Distinct DEF Effects, HasFile
<1>7. e.post_end \in BOOLEAN
  BY DEF Entry
<1> QED
  BY <1>4, <1>5, <1>6, <1>7

\* Whether its path is there or not.
LEMMA PostRequestEffects ==
    ASSUME NEW t \in Tables, NEW e \in Entry, EntryOK(e), HasFile(t, e),
           NEW n \in Nat, e.kind \in {"post", "postthrow"}, NEW o \in PostRequest(t, e, n)
    PROVE  Effects(t, e, o)
<1>1. CASE e.kind = "post"
  BY <1>1, StoreBodyEffects DEF PostRequest
<1>2. CASE e.kind = "postthrow" /\ e.first_time
  <2> DEFINE d == [e EXCEPT !.first_time = FALSE]
  <2>1. d \in Entry /\ d.file = e.file
    BY DEF Entry
  <2>2. EntryOK(d)
    BY <1>2 DEF EntryOK, GetKinds, Entry
  <2>3. o = CatchAll(t, d)
    BY <1>2 DEF PostRequest
  <2> HIDE DEF d
  <2> QED
    BY <2>1, <2>2, <2>3, ContinueEffects
<1>3. CASE e.kind = "postthrow" /\ ~e.first_time
  <2>1. o = Continue(t, e, <<>>) \/ o = Finish(t, e, Msg(e, "whole"))
    BY <1>3 DEF PostRequest, Created
  <2> QED
    BY <2>1, ContinueEffects, FinishEffects
<1> QED
  BY <1>1, <1>2, <1>3 DEF Entry

\* A new entry owes nothing.
LEMMA NewEntryOK ==
    /\ EntryOK(NewEntry) /\ NewEntry.file = NoFd
BY DEF EntryOK, NewEntry, GetKinds

\* No peer sends a POST that goes to a CGI script.
NoCgiPost(kinds) == \A d \in Conns : kinds[d] # "cgipost"

\* Parsing the head does not touch the streams.
LEMMA ParseRequestEffects ==
    ASSUME NEW e \in Entry, EntryOK(e), NEW c, NEW kinds \in [Conns -> AllKinds],
           NoCgiPost(kinds),
           NEW seg \in Seq(Units), seg # <<>> => c \in Conns
    PROVE  \A p \in ParseRequest(e, c, kinds, seg) :
              EntryOK(p.entry) /\ p.entry.file = e.file
<1> SUFFICES ASSUME NEW p \in ParseRequest(e, c, kinds, seg)
             PROVE  EntryOK(p.entry) /\ p.entry.file = e.file
  OBVIOUS
<1> DEFINE r == Received(e, c, seg)
<1>1. r \in Entry /\ EntryOK(r) /\ r.file = e.file /\ r.start_read = e.start_read
  BY ReceivedType DEF EntryOK, Received, Entry
<1>2. ParseRequest(e, c, kinds, seg)
        \subseteq [res : {"ready", "more", "refused", "exception"}, entry : Entry]
  BY ParseRequestType
<1>3. p.res \in {"ready", "more", "refused", "exception"} /\ p.entry \in Entry
  BY <1>2
<1>4. CASE e.start_read
  BY <1>3, <1>4 DEF ParseRequest, Parsed
<1>5. CASE ~e.start_read /\ ~HeadEnds(seg)
  <2>1. p.entry = r \/ \E w : p.entry = OwnedBy(r, w)
    BY <1>5, HeadBegun DEF Parsed
  <2> HIDE DEF r
  <2>2. \A w : EntryOK(OwnedBy(r, w)) /\ OwnedBy(r, w).file = r.file
    BY <1>1 DEF EntryOK, Entry, OwnedBy
  <2> QED
    BY <1>1, <1>3, <2>1, <2>2
<1>6. CASE ~e.start_read /\ HeadEnds(seg)
  <2> HIDE DEF r
  <2>1. ASSUME NEW w, NEW k \in AllKinds \ {"cgipost"}
        PROVE  EntryOK(HeadOf(r, w, k)) /\ HeadOf(r, w, k).file = e.file
    <3>1. /\ r.held = {} /\ r.first_time /\ r.step = 0 /\ r.file = NoFd
      BY <1>1, <1>6 DEF EntryOK, GetKinds, Entry
    <3> QED
      BY <1>1, <3>1 DEF EntryOK, Entry, HeadOf
  <2>2. "status" \in AllKinds \ {"cgipost"} /\ LeftKinds \subseteq AllKinds \ {"cgipost"}
    BY DEF AllKinds, LeftKinds, GetKinds, PostKinds
  <2>3. \A w \in r.who : kinds[w] \in AllKinds \ {"cgipost"}
    BY <1>1 DEF Entry, NoCgiPost
  <2>4. \E w : \E k \in AllKinds \ {"cgipost"} : p.entry = HeadOf(r, w, k)
    BY <1>6, <2>2, <2>3, HeadEnded DEF Parsed, r
  <2> QED
    BY <1>3, <2>1, <2>4
<1>7. e.start_read \in BOOLEAN
  BY DEF Entry
<1> QED
  BY <1>4, <1>5, <1>6, <1>7

\* One step of the response or of the upload.
LEMMA DispatchEffects ==
    ASSUME NEW t \in Tables, NEW e \in Entry, EntryOK(e), HasFile(t, e),
           NEW n \in Nat, NEW gone \in BOOLEAN, NEW o \in Dispatch(t, e, n, gone)
    PROVE  Effects(t, e, o)
<1>1. CASE e.kind \in GetKinds
  <2>1. o \in GetMethod(t, e, gone)
    BY <1>1 DEF Dispatch, GetKinds, PostKinds
  <2> QED
    BY <1>1, <2>1, GetMethodEffects
<1>2. CASE e.kind \in PostKinds
  <2>1. e.kind \in {"post", "postthrow"} /\ e.kind \notin GetKinds
    BY <1>2 DEF EntryOK, PostKinds, GetKinds
  <2> QED
    BY <1>2, <2>1, PostRequestEffects DEF Dispatch
<1>3. CASE e.kind \notin GetKinds \cup PostKinds
  BY <1>3, FinishEffects DEF Dispatch, ThrowStatus
<1> QED
  BY <1>1, <1>2, <1>3

(***************************************************************************)
(* Without POSTs to a CGI script no call of the driver opens or closes a   *)
(* socket, closes a file that is not its entry's, or loses one.            *)
(***************************************************************************)
LEMMA DriverEffects ==
    ASSUME NEW t \in Tables, NEW e \in Entry, EntryOK(e), HasFile(t, e),
           NEW c, NEW gone \in BOOLEAN, NEW kinds \in [Conns -> AllKinds],
           NoCgiPost(kinds),
           NEW seg \in Seq(Units), seg # <<>> => c \in Conns,
           NEW o \in DriverOutcomes(t, e, c, gone, kinds, seg)
    PROVE  Effects(t, e, o)
<1>0. /\ ParseRequest(e, c, kinds, seg)
           \subseteq [res : {"ready", "more", "refused", "exception"}, entry : Entry]
      /\ \A q \in ParseRequest(e, c, kinds, seg) :
            EntryOK(q.entry) /\ q.entry.file = e.file
  BY ParseRequestType, ParseRequestEffects, ZenonT(30)
<1>1. PICK p \in ParseRequest(e, c, kinds, seg) :
        o \in (CASE p.res = "more"      -> {Continue(t, p.entry, <<>>)}
                 [] p.res = "refused"   -> {ThrowStatus(t, p.entry)}
                 [] p.res = "exception" -> {CatchAll(t, p.entry)}
                 [] p.res = "ready"     -> Dispatch(t, p.entry, BodyLen(e, seg), gone))
  BY DEF DriverOutcomes
<1>2. /\ p.res \in {"ready", "more", "refused", "exception"} /\ p.entry \in Entry
      /\ EntryOK(p.entry) /\ p.entry.file = e.file
  BY <1>0, <1>1
<1>3. HasFile(t, p.entry)
  BY <1>2 DEF HasFile
<1>4. Effects(t, p.entry, o)
  BY <1>1, <1>2, <1>3, BodyLenType, ContinueEffects, FinishEffects, DispatchEffects
     DEF ThrowStatus
<1> QED
  BY <1>2, <1>4 DEF Effects
-------------------------------------------------------------------------------
(***************************************************************************)
(* What a call does to the table of descriptors, whatever the peers ask    *)
(* for: also for a POST that goes to a script, whose destructor closes     *)
(* numbers a second time.  EntryShape is what every call keeps true of an  *)
(* entry: a response or an upload that has not begun has no file, so that  *)
(* opening one loses none.                                                 *)
(***************************************************************************)
EntryShape(e) ==
    /\ ~e.start_read => e.first_time /\ ~e.post_end /\ e.step = 0 /\ e.file = NoFd
    /\ e.kind \in GetKinds /\ e.step = 0 => e.file = NoFd
    /\ e.kind \in PostKinds /\ e.first_time => e.file = NoFd
    /\ e.post_end => e.step > 0 /\ ~e.first_time

(***************************************************************************)
(* No socket is opened; the sockets that are closed are those whose number *)
(* the entry has; a file that is open is one that was, and not the         *)
(* entry's, or the one the entry now has.                                  *)
(***************************************************************************)
Closes(t, e, o) ==
    /\ \A g \in Fds : o.fdt[g] \in Conns => t[g] = o.fdt[g]
    /\ \A g \in Fds : t[g] \in Conns /\ o.fdt[g] # t[g] => g \in e.held \cup {e.file}
    /\ \A g \in Fds : o.fdt[g] = File =>
          \/ t[g] = File /\ g # e.file
          \/ o.entry # NoEntry /\ o.entry[1].file = g
    /\ o.entry # NoEntry => EntryShape(o.entry[1])

\* Ending a response closes what the entry has.
LEMMA FinishCloses ==
    ASSUME NEW t \in Tables, NEW e \in Entry, NEW msg
    PROVE  Closes(t, e, Finish(t, e, msg))
<1>1. /\ Finish(t, e, msg).fdt = Close(t, {e.file} \cup e.held)
      /\ Finish(t, e, msg).entry = NoEntry
  BY DEF Finish, Erase, Outcome
<1> QED
  BY <1>1, Distinct DEF Closes, Close

\* Going on without opening or closing anything.
LEMMA ContinueCloses ==
    ASSUME NEW t \in Tables, NEW e \in Entry,
           NEW d \in Entry, EntryShape(d), d.file = e.file, NEW msg
    PROVE  Closes(t, e, Continue(t, d, msg)) /\ Closes(t, e, CatchAll(t, d))
<1>1. /\ Continue(t, d, msg).fdt = t /\ Continue(t, d, msg).entry = <<d>>
      /\ CatchAll(t, d).fdt = t /\ CatchAll(t, d).entry = <<d>>
  BY DEF Continue, CatchAll, Outcome
<1>2. <<d>> # NoEntry /\ <<d>>[1] = d
  BY DEF NoEntry
<1> QED
  BY <1>1, <1>2, Distinct DEF Closes

\* Going on with a file that has just been opened, or could not be.
LEMMA OpenCloses ==
    ASSUME NEW t \in Tables, NEW e \in Entry, e.file = NoFd,
           NEW d \in Entry, EntryShape(d), d.file = LowestFree(t), NEW msg
    PROVE  Closes(t, e, Continue(Install(t, LowestFree(t), File), d, msg))
<1> DEFINE f == LowestFree(t)
           o == Continue(Install(t, f, File), d, msg)
<1>1. o.fdt = Install(t, f, File) /\ o.entry = <<d>>
  BY DEF Continue, Outcome
<1>2. <<d>> # NoEntry /\ <<d>>[1] = d
  BY DEF NoEntry
<1>3. f = NoFd \/ (f \in Fds /\ t[f] = Free)
  BY LowestFreeIsFree DEF FreeFds
<1>4. \A g \in Fds : o.fdt[g] = IF g = f THEN File ELSE t[g]
  BY <1>1 DEF Install
<1> HIDE DEF f, o
<1>5. d.file = f
  BY DEF f
<1>6. Closes(t, e, o)
  BY <1>1, <1>2, <1>3, <1>4, <1>5, Distinct DEF Closes
<1> QED
  BY <1>6 DEF o, f

\* Sending a block opens nothing; the last one closes what the entry has.
LEMMA NextBlockCloses ==
    ASSUME NEW t \in Tables, NEW e \in Entry, EntryShape(e), e.step > 0
    PROVE  Closes(t, e, NextBlock(t, e))
<1>1. CASE e.step = NBlocks
  BY <1>1, FinishCloses DEF NextBlock
<1>2. CASE e.step # NBlocks
  <2> DEFINE d == [e EXCEPT !.step = @ + 1]
  <2>1. d \in Entry
    BY <1>2, HandlingAssumption DEF Entry
  <2>2. e.step \in Nat
    BY DEF Entry
  <2>3. EntryShape(d) /\ d.file = e.file
    BY <2>2 DEF EntryShape, Entry
  <2> HIDE DEF d
  <2>4. Closes(t, e, Continue(t, d, Msg(e, "body")))
    BY <2>1, <2>3, ContinueCloses
  <2> QED
    BY <1>2, <2>4 DEF NextBlock, d
<1> QED
  BY <1>1, <1>2

\* A download.
LEMMA SendResponse200Closes ==
    ASSUME NEW t \in Tables, NEW e \in Entry, EntryShape(e), e.start_read,
           NEW gone \in BOOLEAN, e.kind = "get",
           NEW o \in SendResponse200(t, e, gone)
    PROVE  Closes(t, e, o)
<1>1. e.step \in 0 .. NBlocks /\ e.kind \in GetKinds /\ e.kind \notin PostKinds
  BY DEF GetKinds, PostKinds, Entry
<1>2. Closes(t, e, SendFailed(t, e))
  <2> DEFINE d == [e EXCEPT !.file = NoFd]
             u == Close(t, {e.file})
  <2>1. d \in Entry /\ EntryShape(d) /\ d.file = NoFd
    BY DEF Entry, EntryShape
  <2>2. /\ SendFailed(t, e).fdt = u /\ SendFailed(t, e).entry = <<d>>
        /\ <<d>> # NoEntry /\ <<d>>[1] = d
    BY DEF SendFailed, Continue, Outcome, NoEntry
  <2>3. \A g \in Fds : u[g] = IF g = e.file THEN Free ELSE t[g]
    BY DEF Close
  <2> HIDE DEF d, u
  <2> QED
    BY <2>1, <2>2, <2>3, Distinct DEF Closes
<1>3. ASSUME e.step = 0, FreeFds(t) # {}
      PROVE  Closes(t, e, OpenFile(t, e, LowestFree(t)))
  <2> DEFINE f == LowestFree(t)
             d == [e EXCEPT !.step = 1, !.file = f]
  <2>1. f \in Fds
    BY <1>3, LowestFreeIsFree DEF FreeFds
  <2>2. d \in Entry /\ d.file = f /\ EntryShape(d)
    <3> HIDE DEF f
    <3>1. /\ d \in Entry /\ d.file = f /\ d.step = 1 /\ d.start_read /\ d.kind = e.kind
          /\ d.post_end = e.post_end /\ d.first_time = e.first_time
      BY <2>1, OneBlock DEF Entry
    <3> QED
      BY <1>1, <3>1 DEF EntryShape
  <2>3. e.file = NoFd
    BY <1>1, <1>3 DEF EntryShape
  <2> HIDE DEF d
  <2>4. Closes(t, e, Continue(Install(t, LowestFree(t), File), d, Msg(e, "head")))
    BY <2>2, <2>3, OpenCloses
  <2> QED
    BY <2>4 DEF OpenFile, d
<1>4. Closes(t, e, ThrowStatus(t, e)) /\ Closes(t, e, Finish(t, e, <<>>))
  BY FinishCloses DEF ThrowStatus
<1>5. e.step > 0 => Closes(t, e, NextBlock(t, e))
  BY NextBlockCloses
<1>6. CASE o = SendFailed(t, e)
  BY <1>2, <1>6
<1>7. CASE o # SendFailed(t, e)
  BY <1>1, <1>3, <1>4, <1>5, <1>7, HandlingAssumption DEF SendResponse200
<1> QED
  BY <1>6, <1>7

\* A script: also one for a POST, for which post_end has just been set.
LEMMA CgiRunCloses ==
    ASSUME NEW t \in Tables, NEW e \in Entry, e.start_read,
           e.step = 0 => e.file = NoFd, e.kind \in PostKinds => ~e.first_time,
           e.post_end => ~e.first_time, NEW o \in CgiRun(t, e)
    PROVE  Closes(t, e, o)
<1> DEFINE f == LowestFree(t)
           g == LowestFree(Install(t, f, File))
           numbers == IF e.kind = "cgipost" THEN {f, g} ELSE {f}
           d == [e EXCEPT !.step = 1, !.file = f, !.held = numbers \ {NoFd}]
<1>1. e.step \in 0 .. NBlocks
  BY DEF Entry
<1>2. f \in Fds \cup {NoFd} /\ g \in Fds \cup {NoFd}
  <2>1. Install(t, f, File) \in Tables
    BY TableTypes
  <2> QED
    BY <2>1, LowestFreeIsFree DEF FreeFds
<1>3. d \in Entry /\ d.file = f /\ EntryShape(d)
  <2> HIDE DEF f, g
  <2>1. /\ d \in Entry /\ d.file = f /\ d.step = 1 /\ d.start_read /\ d.kind = e.kind
        /\ d.post_end = e.post_end /\ d.first_time = e.first_time
    BY <1>2, OneBlock DEF Entry
  <2> QED
    BY <2>1 DEF EntryShape
<1>4. e.step = 0 => Closes(t, e, Continue(Install(t, f, File), d, Msg(e, "head")))
  <2> HIDE DEF d
  <2> QED
    BY <1>3, OpenCloses
<1>5. /\ Closes(t, e, Finish(t, e, Msg(e, "whole")))
      /\ e.step > 0 => EntryShape(e)
  BY FinishCloses DEF EntryShape
<1>6. /\ e.step > 0 => Closes(t, e, Continue(t, e, Msg(e, "blank")))
      /\ e.step > 0 => Closes(t, e, NextBlock(t, e))
  BY <1>5, ContinueCloses, NextBlockCloses
<1>7. CASE e.step = 0
  <2>1. o \in {Finish(t, e, Msg(e, "whole")), Continue(Install(t, f, File), d, Msg(e, "head"))}
    BY <1>7 DEF CgiRun
  <2> HIDE DEF f, d
  <2> QED
    BY <1>4, <1>5, <1>7, <2>1
<1>8. CASE e.step > 0
  <2>1. o \in {Continue(t, e, Msg(e, "blank")), NextBlock(t, e)}
    BY <1>8 DEF CgiRun
  <2> QED
    BY <1>6, <1>8, <2>1
<1> QED
  BY <1>1, <1>7, <1>8, HandlingAssumption

\* A GET.
LEMMA GetMethodCloses ==
    ASSUME NEW t \in Tables, NEW e \in Entry, EntryShape(e), e.start_read,
           NEW gone \in BOOLEAN, e.kind \in GetKinds,
           NEW o \in GetMethod(t, e, gone)
    PROVE  Closes(t, e, o)
<1>1. Closes(t, e, ThrowStatus(t, e)) /\ Closes(t, e, Shut(Finish(t, e, Msg(e, "whole"))))
  BY FinishCloses, ShutFinish DEF ThrowStatus, Closes
<1>2. \/ o = ThrowStatus(t, e)
      \/ e.kind = "redirect" /\ o = Shut(Finish(t, e, Msg(e, "whole")))
      \/ e.kind = "get" /\ o \in SendResponse200(t, e, gone)
      \/ e.kind = "cgiget" /\ o \in CgiRun(t, e)
  BY DEF GetMethod, GetKinds
<1>3. /\ e.step = 0 => e.file = NoFd
      /\ e.kind \notin PostKinds
      /\ e.post_end => ~e.first_time
  BY DEF EntryShape, GetKinds, PostKinds
<1> QED
  BY <1>1, <1>2, <1>3, SendResponse200Closes, CgiRunCloses

\* The answer to an upload that is complete.
LEMMA CreatedCloses ==
    ASSUME NEW t \in Tables, NEW e \in Entry, e.start_read, ~e.first_time,
           e.step = 0 => e.file = NoFd, NEW o \in Created(t, e)
    PROVE  Closes(t, e, o)
<1> DEFINE d == [e EXCEPT !.post_end = TRUE]
<1>1. /\ d \in Entry /\ d.start_read /\ ~d.first_time /\ d.step = e.step
      /\ d.file = e.file /\ d.held = e.held
  BY DEF Entry
<1>2. CASE e.kind # "cgipost"
  BY <1>2, FinishCloses DEF Created
<1>3. CASE e.kind = "cgipost"
  <2>1. o \in CgiRun(t, d)
    BY <1>3 DEF Created
  <2> HIDE DEF d
  <2>2. Closes(t, d, o)
    BY <1>1, <2>1, CgiRunCloses
  <2> QED
    BY <1>1, <2>2 DEF Closes
<1> QED
  BY <1>2, <1>3

\* A body, stored in a file or for a script.
LEMMA StoreBodyCloses ==
    ASSUME NEW t \in Tables, NEW e \in Entry, EntryShape(e), e.start_read,
           NEW n \in Nat, e.kind \in PostKinds, NEW o \in StoreBody(t, e, n)
    PROVE  Closes(t, e, o)
<1> DEFINE f  == LowestFree(t)
           t1 == IF e.first_time THEN Install(t, f, File) ELSE t
           e1 == IF e.first_time THEN [e EXCEPT !.first_time = FALSE, !.file = f]
                 ELSE e
           e2 == [e1 EXCEPT !.got = @ + n]
           e3 == [e1 EXCEPT !.got = PostLen, !.file = NoFd]
<1>1. f \in Fds \cup {NoFd}
  BY LowestFreeIsFree DEF FreeFds
<1>2. /\ e1 \in Entry /\ e1.start_read /\ ~e1.first_time /\ e1.kind = e.kind
      /\ e1.post_end = e.post_end /\ e1.held = e.held /\ e1.step = e.step
      /\ e1.file = IF e.first_time THEN f ELSE e.file
  <2> HIDE DEF f
  <2> QED
    BY <1>1 DEF Entry
<1>3. e.kind \notin GetKinds /\ e.post_end \in BOOLEAN
  BY DEF GetKinds, PostKinds, Entry
<1>4. CASE e.post_end
  <2>1. ~e.first_time /\ e.step # 0 /\ o \in Created(t, e)
    BY <1>4 DEF EntryShape, StoreBody, Entry
  <2> QED
    BY <2>1, CreatedCloses
<1>5. CASE ~e.post_end /\ e1.got + n < PostLen
  <2>1. o = Continue(t1, e2, <<>>)
    BY <1>5 DEF StoreBody
  <2>2. e2 \in Entry /\ e2.file = e1.file /\ EntryShape(e2)
    <3> HIDE DEF e1
    <3> QED
      BY <1>2, <1>3, <1>5, HandlingAssumption DEF Entry, EntryShape
  <2>3. CASE e.first_time
    <3>1. e.file = NoFd /\ e2.file = f /\ t1 = Install(t, f, File)
      BY <1>2, <2>2, <2>3 DEF EntryShape
    <3> HIDE DEF e1, e2, t1
    <3> QED
      BY <2>1, <2>2, <3>1, OpenCloses
  <2>4. CASE ~e.first_time
    <3>1. e2.file = e.file /\ t1 = t
      BY <1>2, <2>2, <2>4
    <3> HIDE DEF e1, e2, t1
    <3> QED
      BY <2>1, <2>2, <3>1, ContinueCloses
  <2> QED
    BY <2>3, <2>4
<1>6. CASE ~e.post_end /\ ~(e1.got + n < PostLen)
  <2> DEFINE u == Close(t1, {e1.file})
  <2>1. o \in Created(u, e3)
    BY <1>6 DEF StoreBody
  <2>2. /\ e3 \in Entry /\ e3.start_read /\ ~e3.first_time
        /\ e3.file = NoFd /\ e3.held = e.held
    <3> HIDE DEF e1
    <3>1. PostLen \in 0 .. PostLen
      BY HandlingAssumption
    <3> QED
      BY <1>2, <3>1 DEF Entry
  <2>3. u \in Tables
    BY TableTypes
  <2>4. Closes(u, e3, o)
    <3> HIDE DEF u, e3
    <3> QED
      BY <2>1, <2>2, <2>3, CreatedCloses
  <2>5. \A g \in Fds : u[g] = IF g = e1.file THEN Free ELSE t[g]
    <3>1. CASE e.first_time
      <4>1. t1 = Install(t, f, File) /\ e1.file = f
        BY <1>2, <3>1
      <4> HIDE DEF f, t1, e1
      <4> QED
        BY <4>1 DEF Install, Close
    <3>2. CASE ~e.first_time
      BY <3>2 DEF Close
    <3> QED
      BY <3>1, <3>2
  <2>6. \/ e1.file = e.file
        \/ e.file = NoFd /\ (e1.file = NoFd \/ (e1.file \in Fds /\ t[e1.file] = Free))
    <3>1. f = NoFd \/ (f \in Fds /\ t[f] = Free)
      BY LowestFreeIsFree DEF FreeFds
    <3> HIDE DEF f, e1
    <3> QED
      BY <1>2, <3>1 DEF EntryShape
  <2> HIDE DEF u, e1, e3
  <2> QED
    BY <2>2, <2>4, <2>5, <2>6, Distinct DEF Closes
<1> QED
  BY <1>3, <1>4, <1>5, <1>6

\* A POST, to a file, to a script, or to a location without a path.
LEMMA PostRequestCloses ==
    ASSUME NEW t \in Tables, NEW e \in Entry, EntryShape(e), e.start_read,
           NEW n \in Nat, e.kind \in PostKinds, NEW o \in PostRequest(t, e, n)
    PROVE  Closes(t, e, o)
<1>1. CASE e.kind # "postthrow"
  BY <1>1, StoreBodyCloses DEF PostRequest
<1>2. CASE e.kind = "postthrow" /\ e.first_time
  <2> DEFINE d == [e EXCEPT !.first_time = FALSE]
  <2>1. d \in Entry /\ d.file = e.file
    BY DEF Entry
  <2>2. EntryShape(d)
    BY <1>2 DEF EntryShape, GetKinds, PostKinds, Entry
  <2>3. o = CatchAll(t, d)
    BY <1>2 DEF PostRequest
  <2> HIDE DEF d
  <2> QED
    BY <2>1, <2>2, <2>3, ContinueCloses
<1>3. CASE e.kind = "postthrow" /\ ~e.first_time
  <2>1. o = Continue(t, e, <<>>) \/ o = Finish(t, e, Msg(e, "whole"))
    BY <1>3 DEF PostRequest, Created
  <2> QED
    BY <2>1, ContinueCloses, FinishCloses
<1> QED
  BY <1>1, <1>2, <1>3 DEF Entry

\* Parsing the head does not touch the streams.
LEMMA ParseRequestCloses ==
    ASSUME NEW e \in Entry, EntryShape(e), NEW c, NEW kinds \in [Conns -> AllKinds],
           NEW seg \in Seq(Units), seg # <<>> => c \in Conns
    PROVE  \A p \in ParseRequest(e, c, kinds, seg) :
              /\ EntryShape(p.entry) /\ p.entry.file = e.file /\ p.entry.held = e.held
              /\ p.res = "ready" => p.entry.start_read
<1> SUFFICES ASSUME NEW p \in ParseRequest(e, c, kinds, seg)
             PROVE  /\ EntryShape(p.entry) /\ p.entry.file = e.file /\ p.entry.held = e.held
                    /\ p.res = "ready" => p.entry.start_read
  OBVIOUS
<1> DEFINE r == Received(e, c, seg)
<1>1. /\ r \in Entry /\ EntryShape(r) /\ r.file = e.file /\ r.held = e.held
      /\ r.start_read = e.start_read
  BY ReceivedType DEF EntryShape, Received, Entry
<1>2. CASE e.start_read
  BY <1>2 DEF ParseRequest, Parsed
<1>3. CASE ~e.start_read /\ ~HeadEnds(seg)
  <2>1. /\ p.res # "ready"
        /\ p.entry = r \/ \E w : p.entry = OwnedBy(r, w)
    BY <1>3, HeadBegun DEF Parsed
  <2> HIDE DEF r
  <2>2. \A w : /\ EntryShape(OwnedBy(r, w)) /\ OwnedBy(r, w).file = r.file
               /\ OwnedBy(r, w).held = r.held
    BY <1>1 DEF EntryShape, Entry, OwnedBy
  <2> QED
    BY <1>1, <2>1, <2>2
<1>4. CASE ~e.start_read /\ HeadEnds(seg)
  <2> HIDE DEF r
  <2>1. ASSUME NEW w, NEW k
        PROVE  /\ EntryShape(HeadOf(r, w, k)) /\ HeadOf(r, w, k).file = e.file
               /\ HeadOf(r, w, k).held = e.held /\ HeadOf(r, w, k).start_read
    <3>1. r.first_time /\ ~r.post_end /\ r.step = 0 /\ r.file = NoFd
      BY <1>1, <1>4 DEF EntryShape
    <3> QED
      BY <1>1, <3>1 DEF EntryShape, Entry, HeadOf
  <2>2. \E w, k : p.entry = HeadOf(r, w, k)
    BY <1>4, HeadEnded DEF Parsed, r
  <2> QED
    BY <2>1, <2>2
<1>5. e.start_read \in BOOLEAN
  BY DEF Entry
<1> QED
  BY <1>2, <1>3, <1>4, <1>5

(***************************************************************************)
(* No call of the driver opens a socket or loses a file; the sockets it    *)
(* closes are those whose numbers its entry has.                           *)
(***************************************************************************)
LEMMA DriverCloses ==
    ASSUME NEW t \in Tables, NEW e \in Entry, EntryShape(e),
           NEW c, NEW gone \in BOOLEAN, NEW kinds \in [Conns -> AllKinds],
           NEW seg \in Seq(Units), seg # <<>> => c \in Conns,
           NEW o \in DriverOutcomes(t, e, c, gone, kinds, seg)
    PROVE  Closes(t, e, o)
<1> DEFINE n == BodyLen(e, seg)
<1>1. n \in Nat
  BY BodyLenType
<1> HIDE DEF n
<1>2. PICK p \in ParseRequest(e, c, kinds, seg) :
        o \in (CASE p.res = "more"      -> {Continue(t, p.entry, <<>>)}
                 [] p.res = "refused"   -> {ThrowStatus(t, p.entry)}
                 [] p.res = "exception" -> {CatchAll(t, p.entry)}
                 [] p.res = "ready"     -> Dispatch(t, p.entry, n, gone))
  BY DEF DriverOutcomes, n
<1>3. p.res \in {"ready", "more", "refused", "exception"} /\ p.entry \in Entry
  <2>1. ParseRequest(e, c, kinds, seg)
           \subseteq [res : {"ready", "more", "refused", "exception"}, entry : Entry]
    BY ParseRequestType
  <2> QED
    BY <1>2, <2>1
<1>4. /\ EntryShape(p.entry) /\ p.entry.file = e.file /\ p.entry.held = e.held
      /\ p.res = "ready" => p.entry.start_read
  BY <1>2, ParseRequestCloses
<1>5. Closes(t, p.entry, o)
  <2>1. CASE p.res \in {"more", "exception"}
    BY <1>2, <1>3, <1>4, <2>1, ContinueCloses
  <2>3. CASE p.res = "refused"
    BY <1>2, <1>3, <2>3, FinishCloses DEF ThrowStatus
  <2>2. CASE p.res = "ready"
    <3>0. PICK d \in Entry : d = p.entry
      BY <1>3
    <3>1. EntryShape(d) /\ d.start_read /\ o \in Dispatch(t, d, n, gone)
      BY <1>2, <1>3, <1>4, <2>2, <3>0
    <3>2. CASE d.kind \in GetKinds
      BY <3>0, <3>1, <3>2, GetMethodCloses DEF Dispatch, GetKinds, PostKinds
    <3>3. CASE d.kind \in PostKinds
      BY <1>1, <3>0, <3>1, <3>3, PostRequestCloses DEF Dispatch, GetKinds, PostKinds
    <3>4. CASE d.kind \notin GetKinds \cup PostKinds
      BY <3>0, <3>1, <3>4, FinishCloses DEF Dispatch, ThrowStatus
    <3> QED
      BY <3>2, <3>3, <3>4
  <2> QED
    BY <1>3, <2>1, <2>2, <2>3
<1> QED
  BY <1>4, <1>5 DEF Closes
-------------------------------------------------------------------------------
(***************************************************************************)
(* What a call of the driver answers.  An entry is c's own when the bytes  *)
(* of no other connection have reached it.                                 *)
(***************************************************************************)
OwnEntry(e, c) ==
    /\ e.who \subseteq {c}
    /\ ~e.post_end
    /\ IF e.start_read THEN e.owner = c ELSE e.got = 0

\* A download that has begun has its stream.
FileAtHand(e) == e.kind = "get" /\ e.step > 0 => e.file # NoFd

\* The history of what was written leaves blank lines out.
IsPiece(msg) == msg # <<>> /\ msg[1].what # "blank"

(***************************************************************************)
(* On c's own entry e the answer is c's.  A call that goes on sends the    *)
(* piece that comes next, or nothing, and counts the n units of the body   *)
(* it was given; one that ends sends the last piece, or a whole message,   *)
(* unless the peer has gone.                                               *)
(***************************************************************************)
Answers(e, c, n, gone, o) ==
    /\ o.msg # <<>> => o.msg[1].by = c
    /\ o.ret \in {0, 1}
    /\ o.ret = 1 =>
          /\ o.entry # NoEntry
          /\ LET d == o.entry[1]
             IN  /\ OwnEntry(d, c)
                 /\ d.kind \in PostKinds => d.got = e.got + n
                 /\ ~gone /\ FileAtHand(e) => FileAtHand(d)
                 /\ d.step = IF IsPiece(o.msg) THEN e.step + 1 ELSE e.step
                 /\ IsPiece(o.msg) =>
                       o.msg[1].what = IF e.step = 0 THEN "head" ELSE "body"
                 /\ o.msg # <<>> => d.step > 0
    /\ o.ret = 0 =>
          /\ o.msg # <<>> => \/ o.msg[1].what = "whole"
                             \/ o.msg[1].what = "body" /\ e.step = NBlocks
          /\ ~gone /\ FileAtHand(e) => o.msg # <<>>

\* The ends of a response.
LEMMA FinishAnswers ==
    ASSUME NEW e \in Entry, NEW c, OwnEntry(e, c), e.start_read,
           NEW n \in Nat, NEW gone \in BOOLEAN, NEW t
    PROVE  /\ \A d : d.owner = e.owner => Answers(e, c, n, gone, Finish(t, d, Msg(d, "whole")))
           /\ e.step = NBlocks => Answers(e, c, n, gone, Finish(t, e, Msg(e, "body")))
           /\ gone \/ ~FileAtHand(e) => Answers(e, c, n, gone, Finish(t, e, <<>>))
           /\ Answers(e, c, n, gone, ThrowStatus(t, e))
           /\ Answers(e, c, n, gone, CatchAll(t, e))
BY DEF Answers, Finish, Outcome, Msg, OwnEntry, ThrowStatus, CatchAll, NoEntry

\* An error page, also before the head is complete.
LEMMA ErrorAnswers ==
    ASSUME NEW e, NEW c, NEW n, NEW gone \in BOOLEAN, NEW t, NEW d, d.owner = c
    PROVE  /\ Answers(e, c, n, gone, ThrowStatus(t, d))
           /\ Answers(e, c, n, gone, CatchAll(t, d))
BY DEF Answers, Finish, Outcome, Msg, ThrowStatus, CatchAll

\* Going on without a piece.
LEMMA SilentAnswers ==
    ASSUME NEW e \in Entry, NEW c, NEW n \in Nat, NEW gone \in BOOLEAN, NEW t,
           NEW d \in Entry, OwnEntry(d, c), d.step = e.step,
           d.kind \in PostKinds => d.got = e.got + n,
           ~gone /\ FileAtHand(e) => FileAtHand(d)
    PROVE  /\ Answers(e, c, n, gone, Continue(t, d, <<>>))
           /\ d.start_read /\ d.step > 0 =>
                 Answers(e, c, n, gone, Continue(t, d, Msg(d, "blank")))
BY DEF Answers, Continue, Outcome, Msg, OwnEntry, NoEntry, IsPiece

\* Going on with the next piece.
LEMMA PieceAnswers ==
    ASSUME NEW e \in Entry, NEW c, NEW n \in Nat, NEW gone \in BOOLEAN, NEW t,
           OwnEntry(e, c), e.start_read, e.kind \notin PostKinds,
           NEW d \in Entry, OwnEntry(d, c), d.step = e.step + 1,
           d.kind = e.kind, d.owner = e.owner,
           ~gone /\ FileAtHand(e) => FileAtHand(d)
    PROVE  Answers(e, c, n, gone, Continue(t, d, Msg(e, IF e.step = 0 THEN "head" ELSE "body")))
<1>1. e.step \in Nat
  BY DEF Entry
<1> QED
  BY <1>1 DEF Answers, Continue, Outcome, Msg, OwnEntry, NoEntry, IsPiece

LEMMA NextBlockAnswers ==
    ASSUME NEW e \in Entry, NEW c, OwnEntry(e, c), e.start_read,
           NEW n \in Nat, NEW gone \in BOOLEAN, NEW t,
           e.kind \notin PostKinds, e.step > 0, e.file # NoFd
    PROVE  Answers(e, c, n, gone, NextBlock(t, e))
<1>1. CASE e.step = NBlocks
  BY <1>1, FinishAnswers DEF NextBlock
<1>2. CASE e.step # NBlocks
  <2> DEFINE d == [e EXCEPT !.step = @ + 1]
  <2>1. d \in Entry /\ e.step # 0
    BY <1>2, HandlingAssumption DEF Entry
  <2>2. /\ OwnEntry(d, c) /\ d.step = e.step + 1 /\ d.kind = e.kind /\ d.owner = e.owner
        /\ FileAtHand(d)
    BY DEF OwnEntry, FileAtHand, Entry
  <2> HIDE DEF d
  <2>3. Answers(e, c, n, gone, Continue(t, d, Msg(e, "body")))
    BY <2>1, <2>2, PieceAnswers
  <2> QED
    BY <1>2, <2>3 DEF NextBlock, d
<1> QED
  BY <1>1, <1>2

\* A download: the head, then a block at a time.
LEMMA SendResponse200Answers ==
    ASSUME NEW t \in Tables, NEW e \in Entry, NEW c, OwnEntry(e, c), e.start_read,
           NEW n \in Nat, NEW gone \in BOOLEAN, e.kind = "get",
           NEW o \in SendResponse200(t, e, gone)
    PROVE  Answers(e, c, n, gone, o)
<1>1. e.step \in Nat /\ e.kind \notin PostKinds
  BY DEF Entry, PostKinds
<1>2. gone => Answers(e, c, n, gone, SendFailed(t, e))
  <2> DEFINE d == [e EXCEPT !.file = NoFd]
  <2>1. d \in Entry
    BY DEF Entry
  <2>2. OwnEntry(d, c) /\ d.step = e.step /\ d.kind = e.kind
    BY DEF OwnEntry, Entry
  <2> HIDE DEF d
  <2>3. gone => Answers(e, c, n, gone, Continue(Close(t, {e.file}), d, <<>>))
    BY <1>1, <2>1, <2>2, SilentAnswers
  <2> QED
    BY <2>3 DEF SendFailed, d
<1>3. ASSUME e.step = 0, FreeFds(t) # {}
      PROVE  Answers(e, c, n, gone, OpenFile(t, e, LowestFree(t)))
  <2> DEFINE f == LowestFree(t)
             d == [e EXCEPT !.step = 1, !.file = f]
  <2>1. f \in Fds
    BY <1>3, LowestFreeIsFree DEF FreeFds
  <2> HIDE DEF f
  <2>2. d \in Entry
    BY <2>1, OneBlock DEF Entry
  <2>3. /\ OwnEntry(d, c) /\ d.step = e.step + 1 /\ d.kind = e.kind /\ d.owner = e.owner
        /\ FileAtHand(d)
    BY <1>3, <2>1, Distinct DEF OwnEntry, Entry, FileAtHand
  <2> HIDE DEF d
  <2>4. Answers(e, c, n, gone, Continue(Install(t, f, File), d, Msg(e, "head")))
    BY <1>1, <1>3, <2>2, <2>3, PieceAnswers
  <2> QED
    BY <2>4 DEF OpenFile, d, f
<1>4. CASE o = SendFailed(t, e) /\ gone
  BY <1>2, <1>4
<1>5. CASE e.step = 0 /\ FreeFds(t) # {} /\ o = OpenFile(t, e, LowestFree(t))
  BY <1>3, <1>5
<1>6. CASE o = ThrowStatus(t, e)
  BY <1>6, FinishAnswers
<1>7. CASE e.step > 0 /\ e.file = NoFd /\ o = Finish(t, e, <<>>)
  BY <1>7, FinishAnswers DEF FileAtHand
<1>8. CASE e.step > 0 /\ e.file # NoFd /\ o = NextBlock(t, e)
  BY <1>1, <1>8, NextBlockAnswers
<1> QED
  BY <1>1, <1>4, <1>5, <1>6, <1>7, <1>8 DEF SendResponse200

\* A script for a GET: one message, or the head and then a line at a time.
LEMMA CgiRunAnswers ==
    ASSUME NEW t \in Tables, NEW e \in Entry, NEW c, OwnEntry(e, c), e.start_read,
           NEW n \in Nat, NEW gone \in BOOLEAN, e.kind = "cgiget",
           NEW o \in CgiRun(t, e)
    PROVE  Answers(e, c, n, gone, o)
<1>1. e.step \in Nat /\ e.kind \notin PostKinds
  BY DEF Entry, PostKinds
<1> DEFINE f == LowestFree(t)
           d == [e EXCEPT !.step = 1, !.file = f, !.held = {f} \ {NoFd}]
<1>2. CASE e.step = 0 /\ o = Continue(Install(t, f, File), d, Msg(e, "head"))
  <2>1. f \in Fds \cup {NoFd}
    BY LowestFreeIsFree DEF FreeFds
  <2>2. d \in Entry
    <3> HIDE DEF f
    <3> QED
      BY <2>1, OneBlock DEF Entry
  <2>3. /\ OwnEntry(d, c) /\ d.step = e.step + 1 /\ d.kind = e.kind /\ d.owner = e.owner
        /\ FileAtHand(d)
    BY <1>2 DEF OwnEntry, Entry, FileAtHand
  <2> HIDE DEF d
  <2> QED
    BY <1>1, <1>2, <2>2, <2>3, PieceAnswers
<1>3. CASE o = Finish(t, e, Msg(e, "whole"))
  BY <1>3, FinishAnswers
<1>4. CASE e.step > 0 /\ o = Continue(t, e, Msg(e, "blank"))
  BY <1>1, <1>4, SilentAnswers
<1>5. CASE e.step > 0 /\ e.file # NoFd /\ o = NextBlock(t, e)
  BY <1>1, <1>5, NextBlockAnswers
<1> QED
  BY <1>1, <1>2, <1>3, <1>4, <1>5 DEF CgiRun

\* The body of an upload: it is silent until the body is complete.
LEMMA StoreBodyAnswers ==
    ASSUME NEW t \in Tables, NEW e \in Entry, NEW c, OwnEntry(e, c), e.start_read,
           NEW n \in Nat, NEW gone \in BOOLEAN, e.kind = "post", e.step = 0,
           NEW o \in StoreBody(t, e, n)
    PROVE  Answers(e, c, n, gone, o)
<1> DEFINE f  == LowestFree(t)
           t1 == IF e.first_time THEN Install(t, f, File) ELSE t
           e1 == IF e.first_time THEN [e EXCEPT !.first_time = FALSE, !.file = f]
                 ELSE e
           e2 == [e1 EXCEPT !.got = @ + n]
           e3 == [e1 EXCEPT !.got = PostLen, !.file = NoFd]
<1>1. f \in Fds \cup {NoFd}
  BY LowestFreeIsFree DEF FreeFds
<1> HIDE DEF f
<1>2. /\ e1 \in Entry /\ e1.got = e.got /\ e1.kind = "post" /\ e1.owner = e.owner
      /\ e1.step = 0 /\ OwnEntry(e1, c) /\ e1.start_read
  BY <1>1 DEF Entry, OwnEntry
<1> HIDE DEF e1, t1
<1>3. CASE e1.got + n < PostLen
  <2>1. o = Continue(t1, e2, <<>>)
    BY <1>3 DEF StoreBody, OwnEntry, e1, t1, f
  <2>2. e2 \in Entry
    BY <1>2, <1>3, HandlingAssumption DEF Entry
  <2>3. /\ OwnEntry(e2, c) /\ e2.step = e.step /\ e2.got = e.got + n /\ e2.kind = "post"
        /\ FileAtHand(e2)
    BY <1>2 DEF OwnEntry, Entry, FileAtHand
  <2> HIDE DEF e2
  <2> QED
    BY <2>1, <2>2, <2>3, SilentAnswers
<1>4. CASE ~(e1.got + n < PostLen)
  <2>1. o \in Created(Close(t1, {e1.file}), e3)
    BY <1>4 DEF StoreBody, OwnEntry, e1, t1, f
  <2>2. e3.kind = "post" /\ e3.owner = e.owner
    BY <1>2 DEF Entry
  <2> HIDE DEF e3
  <2>3. o = Finish(Close(t1, {e1.file}), e3, Msg(e3, "whole"))
    BY <2>1, <2>2 DEF Created
  <2> QED
    BY <2>2, <2>3, FinishAnswers
<1> QED
  BY <1>3, <1>4

LEMMA DispatchAnswers ==
    ASSUME NEW t \in Tables, NEW e \in Entry, NEW c, OwnEntry(e, c), EntryOK(e),
           e.start_read, e.kind = "postthrow" => e.first_time, NEW n \in Nat, NEW gone \in BOOLEAN,
           NEW o \in Dispatch(t, e, n, gone)
    PROVE  Answers(e, c, n, gone, o)
<1>1. CASE e.kind \in GetKinds
  <2>1. \/ o = ThrowStatus(t, e)
        \/ e.kind = "redirect" /\ o = Shut(Finish(t, e, Msg(e, "whole")))
        \/ e.kind = "get" /\ o \in SendResponse200(t, e, gone)
        \/ e.kind = "cgiget" /\ o \in CgiRun(t, e)
    BY <1>1 DEF Dispatch, GetMethod, GetKinds, PostKinds
  <2>2. Answers(e, c, n, gone, Shut(Finish(t, e, Msg(e, "whole"))))
    <3> DEFINE x == Finish(t, e, Msg(e, "whole"))
               y == Shut(x)
    <3>1. Answers(e, c, n, gone, x)
      BY FinishAnswers
    <3>2. y.entry = x.entry /\ y.ret = x.ret /\ y.msg = x.msg
      BY ShutFinish
    <3> HIDE DEF x, y
    <3>3. Answers(e, c, n, gone, y)
      BY <3>1, <3>2 DEF Answers
    <3> QED
      BY <3>3 DEF x, y
  <2> QED
    BY <2>1, <2>2, FinishAnswers, SendResponse200Answers, CgiRunAnswers
<1>2. CASE e.kind \in PostKinds
  <2>1. e.kind \in {"post", "postthrow"} /\ e.kind \notin GetKinds /\ e.step = 0
    BY <1>2 DEF EntryOK, PostKinds, GetKinds
  <2>2. o \in PostRequest(t, e, n)
    BY <1>2, <2>1 DEF Dispatch
  <2>3. CASE e.kind = "post"
    BY <2>1, <2>2, <2>3, StoreBodyAnswers DEF PostRequest
  <2>4. CASE e.kind = "postthrow"
    <3> DEFINE d == [e EXCEPT !.first_time = FALSE]
    <3>1. o = CatchAll(t, d)
      BY <2>2, <2>4 DEF PostRequest
    <3>2. d.owner = c
      BY DEF OwnEntry, Entry
    <3> HIDE DEF d
    <3> QED
      BY <3>1, <3>2, ErrorAnswers
  <2> QED
    BY <2>1, <2>3, <2>4
<1>3. CASE e.kind \notin GetKinds \cup PostKinds
  BY <1>3, FinishAnswers DEF Dispatch
<1> QED
  BY <1>1, <1>2, <1>3

\* Parsing adds only the bytes of c, and throws only for c's own request line.
LEMMA ParseRequestOwn ==
    ASSUME NEW e \in Entry, EntryOK(e), NEW c, OwnEntry(e, c),
           e.kind # "postthrow",
           NEW kinds \in [Conns -> AllKinds],
           NEW seg \in Seq(Units), seg # <<>> => c \in Conns,
           NEW p \in ParseRequest(e, c, kinds, seg)
    PROVE  /\ OwnEntry(p.entry, c)
           /\ p.entry.start_read <=> (e.start_read \/ HeadEnds(seg))
           /\ p.entry.step = e.step /\ p.entry.got = e.got
           /\ e.start_read => p.entry = e
           /\ FileAtHand(e) => FileAtHand(p.entry)
           /\ p.res = "more" => p.entry.kind = "status"
           /\ p.res = "ready" => p.entry.start_read
           /\ p.res = "refused" => p.entry.owner = c
           /\ p.res = "exception" => p.entry.owner = c /\ kinds[c] = "throw"
           /\ p.res = "ready" /\ p.entry.kind = "postthrow" =>
                 kinds[c] = "postthrow" /\ p.entry.first_time
<1> DEFINE r == Received(e, c, seg)
<1>1. /\ r \in Entry /\ r.start_read = e.start_read /\ r.step = e.step /\ r.got = e.got
      /\ r.kind = e.kind /\ r.first_time = e.first_time /\ r.post_end = e.post_end /\ r.owner = e.owner
      /\ r.who = IF seg = <<>> THEN e.who ELSE e.who \cup {c}
  BY ReceivedType DEF Received, Entry
<1>2. OwnEntry(r, c)
  BY <1>1 DEF OwnEntry
<1> HIDE DEF r
<1>3. CASE e.start_read
  BY <1>3 DEF ParseRequest, Parsed
<1>4. CASE ~e.start_read /\ ~HeadEnds(seg)
  <2>1. \/ p = Parsed("more", r)
        \/ p = Parsed("refused", OwnedBy(r, c))
        \/ p = Parsed("exception", OwnedBy(r, c)) /\ kinds[c] = "throw"
    <3>1. seg # <<>> => r.who = {c}
      BY <1>1 DEF OwnEntry
    <3> QED
      BY <1>4, <3>1, HeadBegun DEF r
  <2>2. e.step = 0 /\ e.kind = "status"
    BY <1>4 DEF EntryOK, GetKinds
  <2>3. LET d == OwnedBy(r, c)
        IN  /\ OwnEntry(d, c) /\ d.owner = c /\ d.start_read = e.start_read
            /\ d.step = e.step /\ d.got = e.got /\ d.kind = e.kind
    BY <1>1, <1>2, <1>4 DEF OwnEntry, OwnedBy, Entry
  <2> QED
    BY <1>1, <1>2, <1>4, <2>1, <2>2, <2>3 DEF Parsed, FileAtHand
<1>5. CASE ~e.start_read /\ HeadEnds(seg)
  <2>1. seg # <<>> /\ r.who = {c}
    BY <1>1, <1>5 DEF HeadEnds, OwnEntry
  <2>2. e.step = 0 /\ e.got = 0 /\ r.first_time
    BY <1>1, <1>5 DEF EntryOK, GetKinds, OwnEntry
  <2>3. ASSUME NEW k \in AllKinds
        PROVE  /\ OwnEntry(HeadOf(r, c, k), c) /\ HeadOf(r, c, k).start_read
               /\ HeadOf(r, c, k).step = 0 /\ HeadOf(r, c, k).got = 0
               /\ HeadOf(r, c, k).owner = c /\ HeadOf(r, c, k).kind = k
               /\ HeadOf(r, c, k).first_time
    BY <1>1, <1>2, <2>2 DEF OwnEntry, HeadOf, Entry
  <2>4. \E k \in AllKinds :
           \/ p = Parsed("ready", HeadOf(r, c, k)) /\ k = kinds[c]
           \/ p = Parsed("exception", HeadOf(r, c, k)) /\ kinds[c] = "throw"
    <3>1. kinds[c] \in AllKinds /\ LeftKinds \subseteq AllKinds
      BY <2>1 DEF AllKinds, LeftKinds, PostKinds
    <3> QED
      BY <1>5, <2>1, <3>1, HeadEnded DEF r
  <2> QED
    BY <1>5, <2>2, <2>3, <2>4 DEF Parsed, FileAtHand
<1>6. e.start_read \in BOOLEAN
  BY DEF Entry
<1> QED
  BY <1>3, <1>4, <1>5, <1>6

\* Answering changes neither whose bytes an entry has seen, nor what was read.
LEMMA DispatchKeeps ==
    ASSUME NEW t \in Tables, NEW e \in Entry, EntryOK(e),
           NEW n \in Nat, NEW gone \in BOOLEAN, NEW o \in Dispatch(t, e, n, gone)
    PROVE  \/ o.entry = NoEntry
           \/ /\ o.ret = 1 \/ e.kind = "postthrow"
              /\ o.entry[1].who = e.who
              /\ o.entry[1].start_read = e.start_read /\ o.entry[1].kind = e.kind
<1> DEFINE Same(x) == \/ x.entry = NoEntry
                      \/ /\ x.ret = 1 \/ e.kind = "postthrow"
                         /\ x.entry[1].who = e.who
                         /\ x.entry[1].start_read = e.start_read /\ x.entry[1].kind = e.kind
<1>1. \A u, d, msg : /\ Same(Finish(u, d, msg)) /\ Same(ThrowStatus(u, d))
                     /\ Same(Shut(Finish(u, d, msg)))
  BY DEF Finish, ThrowStatus, Outcome, Shut
<1>2. \A u, msg : \A d \in Entry :
         d.who = e.who /\ d.start_read = e.start_read /\ d.kind = e.kind =>
            /\ Same(Continue(u, d, msg))
            /\ e.kind = "postthrow" => Same(CatchAll(u, d))
  BY DEF Continue, CatchAll, Outcome
<1> HIDE DEF Same
<1>3. Same(NextBlock(t, e))
  <2> DEFINE d == [e EXCEPT !.step = @ + 1]
  <2>1. e.step # NBlocks => d \in Entry /\ d.who = e.who /\ d.start_read = e.start_read /\ d.kind = e.kind
    BY HandlingAssumption DEF Entry
  <2> HIDE DEF d
  <2> QED
    BY <1>1, <1>2, <2>1 DEF NextBlock, d
<1>4. ASSUME NEW f \in Fds \cup {NoFd}, NEW h \in SUBSET Fds
      PROVE  /\ [e EXCEPT !.file = f] \in Entry
             /\ [e EXCEPT !.step = 1, !.file = f] \in Entry
             /\ [e EXCEPT !.step = 1, !.file = f, !.held = h] \in Entry
  BY OneBlock DEF Entry
<1>5. LowestFree(t) \in Fds \cup {NoFd}
  BY LowestFreeIsFree DEF FreeFds
<1>6. CASE e.kind = "get" /\ o \in SendResponse200(t, e, gone)
  <2>1. Same(SendFailed(t, e))
    <3> DEFINE d == [e EXCEPT !.file = NoFd]
    <3>1. d \in Entry /\ d.who = e.who /\ d.start_read = e.start_read /\ d.kind = e.kind
      BY <1>4 DEF Entry
    <3> HIDE DEF d
    <3> QED
      BY <1>2, <3>1 DEF SendFailed, d
  <2>2. Same(OpenFile(t, e, LowestFree(t)))
    <3> DEFINE f == LowestFree(t)
               d == [e EXCEPT !.step = 1, !.file = f]
    <3>1. d \in Entry /\ d.who = e.who /\ d.start_read = e.start_read /\ d.kind = e.kind
      BY <1>4, <1>5 DEF Entry
    <3> HIDE DEF d
    <3> QED
      BY <1>2, <3>1 DEF OpenFile, d
  <2>3. o \in {SendFailed(t, e), ThrowStatus(t, e), OpenFile(t, e, LowestFree(t)),
               Finish(t, e, <<>>), NextBlock(t, e)}
    <3>1. e.step \in Nat
      BY DEF Entry
    <3> QED
      BY <1>6, <3>1 DEF SendResponse200
  <2> QED
    BY <1>1, <1>3, <2>1, <2>2, <2>3 DEF Same
<1>7. CASE e.kind = "cgiget" /\ o \in CgiRun(t, e)
  <2> DEFINE f == LowestFree(t)
             d == [e EXCEPT !.step = 1, !.file = f, !.held = {f} \ {NoFd}]
  <2>1. d \in Entry /\ d.who = e.who /\ d.start_read = e.start_read /\ d.kind = e.kind
    BY <1>4, <1>5 DEF Entry
  <2>2. o \in {Finish(t, e, Msg(e, "whole")), Continue(Install(t, f, File), d, Msg(e, "head")),
               Continue(t, e, Msg(e, "blank")), NextBlock(t, e)}
    <3>1. e.step \in Nat
      BY DEF Entry
    <3> HIDE DEF f
    <3> QED
      BY <1>7, <3>1 DEF CgiRun, f
  <2> HIDE DEF d, f
  <2> QED
    BY <1>1, <1>2, <1>3, <2>1, <2>2 DEF Same
<1>8. CASE e.kind = "post" /\ o \in PostRequest(t, e, n)
  <2> DEFINE f  == LowestFree(t)
             t1 == IF e.first_time THEN Install(t, f, File) ELSE t
             e1 == IF e.first_time THEN [e EXCEPT !.first_time = FALSE, !.file = f]
                   ELSE e
             e2 == [e1 EXCEPT !.got = @ + n]
             e3 == [e1 EXCEPT !.got = PostLen, !.file = NoFd]
  <2>1. e.kind = "post" /\ o \in StoreBody(t, e, n)
    BY <1>8 DEF PostRequest
  <2> HIDE DEF f
  <2>2. e1 \in Entry /\ e1.who = e.who /\ e1.start_read = e.start_read /\ e1.kind = "post"
    BY <1>5, <2>1 DEF Entry, f
  <2> HIDE DEF e1, t1
  <2>3. CASE e.post_end
    BY <1>1, <2>1, <2>3 DEF StoreBody, Created, Same
  <2>4. CASE ~e.post_end /\ e1.got + n < PostLen
    <3>1. o = Continue(t1, e2, <<>>)
      BY <2>1, <2>4 DEF StoreBody, e1, t1, f
    <3>2. e2 \in Entry /\ e2.who = e.who /\ e2.start_read = e.start_read /\ e2.kind = e.kind
      BY <2>1, <2>2, <2>4, HandlingAssumption DEF Entry
    <3> HIDE DEF e2
    <3> QED
      BY <1>2, <3>1, <3>2 DEF Same
  <2>5. CASE ~e.post_end /\ ~(e1.got + n < PostLen)
    <3>1. o \in Created(Close(t1, {e1.file}), e3)
      BY <2>1, <2>5 DEF StoreBody, e1, t1, f
    <3>2. e3.kind = "post"
      BY <2>2 DEF Entry
    <3> HIDE DEF e3
    <3> QED
      BY <1>1, <3>1, <3>2 DEF Created, Same
  <2>6. e.post_end \in BOOLEAN
    BY DEF Entry
  <2> QED
    BY <2>3, <2>4, <2>5, <2>6
<1>10. CASE e.kind = "postthrow" /\ o \in PostRequest(t, e, n)
  <2> DEFINE d == [e EXCEPT !.first_time = FALSE]
  <2>1. d \in Entry /\ d.who = e.who /\ d.start_read = e.start_read /\ d.kind = e.kind
    BY DEF Entry
  <2>2. o \in {CatchAll(t, d), Continue(t, e, <<>>), Finish(t, e, Msg(e, "whole"))}
    BY <1>10 DEF PostRequest, Created
  <2> HIDE DEF d
  <2> QED
    BY <1>1, <1>2, <1>10, <2>1, <2>2 DEF Same
<1>9. \/ o = ThrowStatus(t, e) \/ o = Shut(Finish(t, e, Msg(e, "whole")))
      \/ e.kind = "get" /\ o \in SendResponse200(t, e, gone)
      \/ e.kind = "cgiget" /\ o \in CgiRun(t, e)
      \/ e.kind \in {"post", "postthrow"} /\ o \in PostRequest(t, e, n)
  <2>1. /\ GetKinds \cap PostKinds = {}
        /\ e.kind \in PostKinds => e.kind \in {"post", "postthrow"}
    BY DEF GetKinds, PostKinds, EntryOK
  <2> QED
    BY <2>1 DEF Dispatch, GetMethod, GetKinds
<1> QED
  BY <1>1, <1>6, <1>7, <1>8, <1>9, <1>10 DEF Same

(***************************************************************************)
(* A call of the driver on c's own entry answers c, with the piece that    *)
(* comes next; the entry stays without its client only after an exception  *)
(* that c's request has caused.                                            *)
(***************************************************************************)
LEMMA DriverAnswers ==
    ASSUME NEW t \in Tables, NEW e \in Entry, EntryOK(e), NEW c, OwnEntry(e, c),
           e.kind # "postthrow",
           NEW gone \in BOOLEAN, NEW kinds \in [Conns -> AllKinds],
           NoCgiPost(kinds),
           NEW seg \in Seq(Units), seg # <<>> => c \in Conns,
           NEW o \in DriverOutcomes(t, e, c, gone, kinds, seg)
    PROVE  /\ Answers(e, c, BodyLen(e, seg), gone, o)
           /\ o.ret = 1 => (o.entry[1].start_read <=> (e.start_read \/ HeadEnds(seg)))
           /\ o.ret = 1 /\ e.start_read => o.entry[1].kind = e.kind
           /\ o.ret = 1 => o.entry[1].kind # "postthrow"
           /\ o.ret = 0 /\ o.entry # NoEntry => kinds[c] \in ThrowKinds
<1> DEFINE n == BodyLen(e, seg)
<1>0. n \in Nat
  BY BodyLenType
<1> HIDE DEF n
<1>1. PICK p \in ParseRequest(e, c, kinds, seg) :
        o \in (CASE p.res = "more"      -> {Continue(t, p.entry, <<>>)}
                 [] p.res = "refused"   -> {ThrowStatus(t, p.entry)}
                 [] p.res = "exception" -> {CatchAll(t, p.entry)}
                 [] p.res = "ready"     -> Dispatch(t, p.entry, n, gone))
  BY DEF DriverOutcomes, n
<1> DEFINE d == p.entry
<1>2. /\ p.res \in {"ready", "more", "refused", "exception"} /\ d \in Entry
  <2>1. ParseRequest(e, c, kinds, seg)
           \subseteq [res : {"ready", "more", "refused", "exception"}, entry : Entry]
    BY ParseRequestType
  <2> QED
    BY <1>1, <2>1
<1>3. EntryOK(d)
  <2>1. \A q \in ParseRequest(e, c, kinds, seg) : EntryOK(q.entry)
    BY ParseRequestEffects
  <2> QED
    BY <1>1, <2>1
<1>4. /\ OwnEntry(d, c) /\ (d.start_read <=> (e.start_read \/ HeadEnds(seg)))
      /\ d.step = e.step /\ d.got = e.got
      /\ e.start_read => d = e
      /\ FileAtHand(e) => FileAtHand(d)
      /\ p.res = "more" => d.kind = "status"
      /\ p.res = "ready" => d.start_read
      /\ p.res = "refused" => d.owner = c
      /\ p.res = "exception" => d.owner = c /\ kinds[c] = "throw"
      /\ p.res = "ready" /\ d.kind = "postthrow" => kinds[c] = "postthrow" /\ d.first_time
  BY <1>1, ParseRequestOwn
<1> HIDE DEF d
<1>5. CASE p.res = "more"
  <2>1. o = Continue(t, d, <<>>)
    BY <1>1, <1>5 DEF d
  <2>2. "status" \notin PostKinds
    BY DEF PostKinds
  <2>3. Answers(e, c, n, gone, o)
    BY <1>0, <1>2, <1>4, <1>5, <2>1, <2>2, SilentAnswers
  <2> QED
    BY <1>4, <1>5, <2>1, <2>3 DEF Continue, Outcome, n
<1>6. CASE p.res = "exception"
  <2>1. o = CatchAll(t, d)
    BY <1>1, <1>6 DEF d
  <2>2. Answers(e, c, n, gone, o)
    BY <1>4, <1>6, <2>1, ErrorAnswers
  <2> QED
    BY <1>4, <1>6, <2>1, <2>2 DEF CatchAll, Outcome, ThrowKinds, n
<1>8. CASE p.res = "refused"
  <2>1. o = ThrowStatus(t, d)
    BY <1>1, <1>8 DEF d
  <2>2. Answers(e, c, n, gone, o)
    BY <1>4, <1>8, <2>1, ErrorAnswers
  <2> QED
    BY <2>1, <2>2 DEF ThrowStatus, Finish, Outcome, n
<1>7. CASE p.res = "ready"
  <2>1. o \in Dispatch(t, d, n, gone)
    BY <1>1, <1>7 DEF d
  <2>2. Answers(d, c, n, gone, o)
    BY <1>0, <1>2, <1>3, <1>4, <1>7, <2>1, DispatchAnswers
  <2>3. Answers(e, c, n, gone, o)
    BY <1>4, <2>2 DEF Answers
  <2>4. \/ o.entry = NoEntry
        \/ /\ o.ret = 1 \/ d.kind = "postthrow"
           /\ o.entry[1].start_read = d.start_read /\ o.entry[1].kind = d.kind
    BY <1>0, <1>2, <1>3, <2>1, DispatchKeeps
  <2>5. o.ret = 1 => o.entry # NoEntry
    BY <2>2 DEF Answers
  <2>6. d.kind = "postthrow" => o.ret # 1
    BY <1>4, <1>7, <2>1 DEF Dispatch, GetKinds, PostKinds, PostRequest, CatchAll, Outcome
  <2> QED
    BY <1>4, <1>7, <2>3, <2>4, <2>5, <2>6 DEF ThrowKinds, n
<1> QED
  BY <1>2, <1>5, <1>6, <1>7, <1>8

\* Whosever entry it is: its bytes are those it had, and those of c.
LEMMA DriverWho ==
    ASSUME NEW t \in Tables, NEW e \in Entry, EntryOK(e), NEW c,
           NEW gone \in BOOLEAN, NEW kinds \in [Conns -> AllKinds],
           NoCgiPost(kinds),
           NEW seg \in Seq(Units), seg # <<>> => c \in Conns,
           NEW o \in DriverOutcomes(t, e, c, gone, kinds, seg)
    PROVE  o.entry # NoEntry => o.entry[1].who \subseteq e.who \cup {c}
<1> DEFINE n == BodyLen(e, seg)
           r == Received(e, c, seg)
<1>0. n \in Nat
  BY BodyLenType
<1> HIDE DEF n
<1>1. PICK p \in ParseRequest(e, c, kinds, seg) :
        o \in (CASE p.res = "more"      -> {Continue(t, p.entry, <<>>)}
                 [] p.res = "refused"   -> {ThrowStatus(t, p.entry)}
                 [] p.res = "exception" -> {CatchAll(t, p.entry)}
                 [] p.res = "ready"     -> Dispatch(t, p.entry, n, gone))
  BY DEF DriverOutcomes, n
<1>2. p.res \in {"ready", "more", "refused", "exception"} /\ p.entry \in Entry
  <2>1. ParseRequest(e, c, kinds, seg)
           \subseteq [res : {"ready", "more", "refused", "exception"}, entry : Entry]
    BY ParseRequestType
  <2> QED
    BY <1>1, <2>1
<1>3. EntryOK(p.entry)
  <2>1. \A q \in ParseRequest(e, c, kinds, seg) : EntryOK(q.entry)
    BY ParseRequestEffects
  <2> QED
    BY <1>1, <2>1
<1>4. r \in Entry /\ r.who \subseteq e.who \cup {c}
  BY ReceivedType DEF Received, Entry
<1> HIDE DEF r
<1>5. p.entry.who \subseteq e.who \cup {c}
  <2>1. CASE e.start_read
    BY <1>1, <2>1 DEF ParseRequest, Parsed
  <2>2. CASE ~e.start_read /\ ~HeadEnds(seg)
    <3>1. p.entry = r \/ \E w : p.entry = OwnedBy(r, w)
      BY <1>1, <2>2, HeadBegun DEF Parsed, r
    <3>2. \A w : OwnedBy(r, w).who = r.who
      BY <1>4 DEF OwnedBy, Entry
    <3> QED
      BY <1>4, <3>1, <3>2
  <2>3. CASE ~e.start_read /\ HeadEnds(seg)
    <3>1. \E w, k : p.entry = HeadOf(r, w, k)
      BY <1>1, <2>3, HeadEnded DEF Parsed, r
    <3>2. \A w, k : HeadOf(r, w, k).who = r.who
      BY <1>4 DEF HeadOf, Entry
    <3> QED
      BY <1>4, <3>1, <3>2
  <2>4. e.start_read \in BOOLEAN
    BY DEF Entry
  <2> QED
    BY <2>1, <2>2, <2>3, <2>4
<1>6. CASE p.res \in {"more", "refused", "exception"}
  BY <1>1, <1>5, <1>6 DEF Continue, CatchAll, ThrowStatus, Finish, Outcome
<1>7. CASE p.res = "ready"
  <2>1. o \in Dispatch(t, p.entry, n, gone)
    BY <1>1, <1>7
  <2>2. o.entry = NoEntry \/ o.entry[1].who = p.entry.who
    BY <1>0, <1>2, <1>3, <2>1, DispatchKeeps
  <2> QED
    BY <1>5, <2>2
<1> QED
  BY <1>2, <1>6, <1>7
-------------------------------------------------------------------------------

(***************************************************************************)
(* Type correctness.  What TypeOK lacks to be inductive: a peer has sent   *)
(* nothing before it has chosen its request, and a client that could be    *)
(* written but is not open is one that recv fails on first.                *)
(***************************************************************************)
TypeInv ==
    /\ TypeOK
    /\ \A c \in Conns : conn[c] = "new" => sent[c] = 0 /\ request[c] = "status"
    /\ Ghost \in tmpwrite => Ghost \in tmpread

\* A request has at least two units.
LEMMA StreamType ==
    ASSUME NEW k
    PROVE  Stream(k) \in Seq(Units) /\ Len(Stream(k)) \in Nat /\ Len(Stream(k)) >= 2
<1>1. <<"P", "H">> \in Seq(Units) /\ Len(<<"P", "H">>) = 2
  BY DEF Units
<1>2. [i \in 1 .. PostLen |-> "B"] \in Seq(Units)
  BY WebserverAssumption, HandlingAssumption DEF Units
<1>3. <<>> \in Seq(Units)
  OBVIOUS
<1> DEFINE body == IF k \in PostKinds THEN [i \in 1 .. PostLen |-> "B"] ELSE <<>>
<1>4. body \in Seq(Units)
  BY <1>2, <1>3
<1>5. /\ <<"P", "H">> \o body \in Seq(Units)
      /\ Len(<<"P", "H">> \o body) \in Nat /\ Len(<<"P", "H">> \o body) >= 2
  <2> HIDE DEF body
  <2>1. Len(body) \in Nat
    BY <1>4
  <2> QED
    BY <1>1, <1>4, <2>1
<1>6. Stream(k) = <<"P", "H">> \o body
  BY DEF Stream
<1> QED
  BY <1>5, <1>6, Zenon

\* The initial states are well typed.
LEMMA TypeInit == Init => TypeInv
<1> SUFFICES ASSUME Init PROVE TypeInv
  OBVIOUS
<1>1. FirstFd \in Nat /\ MaxFd \in Nat /\ NServers \in Nat \ {0} /\ 1 \in Servers
  BY HandlingAssumption, WebserverAssumption DEF Servers
<1>2. \A s \in Servers : ServerSocket(s) \in Fds
  BY <1>1, WebserverAssumption DEF Servers, ServerSocket, Fds
<1>3. fdt \in [Fds -> Objects] /\ cl \in [Fds -> Seq(Entry)] /\ \A f \in Fds : Len(cl[f]) <= 1
  BY DEF Init, Objects, NoEntry
<1>4. maxfds \in [Servers -> Int] /\ watched \in [Servers -> SUBSET Fds]
  <2>1. \A s \in Servers : ServerSocket(s) \in Int
    BY <1>1 DEF ServerSocket, Servers
  <2> QED
    BY <1>2, <2>1 DEF Init
<1>5. /\ sent \in [Conns -> Nat] /\ rcvd \in [Conns -> Nat]
      /\ \A c \in Conns : rcvd[c] <= sent[c] /\ sent[c] <= Len(Stream(request[c]))
  BY StreamType DEF Init
<1>6. unread \in [Conns -> 0 .. SndCap] /\ request \in [Conns -> AllKinds]
  BY WebserverAssumption DEF Init, AllKinds
<1> QED
  BY <1>1, <1>3, <1>4, <1>5, <1>6 DEF Init, TypeInv, TypeOK

\* A list stays a list when a client is removed.
LEMMA RemoveAtType ==
    ASSUME NEW S, NEW l \in Seq(S), NEW i \in 1 .. Len(l)
    PROVE  RemoveAt(l, i) \in Seq(S)
BY DEF RemoveAt

\* DeleteClient keeps the types.
LEMMA DeleteClientType ==
    ASSUME TypeOK, AtClient, NEW t \in Tables, DeleteClient(t)
    PROVE  /\ fdt' \in [Fds -> Objects]
           /\ clients' \in [Servers -> Seq(Fds \cup {Ghost})]
           /\ watched' \in [Servers -> SUBSET Fds]
           /\ maxfds' \in [Servers -> Int]
           /\ it' \in Nat \ {0}
<1>1. fdt' \in [Fds -> Objects]
  BY TableTypes DEF DeleteClient, CloseClient, Tables
<1>2. it \in 1 .. Len(clients[cur]) /\ clients[cur] \in Seq(Fds \cup {Ghost})
  BY DEF AtClient, TypeOK
<1>3. RemoveAt(clients[cur], it) \in Seq(Fds \cup {Ghost})
  BY <1>2, RemoveAtType
<1>4. clients' \in [Servers -> Seq(Fds \cup {Ghost})]
  BY <1>3 DEF DeleteClient, TypeOK
<1> QED
  BY <1>1, <1>4 DEF DeleteClient, FdClr, Decrement, TypeOK

\* So does going on to the next client.
LEMMA NextClientType ==
    ASSUME TypeOK, NEW t \in Tables, NextClient(t)
    PROVE  /\ fdt' \in [Fds -> Objects]
           /\ clients' \in [Servers -> Seq(Fds \cup {Ghost})]
           /\ watched' \in [Servers -> SUBSET Fds]
           /\ maxfds' \in [Servers -> Int]
           /\ it' \in Nat \ {0}
BY DEF TypeOK, NextClient, listVars, Tables

\* operator[] of the map finds or makes an entry.
LEMMA EntryAtType ==
    ASSUME TypeOK, NEW f \in Fds
    PROVE  EntryAt(f) \in Entry
<1>1. CASE cl[f] = NoEntry
  BY <1>1, NewEntryType DEF EntryAt
<1>2. CASE cl[f] # NoEntry
  <2>1. cl[f] \in Seq(Entry) /\ cl[f] # <<>>
    BY <1>2 DEF TypeOK, NoEntry
  <2>2. cl[f][1] \in Entry
    BY <2>1
  <2> QED
    BY <1>2, <2>2 DEF EntryAt
<1> QED
  BY <1>1, <1>2

\* That a redirect closes its client's socket before DeleteClient closes it
\* makes no difference: nothing is opened in between.
LEMMA DriveParts ==
    ASSUME NEW f, f = clients[cur][it], NEW seg, Drive(f, seg)
    PROVE  \E o \in DriverOutcomes(fdt, EntryAt(f), fdt[f],
                                  fdt[f] \notin Conns \/ (fdt[f] \in Conns /\ fin[fdt[f]]),
                                  request, seg) :
              /\ cl' = [cl EXCEPT ![f] = o.entry]
              /\ Deliver(fdt[f], o.msg)
              /\ IF o.ret = 0 THEN DeleteClient(o.fdt) ELSE NextClient(o.fdt)
<1>1. PICK o \in DriverOutcomes(fdt, EntryAt(f), fdt[f],
                               fdt[f] \notin Conns \/ (fdt[f] \in Conns /\ fin[fdt[f]]),
                               request, seg) :
        /\ cl' = [cl EXCEPT ![f] = o.entry]
        /\ Deliver(fdt[f], o.msg)
        /\ IF o.ret = 0 THEN DeleteClient(Left(o, f)) ELSE NextClient(o.fdt)
  BY DEF Drive
<1>2. CloseClient(Left(o, f)) = CloseClient(o.fdt)
  BY DEF CloseClient, Left, Close
<1>3. DeleteClient(Left(o, f)) => DeleteClient(o.fdt)
  BY <1>2 DEF DeleteClient
<1> QED
  BY <1>1, <1>3

\* A call of the driver keeps the types.
LEMMA DriveType ==
    ASSUME TypeOK, AtClient, NEW f \in Fds, f = clients[cur][it],
           NEW seg \in Seq(Units), seg # <<>> => fdt[f] \in Conns, Drive(f, seg)
    PROVE  /\ fdt' \in [Fds -> Objects]
           /\ cl' \in [Fds -> Seq(Entry)] /\ \A g \in Fds : Len(cl'[g]) <= 1
           /\ clients' \in [Servers -> Seq(Fds \cup {Ghost})]
           /\ watched' \in [Servers -> SUBSET Fds]
           /\ maxfds' \in [Servers -> Int]
           /\ it' \in Nat \ {0}
           /\ out' \in [Conns -> Seq([by : Conns \cup {NoConn},
                                      what : {"head", "body", "whole"}])]
           /\ unread' \in [Conns -> 0 .. SndCap]
<1> DEFINE gone == fdt[f] \notin Conns \/ (fdt[f] \in Conns /\ fin[fdt[f]])
<1>1. PICK o \in DriverOutcomes(fdt, EntryAt(f), fdt[f], gone, request, seg) :
        /\ cl' = [cl EXCEPT ![f] = o.entry]
        /\ Deliver(fdt[f], o.msg)
        /\ IF o.ret = 0 THEN DeleteClient(o.fdt) ELSE NextClient(o.fdt)
  BY DriveParts
<1>2. o \in Outcomes
  <2>1. EntryAt(f) \in Entry /\ fdt \in Tables /\ request \in [Conns -> AllKinds]
    BY EntryAtType DEF TypeOK, Tables
  <2>2. gone \in BOOLEAN
    OBVIOUS
  <2> HIDE DEF gone
  <2> QED
    BY <1>1, <2>1, <2>2, DriverOutcomesType
<1>3. o.fdt \in Tables /\ o.entry \in Entries /\ o.msg \in Messages
  BY <1>2 DEF Outcomes
<1>4. /\ fdt' \in [Fds -> Objects]
      /\ clients' \in [Servers -> Seq(Fds \cup {Ghost})]
      /\ watched' \in [Servers -> SUBSET Fds]
      /\ maxfds' \in [Servers -> Int]
      /\ it' \in Nat \ {0}
  BY <1>1, <1>3, DeleteClientType, NextClientType
<1>5. o.entry \in Seq(Entry) /\ Len(o.entry) <= 1
  <2>1. CASE o.entry = <<>>
    BY <2>1
  <2>2. CASE \E e \in Entry : o.entry = <<e>>
    BY <2>2
  <2> QED
    BY <1>3, <2>1, <2>2 DEF Entries, NoEntry
<1>6. cl' \in [Fds -> Seq(Entry)] /\ \A g \in Fds : Len(cl'[g]) <= 1
  BY <1>1, <1>5 DEF TypeOK
<1> DEFINE Heard == [by : Conns \cup {NoConn}, what : {"head", "body", "whole"}]
<1>7. /\ out' \in [Conns -> Seq(Heard)]
      /\ unread' \in [Conns -> 0 .. SndCap]
  <2>1. CASE o.msg # <<>> /\ fdt[f] \in Conns /\ ~fin[fdt[f]]
    <3>1. PICK m \in Message : o.msg = <<m>>
      BY <1>3, <2>1 DEF Messages
    <3>2. o.msg[1] = m
      BY <3>1
    <3>3. m.what # "blank" => m \in Heard
      BY DEF Message
    <3> DEFINE c == fdt[f]
    <3>0. c \in Conns
      BY <2>1
    <3>4. out' \in [Conns -> Seq(Heard)]
      <4>1. out \in [Conns -> Seq(Heard)]
        BY DEF TypeOK
      <4>2. out' = IF m.what = "blank" THEN out ELSE [out EXCEPT ![c] = Append(@, m)]
        BY <1>1, <2>1, <3>2 DEF Deliver
      <4> HIDE DEF c, Heard
      <4>3. CASE m.what = "blank"
        BY <4>1, <4>2, <4>3
      <4>4. CASE m.what # "blank"
        BY <3>0, <3>3, <4>1, <4>2, <4>4
      <4> QED
        BY <4>3, <4>4
    <3>5. unread' \in [Conns -> 0 .. SndCap]
      <4>1. unread \in [Conns -> 0 .. SndCap]
        BY DEF TypeOK
      <4>2. unread' = [unread EXCEPT ![c] = IF @ < SndCap THEN @ + 1 ELSE @]
        BY <1>1, <2>1 DEF Deliver
      <4> HIDE DEF c
      <4> QED
        BY <3>0, <4>1, <4>2, WebserverAssumption
    <3> QED
      BY <3>4, <3>5
  <2>2. CASE ~(o.msg # <<>> /\ fdt[f] \in Conns /\ ~fin[fdt[f]])
    BY <1>1, <2>2 DEF Deliver, TypeOK
  <2> QED
    BY <2>1, <2>2
<1> QED
  BY <1>4, <1>6, <1>7

\* AcceptAndAddClientToSet keeps the types of what it changes.
LEMMA AddClientType ==
    ASSUME TypeOK, NEW s \in Servers, NEW f \in Fds \cup {Ghost}, AddClient(s, f)
    PROVE  /\ clients' \in [Servers -> Seq(Fds \cup {Ghost})]
           /\ watched' \in [Servers -> SUBSET Fds]
           /\ maxfds' \in [Servers -> Int]
           /\ readyforwrite' \in [Servers -> BOOLEAN]
<1>1. f \in Int
  BY HandlingAssumption DEF Fds, Ghost, NoFd
<1> QED
  BY <1>1 DEF AddClient, FdSet, TypeOK

\* The steps of the peers keep the types.
LEMMA TypePeers ==
    ASSUME TypeInv, Peer
    PROVE  TypeInv'
<1>1. ASSUME NEW c \in Conns, NEW s \in Servers, NEW k \in Kinds, Connect(c, s, k)
      PROVE  TypeInv'
  <2>1. k \in AllKinds /\ sent[c] = 0 /\ rcvd[c] = 0
    BY <1>1, HandlingAssumption DEF Connect, TypeInv, TypeOK
  <2>2. request' \in [Conns -> AllKinds] /\ backlog' \in [Servers -> Seq(Conns)]
    BY <1>1, <2>1 DEF Connect, TypeInv, TypeOK
  <2>3. \A d \in Conns : rcvd[d] <= sent[d] /\ sent[d] <= Len(Stream(request'[d]))
    BY <1>1, <2>1, StreamType, SMTT(30) DEF Connect, TypeInv, TypeOK
  <2>4. conn' \in [Conns -> {"new", "pending", "accepted", "aborted"}]
    BY <1>1 DEF Connect, TypeInv, TypeOK
  <2>5. \A d \in Conns : conn'[d] = "new" => sent[d] = 0
    BY <1>1, <2>1 DEF Connect, TypeInv, TypeOK
  <2> QED
    BY <1>1, <2>2, <2>3, <2>4, <2>5
    DEF Connect, serverVars, listVars, loopVars, TypeInv, TypeOK
<1>2. ASSUME NEW c \in Conns, Send(c)
      PROVE  TypeInv'
  <2>1. conn[c] # "new"
    BY <1>2 DEF Send, Alive
  <2>2. Len(Stream(request[c])) \in Nat
    BY StreamType
  <2>3. sent' \in [Conns -> Nat]
    BY <1>2 DEF Send, TypeInv, TypeOK
  <2>4. \A d \in Conns : rcvd[d] <= sent'[d] /\ sent'[d] <= Len(Stream(request[d]))
    BY <1>2, <2>2 DEF Send, TypeInv, TypeOK
  <2>5. \A d \in Conns : conn[d] = "new" => sent'[d] = 0
    BY <1>2, <2>1 DEF Send, TypeInv, TypeOK
  <2> QED
    BY <1>2, <2>3, <2>4, <2>5 DEF Send, serverVars, listVars, loopVars, TypeInv, TypeOK
<1>3. ASSUME NEW c \in Conns, PeerClose(c)
      PROVE  TypeInv'
  <2>1. unread' \in [Conns -> 0 .. SndCap] /\ fin' \in [Conns -> BOOLEAN]
    BY <1>3, WebserverAssumption DEF PeerClose, TypeInv, TypeOK
  <2> QED
    BY <1>3, <2>1 DEF PeerClose, serverVars, listVars, loopVars, TypeInv, TypeOK
<1>4. ASSUME NEW c \in Conns, PeerRead(c)
      PROVE  TypeInv'
  <2>1. unread' \in [Conns -> 0 .. SndCap]
    BY <1>4, WebserverAssumption DEF PeerRead, TypeInv, TypeOK
  <2> QED
    BY <1>4, <2>1 DEF PeerRead, serverVars, listVars, loopVars, TypeInv, TypeOK
<1> QED
  BY <1>1, <1>2, <1>3, <1>4 DEF Peer

\* So does select, whether it fails or not.
LEMMA TypeSelect ==
    ASSUME TypeInv, Select \/ SelectFails
    PROVE  TypeInv'
<1>1. watched[cur] \subseteq Fds /\ Scanned(cur) \subseteq Fds
  BY DEF TypeInv, TypeOK, Scanned
<1>2. Ghost \notin Fds
  BY HandlingAssumption DEF Ghost, NoFd, Fds
<1>3. /\ tmpread' \in SUBSET (Fds \cup {Ghost}) /\ tmpwrite' \in SUBSET (Fds \cup {Ghost})
      /\ Ghost \in tmpwrite' => Ghost \in tmpread'
  <2>1. CASE Select
    BY <1>1, <1>2, <2>1 DEF Select
  <2>2. CASE SelectFails
    BY <1>1, <2>2 DEF SelectFails
  <2> QED
    BY <2>1, <2>2
<1>4. StartPass
  BY DEF Select, SelectFails
<1>5. pc' \in {"select", "accept", "iter"} /\ it' \in Nat \ {0}
  BY <1>4 DEF StartPass
<1> QED
  BY <1>3, <1>4, <1>5 DEF StartPass, listVars, peerVars, TypeInv, TypeOK

\* So does accept, whether it fails or not.
LEMMA TypeAccept ==
    ASSUME TypeInv, Accept \/ AcceptFails \/ AcceptAborted
    PROVE  TypeInv'
<1>1. ASSUME NEW f \in Fds \cup {Ghost}, AddClient(cur, f)
      PROVE  /\ clients' \in [Servers -> Seq(Fds \cup {Ghost})]
             /\ watched' \in [Servers -> SUBSET Fds]
             /\ maxfds' \in [Servers -> Int]
             /\ readyforwrite' \in [Servers -> BOOLEAN]
             /\ pc' \in {"select", "accept", "iter"}
             /\ UNCHANGED <<cl, cur, it, tmpread, tmpwrite>>
  <2>1. cur \in Servers
    BY DEF TypeInv, TypeOK
  <2>2. pc' = "iter" /\ UNCHANGED <<cl, cur, it, tmpread, tmpwrite>>
    BY <1>1 DEF AddClient
  <2> QED
    BY <1>1, <2>1, <2>2, AddClientType DEF TypeInv
<1>2. Ghost \in Fds \cup {Ghost}
  OBVIOUS
<1>3. CASE AcceptFails
  <2>1. AddClient(cur, Ghost)
    BY <1>3 DEF AcceptFails
  <2> QED
    BY <1>1, <1>2, <1>3, <2>1 DEF AcceptFails, peerVars, TypeInv, TypeOK
<1> DEFINE c == Head(backlog[cur])
<1>4. backlog[cur] # <<>> =>
        /\ c \in Conns
        /\ [backlog EXCEPT ![cur] = Tail(@)] \in [Servers -> Seq(Conns)]
  BY DEF TypeInv, TypeOK
<1>5. CASE AcceptAborted
  <2>1. AddClient(cur, Ghost)
    BY <1>5 DEF AcceptAborted
  <2>2. backlog' \in [Servers -> Seq(Conns)]
    BY <1>4, <1>5 DEF AcceptAborted
  <2>3. /\ conn' \in [Conns -> {"new", "pending", "accepted", "aborted"}]
        /\ \A d \in Conns : conn'[d] = "new" => conn[d] = "new"
    BY <1>4, <1>5 DEF AcceptAborted, TypeInv, TypeOK
  <2> QED
    BY <1>1, <1>2, <1>5, <2>1, <2>2, <2>3 DEF AcceptAborted, TypeInv, TypeOK
<1>6. CASE Accept
  <2> DEFINE f == LowestFree(fdt)
  <2>1. /\ backlog[cur] # <<>> /\ FreeFds(fdt) # {}
        /\ fdt' = Install(fdt, f, c)
        /\ conn' = [conn EXCEPT ![c] = "accepted"]
        /\ inherited' = IF cl[f] # NoEntry THEN inherited \cup {c} ELSE inherited
        /\ AddClient(cur, f)
        /\ backlog' = [backlog EXCEPT ![cur] = Tail(@)]
        /\ UNCHANGED <<request, sent, rcvd, fin, unread, out>>
    BY <1>6 DEF Accept
  <2>2. f \in Fds \cup {Ghost}
    BY LowestFreeIsFree DEF FreeFds, Ghost, TypeInv, TypeOK, Tables
  <2>3. c \in Conns /\ backlog' \in [Servers -> Seq(Conns)]
    BY <1>4, <2>1
  <2> HIDE DEF c, f
  <2>4. fdt' \in [Fds -> Objects] /\ inherited' \subseteq Conns
    BY <2>1, <2>3 DEF Install, Objects, TypeInv, TypeOK
  <2>5. /\ conn' \in [Conns -> {"new", "pending", "accepted", "aborted"}]
        /\ \A d \in Conns : conn'[d] = "new" => conn[d] = "new"
    BY <2>1, <2>3 DEF TypeInv, TypeOK
  <2> QED
    BY <1>1, <2>1, <2>2, <2>3, <2>4, <2>5 DEF TypeInv, TypeOK
<1> QED
  BY <1>3, <1>5, <1>6

\* So does a recv that fails.
LEMMA TypeRecvFails ==
    ASSUME TypeInv, RecvFails
    PROVE  TypeInv'
<1>1. AtClient /\ DeleteClient(fdt) /\ fdt \in Tables
  BY DEF RecvFails, TypeInv, TypeOK, Tables
<1> QED
  BY <1>1, DeleteClientType DEF RecvFails, peerVars, TypeInv, TypeOK

\* The pass is at a descriptor number or at Client(-1).
LEMMA ClientAtIt ==
    ASSUME TypeInv, AtClient
    PROVE  clients[cur][it] \in Fds \cup {Ghost}
BY DEF AtClient, TypeInv, TypeOK

\* recv never returns more than the peer has sent.
LEMMA TypeRecvData ==
    ASSUME TypeInv, RecvData
    PROVE  TypeInv'
<1> DEFINE f == clients[cur][it]
           c == fdt[f]
<1>1. AtClient /\ f \in Fds /\ c \in Conns
  BY ClientAtIt DEF RecvData, RecvNothing
<1>2. PICK n \in 1 .. Available(c) :
        /\ rcvd' = [rcvd EXCEPT ![c] = @ + n]
        /\ IF f \in tmpwrite
           THEN Drive(f, SubSeq(Stream(request[c]), rcvd[c] + 1, rcvd[c] + n))
           ELSE NextClient(fdt) /\ UNCHANGED <<cl, out, unread>>
  BY DEF RecvData
<1> DEFINE seg == SubSeq(Stream(request[c]), rcvd[c] + 1, rcvd[c] + n)
<1>3. /\ rcvd[c] \in Nat /\ sent[c] \in Nat /\ n \in Nat /\ rcvd[c] + n <= sent[c]
      /\ sent[c] <= Len(Stream(request[c]))
  BY <1>1, <1>2 DEF Available, TypeInv, TypeOK
<1>4. seg \in Seq(Units)
  BY <1>3, StreamType, SMTT(30)
<1>5. /\ rcvd' \in [Conns -> Nat]
      /\ \A d \in Conns : rcvd'[d] <= sent[d]
  <2>1. /\ rcvd \in [Conns -> Nat] /\ rcvd' = [rcvd EXCEPT ![c] = @ + n]
        /\ \A d \in Conns : rcvd[d] <= sent[d]
    BY <1>2 DEF TypeInv, TypeOK
  <2> HIDE DEF c
  <2>2. rcvd' \in [Conns -> Nat]
    BY <1>1, <1>3, <2>1
  <2>3. ASSUME NEW d \in Conns
        PROVE  rcvd'[d] <= sent[d]
    BY <1>1, <1>3, <2>1
  <2> QED
    BY <2>2, <2>3
<1>6. readyforwrite' \in [Servers -> BOOLEAN]
  BY DEF RecvData, SetReady, TypeInv, TypeOK
<1>7. /\ fdt' \in [Fds -> Objects]
      /\ cl' \in [Fds -> Seq(Entry)] /\ \A g \in Fds : Len(cl'[g]) <= 1
      /\ clients' \in [Servers -> Seq(Fds \cup {Ghost})]
      /\ watched' \in [Servers -> SUBSET Fds]
      /\ maxfds' \in [Servers -> Int]
      /\ it' \in Nat \ {0}
      /\ out' \in [Conns -> Seq([by : Conns \cup {NoConn},
                                 what : {"head", "body", "whole"}])]
      /\ unread' \in [Conns -> 0 .. SndCap]
  <2>0. TypeOK
    BY DEF TypeInv
  <2>1. CASE f \in tmpwrite
    <3>1. Drive(f, seg)
      BY <1>2, <2>1
    <3>2. f = clients[cur][it]
      OBVIOUS
    <3> HIDE DEF seg
    <3> QED
      BY <1>1, <1>4, <2>0, <3>1, <3>2, DriveType
  <2>2. CASE f \notin tmpwrite
    <3>1. NextClient(fdt) /\ UNCHANGED <<cl, out, unread>> /\ fdt \in Tables
      BY <1>2, <2>2 DEF TypeInv, TypeOK, Tables
    <3> QED
      BY <2>0, <3>1, NextClientType DEF TypeOK
  <2> QED
    BY <2>1, <2>2
<1> QED
  BY <1>5, <1>6, <1>7 DEF RecvData, TypeInv, TypeOK

\* A client with nothing to read keeps the types.
LEMMA TypeWriteOnly ==
    ASSUME TypeInv, WriteOnly
    PROVE  TypeInv'
<1> DEFINE f == clients[cur][it]
<1>1. /\ AtClient /\ f \notin tmpread
      /\ IF f \in tmpwrite /\ readyforwrite[cur]
         THEN Drive(f, <<>>)
         ELSE NextClient(fdt) /\ UNCHANGED <<cl, out, unread>>
  BY DEF WriteOnly
<1>2. /\ fdt' \in [Fds -> Objects]
      /\ cl' \in [Fds -> Seq(Entry)] /\ \A g \in Fds : Len(cl'[g]) <= 1
      /\ clients' \in [Servers -> Seq(Fds \cup {Ghost})]
      /\ watched' \in [Servers -> SUBSET Fds]
      /\ maxfds' \in [Servers -> Int]
      /\ it' \in Nat \ {0}
      /\ out' \in [Conns -> Seq([by : Conns \cup {NoConn},
                                 what : {"head", "body", "whole"}])]
      /\ unread' \in [Conns -> 0 .. SndCap]
  <2>0. TypeOK
    BY DEF TypeInv
  <2>1. CASE f \in tmpwrite /\ readyforwrite[cur]
    <3>1. Drive(f, <<>>) /\ f \in Fds
      BY <1>1, <2>1, ClientAtIt DEF TypeInv
    <3>2. <<>> \in Seq(Units) /\ f = clients[cur][it]
      OBVIOUS
    <3> HIDE DEF f
    <3> QED
      BY <1>1, <2>0, <3>1, <3>2, DriveType
  <2>2. CASE ~(f \in tmpwrite /\ readyforwrite[cur])
    <3>1. NextClient(fdt) /\ UNCHANGED <<cl, out, unread>> /\ fdt \in Tables
      BY <1>1, <2>2 DEF TypeInv, TypeOK, Tables
    <3> QED
      BY <2>0, <3>1, NextClientType DEF TypeOK
  <2> QED
    BY <2>1, <2>2
<1> QED
  BY <1>2 DEF WriteOnly, TypeInv, TypeOK

\* Every step does.
LEMMA TypeStep == TypeInv /\ [Next]_vars => TypeInv'
<1> SUFFICES ASSUME TypeInv, [Next]_vars
             PROVE  TypeInv'
  OBVIOUS
<1>1. CASE Peer
  BY <1>1, TypePeers
<1>2. CASE Select \/ SelectFails
  BY <1>2, TypeSelect
<1>3. CASE Accept \/ AcceptFails \/ AcceptAborted
  BY <1>3, TypeAccept
<1>4. CASE RecvFails
  BY <1>4, TypeRecvFails
<1>5. CASE RecvData
  BY <1>5, TypeRecvData
<1>6. CASE WriteOnly
  BY <1>6, TypeWriteOnly
<1>7. CASE EndPass
  <2>1. cur' \in Servers
    BY <1>7, WebserverAssumption DEF EndPass, Servers, TypeInv, TypeOK
  <2>2. /\ pc' \in {"select", "accept", "iter"} /\ it' \in Nat \ {0}
        /\ tmpread' \in SUBSET (Fds \cup {Ghost}) /\ tmpwrite' \in SUBSET (Fds \cup {Ghost})
        /\ Ghost \notin tmpwrite'
    BY <1>7 DEF EndPass
  <2>3. UNCHANGED <<fdt, cl, listVars, readyforwrite, peerVars, inherited>>
    BY <1>7 DEF EndPass
  <2> QED
    BY <2>1, <2>2, <2>3 DEF listVars, peerVars, TypeInv, TypeOK
<1>8. CASE UNCHANGED vars
  BY <1>8 DEF vars, listVars, loopVars, peerVars, TypeInv, TypeOK
<1> QED
  BY <1>1, <1>2, <1>3, <1>4, <1>5, <1>6, <1>7, <1>8 DEF Next, StartServer

(***************************************************************************)
(* Every variable keeps its type: in particular recv never returns more    *)
(* than the peer has sent, and the map has at most one entry per number.   *)
(***************************************************************************)
THEOREM TypeCorrect == Spec => []TypeOK
<1>1. TypeInv => TypeOK
  BY DEF TypeInv
<1> QED
  BY <1>1, TypeInit, TypeStep, PTL DEF Spec
-------------------------------------------------------------------------------
(***************************************************************************)
(* The sockets and the files of the event loop: when no POST goes to a CGI *)
(* script, the lists of clients, the select sets and the descriptor table  *)
(* agree, no descriptor leaks, and no server goes deaf.                    *)
(***************************************************************************)

(***************************************************************************)
(* The part of the invariant about files: the entries of the map keep what *)
(* a call of the driver needs, and the open files are just theirs.         *)
(***************************************************************************)
FilesInv ==
    /\ \A f \in Fds : cl[f] # NoEntry => EntryOK(cl[f][1])
    /\ FilesAreOwned
    /\ \A f \in Fds : fdt[f] = File => \E g \in Fds : FileOf(g) = f

(***************************************************************************)
(* The part about sockets.  ListenerWatched is not inductive: a client     *)
(* above maxfds is still listed, so the list may be longer than maxfds     *)
(* allows.  What bounds the deletions of one pass is that select reported  *)
(* only numbers up to maxfds: Due holds the clients the pass may still     *)
(* delete, and each needs a number of its own between the listening socket *)
(* and maxfds.                                                             *)
(***************************************************************************)
Due == {clients[cur][i] : i \in it .. Len(clients[cur])} \cap (tmpread \cup tmpwrite)

SocketsInv ==
    /\ ClientsAreOpen
    /\ ListenerWatched
    /\ \A f \in Fds : fdt[f] \in Conns => \E s \in Servers : f \in Listed(s)
    /\ Ghost \notin tmpread \cup tmpwrite
    /\ pc = "accept" => tmpread \cup tmpwrite \subseteq watched[cur]
    /\ Cardinality(Due) + ServerSocket(cur) <= maxfds[cur]

Inv == TypeInv /\ NoCgiPost(request) /\ FilesInv /\ SocketsInv

-------------------------------------------------------------------------------
\* The listening sockets have the first numbers.
LEMMA SocketNumbers ==
    /\ \A s \in Servers : ServerSocket(s) \in Fds /\ ServerSocket(s) \in Nat
    /\ \A s, r \in Servers : ServerSocket(s) = ServerSocket(r) => s = r
BY HandlingAssumption, WebserverAssumption DEF Servers, ServerSocket, Fds

\* So a client has a number above all of them.
LEMMA ClientAbove ==
    ASSUME ListenerWatched, NEW f \in Fds, fdt[f] \in Conns, NEW s \in Servers
    PROVE  ServerSocket(s) < f
<1>1. SUFFICES ASSUME ~(ServerSocket(s) < f) PROVE FALSE
  OBVIOUS
<1> DEFINE r == f - FirstFd + 1
<1>2. /\ FirstFd \in Nat /\ f \in Nat /\ FirstFd <= f /\ s \in Nat /\ s <= NServers
      /\ NServers \in Nat /\ ServerSocket(s) = FirstFd + s - 1
  BY HandlingAssumption, WebserverAssumption DEF Fds, Servers, ServerSocket
<1>3. f <= FirstFd + s - 1
  BY <1>1, <1>2
<1>4. r \in Servers /\ ServerSocket(r) = f
  BY <1>2, <1>3 DEF Servers, ServerSocket
<1>5. fdt[f] = Listener
  BY <1>4 DEF ListenerWatched
<1> QED
  BY <1>5, Distinct

\* What is left of the pass is finite.
LEMMA DueFinite ==
    ASSUME TypeOK
    PROVE  /\ IsFiniteSet(Fds \cup {Ghost})
           /\ IsFiniteSet(Due)
           /\ Cardinality(Due) \in Nat
<1>1. IsFiniteSet(Fds)
  BY FS_Interval, HandlingAssumption DEF Fds
<1>2. IsFiniteSet(Fds \cup {Ghost})
  BY <1>1, FS_AddElement
<1>3. Due \subseteq Fds \cup {Ghost}
  BY DEF Due, TypeOK
<1> QED
  BY <1>2, <1>3, FS_Subset, FS_CardinalityType

\* The file of the entry under a number.
LEMMA FileOfEntry ==
    ASSUME TypeOK, NEW f \in Fds
    PROVE  FileOf(f) = EntryAt(f).file /\ FileOf(f) \in Fds \cup {NoFd}
<1>1. EntryAt(f) \in Entry
  BY EntryAtType
<1>2. FileOf(f) = EntryAt(f).file
  BY NewEntryOK DEF FileOf, EntryAt
<1> QED
  BY <1>1, <1>2 DEF Entry

\* What RemoveAt leaves.
LEMMA RemoveAtElements ==
    ASSUME NEW S, NEW l \in Seq(S), NEW i \in 1 .. Len(l)
    PROVE  /\ Len(RemoveAt(l, i)) = Len(l) - 1
           /\ \A j \in 1 .. Len(l) - 1 :
                 RemoveAt(l, i)[j] = IF j < i THEN l[j] ELSE l[j + 1]
<1> DEFINE a == SubSeq(l, 1, i - 1)
           b == SubSeq(l, i + 1, Len(l))
<1>1. /\ i \in Nat /\ 1 <= i /\ i <= Len(l) /\ Len(l) \in Nat
  OBVIOUS
<1>2. /\ a \in Seq(S) /\ Len(a) = i - 1
      /\ \A j \in 1 .. i - 1 : a[j] = l[j]
  BY <1>1
<1>3. /\ b \in Seq(S) /\ Len(b) = Len(l) - i
      /\ \A j \in 1 .. Len(l) - i : b[j] = l[j + i]
  BY <1>1
<1> HIDE DEF a, b
<1>4. /\ Len(a \o b) = Len(l) - 1
      /\ \A j \in 1 .. Len(l) - 1 :
            (a \o b)[j] = IF j <= i - 1 THEN a[j] ELSE b[j - (i - 1)]
  BY <1>1, <1>2, <1>3
<1>5. ASSUME NEW j \in 1 .. Len(l) - 1
      PROVE  (a \o b)[j] = IF j < i THEN l[j] ELSE l[j + 1]
  <2>1. CASE j < i
    BY <1>1, <1>2, <1>4, <2>1
  <2>2. CASE ~(j < i)
    <3>1. j - (i - 1) \in 1 .. Len(l) - i /\ (j - (i - 1)) + i = j + 1
      BY <1>1, <2>2
    <3>2. b[j - (i - 1)] = l[j + 1]
      BY <1>3, <3>1
    <3> QED
      BY <1>1, <1>4, <2>2, <3>2
  <2> QED
    BY <2>1, <2>2
<1>6. RemoveAt(l, i) = a \o b
  BY DEF RemoveAt, a, b
<1> QED
  BY <1>4, <1>5, <1>6

\* In the initial states nothing is open but the listening sockets.
LEMMA InvInit == Init => Inv
<1> SUFFICES ASSUME Init PROVE Inv
  OBVIOUS
<1>1. TypeInv
  BY TypeInit
<1>2. NoCgiPost(request)
  BY DEF Init, NoCgiPost
<1>3. FilesInv
  BY Distinct DEF Init, FilesInv, FilesAreOwned, FileOf, NoEntry
<1>4. \A s \in Servers : clients[s] = <<>> /\ Listed(s) = {}
  BY DEF Init, Listed
<1>5. ClientsAreOpen
  BY <1>4 DEF Init, ClientsAreOpen, WatchedAreListed, ListedAreOpen, ListedOnce
<1>6. ListenerWatched
  BY SocketNumbers DEF Init, ListenerWatched
<1>7. \A f \in Fds : fdt[f] \notin Conns
  BY Distinct DEF Init
<1>8. Cardinality(Due) = 0
  <2>1. Due = {}
    BY DEF Init, Due
  <2> QED
    BY <2>1, FS_EmptySet
<1>9. Cardinality(Due) + ServerSocket(cur) <= maxfds[cur]
  <2>1. cur \in Servers
    BY <1>1 DEF TypeInv, TypeOK
  <2>2. maxfds[cur] = ServerSocket(cur) /\ ServerSocket(cur) \in Nat
    BY <2>1, SocketNumbers DEF Init
  <2> QED
    BY <1>8, <2>2
<1>10. SocketsInv
  BY <1>5, <1>6, <1>7, <1>9 DEF Init, SocketsInv
<1> QED
  BY <1>1, <1>2, <1>3, <1>10 DEF Inv

\* The peers touch neither.
LEMMA InvPeers ==
    ASSUME Inv, NoCgiPost(request'), Peer \/ UNCHANGED vars, TypeInv'
    PROVE  Inv'
<1>1. UNCHANGED serverVars
  BY DEF Peer, Connect, Send, PeerClose, PeerRead, vars, serverVars
<1>2. FilesInv'
  BY <1>1 DEF serverVars, Inv, FilesInv, FilesAreOwned, FileOf
<1>3. ClientsAreOpen' /\ ListenerWatched'
  BY <1>1 DEF serverVars, listVars, Inv, SocketsInv, ClientsAreOpen, WatchedAreListed,
              ListedAreOpen, ListedOnce, Listed, ListenerWatched
<1>4. SocketsInv'
  BY <1>1, <1>3 DEF serverVars, listVars, loopVars, Inv, SocketsInv, Listed, Due
<1> QED
  BY <1>2, <1>4 DEF Inv

-------------------------------------------------------------------------------
\* A step that leaves the tables and the lists alone keeps most of it.
LEMMA InvFrame ==
    ASSUME Inv, UNCHANGED <<fdt, cl, listVars, request>>
    PROVE  /\ NoCgiPost(request') /\ FilesInv' /\ ClientsAreOpen' /\ ListenerWatched'
           /\ \A f \in Fds : fdt'[f] \in Conns => \E s \in Servers : f \in Listed(s)'
<1>1. FilesInv'
  BY DEF Inv, FilesInv, FilesAreOwned, FileOf
<1>2. ClientsAreOpen' /\ ListenerWatched'
  BY DEF listVars, Inv, SocketsInv, ClientsAreOpen, WatchedAreListed,
         ListedAreOpen, ListedOnce, Listed, ListenerWatched
<1> QED
  BY <1>1, <1>2 DEF listVars, Inv, SocketsInv, Listed

\* Everything that is watched is open: select does not fail.
LEMMA NoSelectErr ==
    ASSUME Inv
    PROVE  ~SelectErr(cur)
<1>1. /\ TypeOK /\ cur \in Servers /\ ClientsAreOpen /\ ListenerWatched
  BY DEF Inv, TypeInv, TypeOK, SocketsInv
<1>2. maxfds[cur] \in Int /\ ServerSocket(cur) <= maxfds[cur] /\ ServerSocket(cur) \in Nat
  BY <1>1, SocketNumbers DEF TypeOK, ListenerWatched
<1>3. ~(maxfds[cur] + 1 < 0)
  BY <1>2
<1>4. ASSUME NEW f \in Scanned(cur)
      PROVE  fdt[f] # Free
  <2>1. f \in {ServerSocket(cur)} \cup (Listed(cur) \ {Ghost})
    BY <1>1, <1>4 DEF Scanned, ClientsAreOpen, WatchedAreListed
  <2>2. CASE f = ServerSocket(cur)
    BY <1>1, <2>2, Distinct DEF ListenerWatched
  <2>3. CASE f \in Listed(cur) \ {Ghost}
    BY <1>1, <2>3, Distinct DEF ClientsAreOpen, ListedAreOpen
  <2> QED
    BY <2>1, <2>2, <2>3
<1> QED
  BY <1>3, <1>4 DEF SelectErr

\* The clients a pass may delete have numbers of their own up to maxfds.
LEMMA InvSelect ==
    ASSUME Inv, Select \/ SelectFails, TypeInv'
    PROVE  Inv'
<1>1. Select
  BY NoSelectErr DEF SelectFails
<1>2. /\ TypeOK /\ cur \in Servers /\ ClientsAreOpen /\ ListenerWatched
  BY DEF Inv, TypeInv, TypeOK, SocketsInv
<1>3. /\ tmpread' \subseteq Scanned(cur) /\ tmpwrite' \subseteq Scanned(cur)
      /\ UNCHANGED <<fdt, cl, listVars, cur, request>>
      /\ it' = 1
  BY <1>1 DEF Select, StartPass, peerVars
<1>4. Scanned(cur) \subseteq watched[cur] /\ watched[cur] \subseteq Fds
  BY <1>2 DEF Scanned, TypeOK
<1>5. Ghost \notin (tmpread \cup tmpwrite)'
  BY <1>3, <1>4, Distinct DEF Ghost
<1>6. (tmpread \cup tmpwrite)' \subseteq watched'[cur']
  BY <1>3, <1>4 DEF listVars
<1>7. Cardinality(Due)' + ServerSocket(cur') <= maxfds'[cur']
  <2> DEFINE D == Due'
             a == ServerSocket(cur)
             b == maxfds[cur]
  <2>1. a \in Nat /\ b \in Int /\ a <= b
    BY <1>2, SocketNumbers DEF ListenerWatched, TypeOK
  <2>2. D \subseteq (a + 1) .. b
    <3> SUFFICES ASSUME NEW f \in D
                 PROVE  f \in (a + 1) .. b
      OBVIOUS
    <3>1. f \in Scanned(cur) /\ f \in Listed(cur)
      BY <1>2, <1>3 DEF Due, Listed, listVars, TypeOK
    <3>2. f \in Fds /\ f # Ghost /\ f <= b
      BY <1>4, <3>1, Distinct DEF Ghost, Scanned
    <3>3. fdt[f] \in Conns
      BY <1>2, <3>1, <3>2 DEF ClientsAreOpen, ListedAreOpen
    <3>4. a < f
      BY <1>2, <3>2, <3>3, ClientAbove
    <3>5. f \in Nat
      BY <3>2, Distinct
    <3> HIDE DEF a, b
    <3> QED
      BY <2>1, <3>2, <3>4, <3>5
  <2> HIDE DEF D, a, b
  <2>3. IsFiniteSet((a + 1) .. b) /\ Cardinality((a + 1) .. b) = b - a
    <3>1. a + 1 \in Int /\ (a + 1 > b => b - a = 0) /\ b - (a + 1) + 1 = b - a
      BY <2>1
    <3> QED
      BY <2>1, <3>1, FS_Interval
  <2>4. Cardinality(D) <= b - a /\ Cardinality(D) \in Nat
    BY <2>2, <2>3, FS_Subset, FS_CardinalityType
  <2>5. Cardinality(D) + a <= b
    BY <2>1, <2>4
  <2>6. a = ServerSocket(cur') /\ b = maxfds'[cur']
    BY <1>3 DEF a, b, listVars
  <2> QED
    BY <2>5, <2>6 DEF D
<1>8. SocketsInv'
  BY <1>3, <1>5, <1>6, <1>7, InvFrame DEF SocketsInv
<1> QED
  BY <1>3, <1>8, InvFrame DEF Inv

\* The end of a pass forgets what select said.
LEMMA InvEndPass ==
    ASSUME Inv, EndPass, TypeInv'
    PROVE  Inv'
<1>1. UNCHANGED <<fdt, cl, listVars, request>> /\ tmpread' = {} /\ tmpwrite' = {}
  BY DEF EndPass, peerVars
<1>2. cur' \in Servers
  BY DEF TypeInv, TypeOK
<1>3. ListenerWatched'
  BY <1>1, InvFrame
<1>4. Cardinality(Due)' + ServerSocket(cur') <= maxfds'[cur']
  <2>1. Cardinality(Due)' = 0
    <3>1. Due' = {}
      BY <1>1 DEF Due
    <3> QED
      BY <3>1, FS_EmptySet
  <2>2. ServerSocket(cur') \in Nat /\ ServerSocket(cur') <= maxfds'[cur']
    BY <1>2, <1>3, SocketNumbers DEF ListenerWatched
  <2> QED
    BY <2>1, <2>2
<1>5. pc' # "accept"
  BY DEF EndPass
<1>6. SocketsInv'
  BY <1>1, <1>4, <1>5, InvFrame DEF SocketsInv
<1> QED
  BY <1>1, <1>6, InvFrame DEF Inv

-------------------------------------------------------------------------------
\* What AddClient does to a list.
LEMMA AddClientList ==
    ASSUME TypeOK, NEW f \in Fds \cup {Ghost}, AddClient(cur, f)
    PROVE  /\ \A s \in Servers : s # cur => clients'[s] = clients[s]
           /\ \/ clients'[cur] = clients[cur] /\ f = Ghost
              \/ clients'[cur] = Append(clients[cur], f)
BY DEF AddClient, TypeOK

(***************************************************************************)
(* A new client has a number nobody has, and select has said nothing of it *)
(* in this pass.                                                           *)
(***************************************************************************)
LEMMA InvAddClient ==
    ASSUME Inv, pc = "accept", NEW f \in Fds \cup {Ghost}, NEW o,
           AddClient(cur, f),
           f = Ghost => fdt' = fdt,
           f # Ghost => fdt[f] = Free /\ o \in Conns /\ fdt' = Install(fdt, f, o)
    PROVE  FilesInv' /\ SocketsInv'
<1> DEFINE L == clients[cur]
<1>1. /\ TypeOK /\ cur \in Servers /\ ClientsAreOpen /\ ListenerWatched
      /\ fdt \in [Fds -> Objects] /\ L \in Seq(Fds \cup {Ghost})
      /\ clients \in [Servers -> Seq(Fds \cup {Ghost})]
      /\ watched \in [Servers -> SUBSET Fds] /\ maxfds \in [Servers -> Int]
  BY DEF Inv, TypeInv, TypeOK, SocketsInv
<1>2. Ghost \notin Fds
  BY Distinct DEF Ghost
<1>3. \A g \in Fds : fdt'[g] = IF g = f THEN o ELSE fdt[g]
  BY <1>1, <1>2 DEF Install
<1>4. f # Ghost => f \in Fds /\ fdt[f] = Free /\ o \in Conns
  OBVIOUS
<1>5. UNCHANGED <<cl, cur, it, tmpread, tmpwrite>> /\ pc' = "iter"
  BY DEF AddClient
<1>6. watched' = FdSet(cur, f)
  BY DEF AddClient
<1>7. maxfds' = [maxfds EXCEPT ![cur] = IF f > @ THEN f ELSE @]
  BY DEF AddClient
<1>8. \A s \in Servers : \A g \in Listed(s) \ {Ghost} : g \in Fds /\ fdt[g] \in Conns
  BY <1>1 DEF ClientsAreOpen, ListedAreOpen, Listed
<1>9. \A s \in Servers : f # Ghost => f \notin Listed(s)
  BY <1>4, <1>8, Distinct
<1>10. \A s \in Servers : Listed(s)' \ {Ghost} =
         (Listed(s) \cup (IF s = cur THEN {f} ELSE {})) \ {Ghost}
  <2> SUFFICES ASSUME NEW s \in Servers
               PROVE  Listed(s)' \ {Ghost} =
                        (Listed(s) \cup (IF s = cur THEN {f} ELSE {})) \ {Ghost}
    OBVIOUS
  <2>1. CASE s # cur
    BY <1>1, <2>1, AddClientList DEF Listed
  <2>2. CASE s = cur /\ clients'[cur] = L /\ f = Ghost
    BY <2>2 DEF Listed
  <2>3. CASE s = cur /\ clients'[cur] = Append(L, f)
    <3>1. /\ Len(Append(L, f)) = Len(L) + 1 /\ Append(L, f)[Len(L) + 1] = f
          /\ \A i \in 1 .. Len(L) : Append(L, f)[i] = L[i]
          /\ DOMAIN Append(L, f) = 1 .. Len(L) + 1 /\ DOMAIN L = 1 .. Len(L)
          /\ Len(L) \in Nat
      BY <1>1
    <3>2. Listed(s)' = {Append(L, f)[i] : i \in 1 .. Len(L) + 1}
      BY <2>3, <3>1 DEF Listed
    <3>3. Listed(s) = {L[i] : i \in 1 .. Len(L)}
      BY <2>3, <3>1 DEF Listed
    <3> HIDE DEF L
    <3>4. {Append(L, f)[i] : i \in 1 .. Len(L) + 1} = {L[i] : i \in 1 .. Len(L)} \cup {f}
      BY <3>1
    <3> QED
      BY <2>3, <3>2, <3>3, <3>4
  <2> QED
    BY <1>1, <2>1, <2>2, <2>3, AddClientList
<1>11. WatchedAreListed'
  <2>1. \A s \in Servers : watched'[s] =
          watched[s] \cup ((IF s = cur THEN {f} ELSE {}) \ {Ghost})
    BY <1>1, <1>6 DEF FdSet
  <2> QED
    BY <1>1, <1>2, <1>10, <2>1, SocketNumbers
    DEF ClientsAreOpen, WatchedAreListed
<1>12. ListedAreOpen'
  BY <1>3, <1>4, <1>8, <1>10 DEF ListedAreOpen
<1>13. ListedOnce'
  <2> SUFFICES ASSUME NEW s \in Servers, NEW r \in Servers,
                      NEW i \in DOMAIN clients'[s], NEW j \in DOMAIN clients'[r],
                      clients'[s][i] = clients'[r][j], clients'[s][i] # Ghost
               PROVE  s = r /\ i = j
    BY DEF ListedOnce
  <2>1. ASSUME NEW q \in Servers, NEW k \in DOMAIN clients'[q]
        PROVE  \/ k \in DOMAIN clients[q] /\ clients'[q][k] = clients[q][k]
               \/ q = cur /\ k = Len(L) + 1 /\ clients'[q][k] = f
    <3>1. CASE q # cur
      BY <1>1, <2>1, <3>1, AddClientList
    <3>2. CASE q = cur /\ clients'[cur] = L
      BY <1>1, <2>1, <3>2
    <3>3. CASE q = cur /\ clients'[cur] = Append(L, f)
      <4> HIDE DEF L
      <4>1. k \in 1 .. Len(L) + 1 /\ Len(L) \in Nat
        BY <1>1, <2>1, <3>3
      <4>2. CASE k = Len(L) + 1
        BY <1>1, <3>3, <4>1, <4>2
      <4>3. CASE k # Len(L) + 1
        <5>1. k \in 1 .. Len(L) /\ Append(L, f)[k] = L[k]
          BY <1>1, <4>1, <4>3
        <5> QED
          BY <1>1, <3>3, <5>1 DEF L
      <4> QED
        BY <4>2, <4>3
    <3> QED
      BY <1>1, <3>1, <3>2, <3>3, AddClientList
  <2>2. \A q \in Servers : \A k \in DOMAIN clients[q] : clients[q][k] \in Listed(q)
    BY DEF Listed
  <2> HIDE DEF L
  <2>3. CASE i \in DOMAIN clients[s] /\ clients'[s][i] = clients[s][i]
    <3>1. clients[s][i] # f
      BY <1>9, <2>2, <2>3
    <3>2. j \in DOMAIN clients[r] /\ clients'[r][j] = clients[r][j]
      BY <2>1, <2>3, <3>1
    <3>3. clients[s][i] = clients[r][j] /\ clients[s][i] # Ghost
      BY <2>3, <3>2
    <3> QED
      BY <1>1, <2>3, <3>2, <3>3 DEF ClientsAreOpen, ListedOnce
  <2>4. CASE s = cur /\ i = Len(L) + 1 /\ clients'[s][i] = f
    <3>1. ~(j \in DOMAIN clients[r] /\ clients'[r][j] = clients[r][j])
      BY <1>9, <2>2, <2>4
    <3> QED
      BY <2>1, <2>4, <3>1
  <2> QED
    BY <2>1, <2>3, <2>4
<1>14. ListenerWatched'
  <2> SUFFICES ASSUME NEW s \in Servers
               PROVE  fdt'[ServerSocket(s)] = Listener /\ ServerSocket(s) <= maxfds'[s]
    BY DEF ListenerWatched
  <2>1. /\ ServerSocket(s) \in Fds /\ fdt[ServerSocket(s)] = Listener
        /\ ServerSocket(s) <= maxfds[s] /\ ServerSocket(s) \in Nat /\ maxfds[s] \in Int
    BY <1>1, SocketNumbers DEF ListenerWatched
  <2>2. maxfds'[s] \in {maxfds[s], f} /\ maxfds'[s] >= maxfds[s]
    <3>1. f \in Int
      BY Distinct DEF Ghost, NoFd
    <3> QED
      BY <1>1, <1>7, <2>1, <3>1
  <2>3. f \in Int
    BY Distinct DEF Ghost, NoFd
  <2>4. ServerSocket(s) # f
    BY <1>2, <1>4, <2>1, Distinct
  <2> QED
    BY <1>3, <2>1, <2>2, <2>3, <2>4
<1>15. \A g \in Fds : fdt'[g] \in Conns => \E s \in Servers : g \in Listed(s)'
  <2> SUFFICES ASSUME NEW g \in Fds, fdt'[g] \in Conns
               PROVE  \E s \in Servers : g \in Listed(s)' \ {Ghost}
    OBVIOUS
  <2>1. CASE g = f
    BY <1>1, <1>2, <1>10, <2>1
  <2>2. CASE g # f
    <3>1. \E s \in Servers : g \in Listed(s)
      BY <1>3, <2>2 DEF Inv, SocketsInv
    <3> QED
      BY <1>2, <1>10, <3>1
  <2> QED
    BY <2>1, <2>2
<1>16. Cardinality(Due)' + ServerSocket(cur') <= maxfds'[cur']
  <2>1. f \notin tmpread \cup tmpwrite
    <3>1. f # Ghost => f \notin watched[cur]
      BY <1>1, <1>4, <1>9, Distinct
      DEF ClientsAreOpen, WatchedAreListed, ListenerWatched
    <3> QED
      BY <3>1 DEF Inv, SocketsInv
  <2>2. Due' \subseteq Due
    <3> SUFFICES ASSUME NEW g \in Due'
                 PROVE  g \in Due
      OBVIOUS
    <3>1. g \in (tmpread \cup tmpwrite)
      BY <1>5 DEF Due
    <3>2. PICK i \in it .. Len(clients'[cur]) : g = clients'[cur][i]
      BY <1>5 DEF Due
    <3>3. i \in it .. Len(L) /\ g = L[i]
      <4>1. it \in Nat /\ it >= 1
        BY <1>1 DEF TypeOK
      <4>2. CASE clients'[cur] = L
        BY <3>2, <4>2
      <4>3. CASE clients'[cur] = Append(L, f)
        <5> HIDE DEF L
        <5>1. Len(L) \in Nat /\ i \in it .. Len(L) + 1 /\ g = Append(L, f)[i]
          BY <1>1, <3>2, <4>3
        <5>2. i # Len(L) + 1
          BY <1>1, <2>1, <3>1, <5>1
        <5>3. i \in 1 .. Len(L) /\ i \in it .. Len(L)
          BY <4>1, <5>1, <5>2
        <5> QED
          BY <1>1, <5>1, <5>3
      <4> QED
        BY <1>1, <4>2, <4>3, AddClientList
    <3> QED
      BY <3>1, <3>3 DEF Due
  <2> DEFINE D == Due
             E == Due'
  <2>3. IsFiniteSet(D) /\ Cardinality(D) \in Nat
    BY <1>1, DueFinite
  <2> HIDE DEF D, E
  <2>4. Cardinality(E) <= Cardinality(D) /\ Cardinality(E) \in Nat
    BY <2>2, <2>3, FS_Subset, FS_CardinalityType DEF D, E
  <2>5. /\ Cardinality(D) + ServerSocket(cur) <= maxfds[cur]
    BY DEF Inv, SocketsInv, D
  <2>6. maxfds'[cur] >= maxfds[cur] /\ maxfds'[cur] \in Int /\ maxfds[cur] \in Int
    <3>1. f \in Int
      BY Distinct DEF Ghost, NoFd
    <3> QED
      BY <1>1, <1>7, <3>1
  <2>7. Cardinality(E) + ServerSocket(cur) <= maxfds'[cur]
    BY <1>1, <2>3, <2>4, <2>5, <2>6, SocketNumbers
  <2> QED
    BY <1>5, <2>7 DEF E
<1>17. FilesInv'
  <2>1. \A g \in Fds : FileOf(g)' = FileOf(g)
    BY <1>5 DEF FileOf
  <2>2. \A g \in Fds : fdt'[g] = File <=> fdt[g] = File
    BY <1>3, <1>4, Distinct
  <2>3. \A g \in Fds : FileOf(g) # NoFd => FileOf(g) \in Fds
    BY <1>1, FileOfEntry
  <2> QED
    BY <1>5, <2>1, <2>2, <2>3 DEF Inv, FilesInv, FilesAreOwned
<1>18. Ghost \notin (tmpread \cup tmpwrite)'
  BY <1>5 DEF Inv, SocketsInv
<1> QED
  BY <1>5, <1>11, <1>12, <1>13, <1>14, <1>15, <1>16, <1>17, <1>18
  DEF SocketsInv, ClientsAreOpen

\* Whether accept succeeds or not.
LEMMA InvAccept ==
    ASSUME Inv, Accept \/ AcceptFails \/ AcceptAborted, TypeInv'
    PROVE  Inv'
<1>1. pc = "accept" /\ UNCHANGED request
  BY DEF Accept, AcceptFails, AcceptAborted, peerVars
<1>2. NoCgiPost(request')
  BY <1>1 DEF Inv
<1>3. CASE AcceptFails \/ AcceptAborted
  <2>1. AddClient(cur, Ghost) /\ fdt' = fdt
    BY <1>3 DEF AcceptFails, AcceptAborted
  <2> QED
    BY <1>1, <1>2, <2>1, InvAddClient DEF Inv
<1>4. CASE Accept
  <2> DEFINE c == Head(backlog[cur])
             f == LowestFree(fdt)
  <2>1. fdt' = Install(fdt, f, c) /\ AddClient(cur, f) /\ backlog[cur] # <<>>
        /\ FreeFds(fdt) # {}
    BY <1>4 DEF Accept
  <2>2. c \in Conns /\ fdt \in Tables
    <3>1. backlog[cur] \in Seq(Conns) /\ fdt \in Tables
      BY DEF Inv, TypeInv, TypeOK, Tables
    <3> QED
      BY <2>1, <3>1
  <2>3. f \in Fds /\ fdt[f] = Free /\ f # Ghost
    BY <2>1, <2>2, LowestFreeIsFree, Distinct DEF FreeFds, Ghost
  <2> HIDE DEF c, f
  <2> QED
    BY <1>1, <1>2, <2>1, <2>2, <2>3, InvAddClient DEF Inv
<1> QED
  BY <1>3, <1>4

-------------------------------------------------------------------------------
\* t opens and closes no socket.
SameSockets(t) ==
    \A g \in Fds : /\ fdt[g] \in Conns \cup {Listener} => t[g] = fdt[g]
                   /\ t[g] \in Conns \cup {Listener} => t[g] = fdt[g]

InPass == AtClient /\ UNCHANGED <<cur, pc, tmpread, tmpwrite>>

(***************************************************************************)
(* Deleting the client the pass is at, of which select has said something, *)
(* is deleting it from everything.                                         *)
(***************************************************************************)
LEMMA SocketsDelete ==
    ASSUME Inv, InPass, NEW t \in Tables, SameSockets(t), DeleteClient(t),
           clients[cur][it] \in tmpread \cup tmpwrite
    PROVE  /\ SocketsInv'
           /\ \A g \in Fds : fdt'[g] = File <=> t[g] = File
<1> DEFINE L == clients[cur]
           f == L[it]
<1>1. /\ TypeOK /\ cur \in Servers /\ ClientsAreOpen /\ ListenerWatched
      /\ L \in Seq(Fds \cup {Ghost}) /\ it \in 1 .. Len(L) /\ Len(L) \in Nat
      /\ clients \in [Servers -> Seq(Fds \cup {Ghost})]
      /\ watched \in [Servers -> SUBSET Fds] /\ maxfds \in [Servers -> Int]
  <2>1. /\ TypeOK /\ cur \in Servers /\ ClientsAreOpen /\ ListenerWatched
        /\ clients \in [Servers -> Seq(Fds \cup {Ghost})]
        /\ watched \in [Servers -> SUBSET Fds] /\ maxfds \in [Servers -> Int]
        /\ it \in Nat \ {0}
    BY DEF Inv, TypeInv, TypeOK, SocketsInv
  <2>2. it <= Len(L)
    BY DEF InPass, AtClient
  <2> QED
    BY <2>1, <2>2
<1>2. f \in Fds /\ f # Ghost /\ f \in Listed(cur)
  <2>1. f \in Fds \cup {Ghost} /\ f \in Listed(cur)
    BY <1>1 DEF Listed
  <2> QED
    BY <2>1 DEF Inv, SocketsInv
<1>3. fdt[f] \in Conns
  BY <1>1, <1>2 DEF ClientsAreOpen, ListedAreOpen
<1>4. \A s \in Servers : ServerSocket(s) # f
  BY <1>1, <1>3, Distinct DEF ListenerWatched
<1>5. /\ UNCHANGED <<cur, pc, tmpread, tmpwrite, it>>
      /\ watched' = [watched EXCEPT ![cur] = @ \ {f}]
      /\ maxfds' = [maxfds EXCEPT ![cur] = @ - 1]
      /\ clients' = [clients EXCEPT ![cur] = RemoveAt(@, it)]
  BY DEF InPass, DeleteClient, FdClr, Decrement
<1>6. \A g \in Fds : fdt'[g] = IF g = f THEN Free ELSE t[g]
  BY DEF DeleteClient, CloseClient, Close
<1>7. /\ Len(clients'[cur]) = Len(L) - 1
      /\ \A j \in 1 .. Len(L) - 1 : clients'[cur][j] = IF j < it THEN L[j] ELSE L[j + 1]
      /\ clients'[cur] \in Seq(Fds \cup {Ghost})
      /\ \A s \in Servers : s # cur => clients'[s] = clients[s]
  <2>1. clients'[cur] = RemoveAt(L, it)
    BY <1>1, <1>5
  <2> HIDE DEF L
  <2> QED
    BY <1>1, <1>5, <2>1, RemoveAtElements, RemoveAtType, ZenonT(30)
<1> DEFINE Pos(s, j) == IF s = cur /\ it <= j THEN j + 1 ELSE j
<1>8. ASSUME NEW s \in Servers, NEW j \in DOMAIN clients'[s]
      PROVE  /\ Pos(s, j) \in DOMAIN clients[s] /\ clients'[s][j] = clients[s][Pos(s, j)]
             /\ s = cur => Pos(s, j) # it
             /\ j \in Nat
  <2>1. CASE s = cur
    <3> HIDE DEF f
    <3>1. j \in 1 .. Len(L) - 1
      BY <1>7, <1>8, <2>1
    <3> QED
      BY <1>1, <1>7, <2>1, <3>1
  <2>2. CASE s # cur
    BY <1>1, <1>7, <1>8, <2>2
  <2> QED
    BY <2>1, <2>2
<1>9. ASSUME NEW s \in Servers, NEW k \in DOMAIN clients[s], clients[s][k] = f
      PROVE  s = cur /\ k = it
  BY <1>1, <1>2, <1>9 DEF ClientsAreOpen, ListedOnce
<1>10. \A s \in Servers : Listed(s)' = Listed(s) \ {f}
  <2> SUFFICES ASSUME NEW s \in Servers
               PROVE  Listed(s)' = Listed(s) \ {f}
    OBVIOUS
  <2>1. ASSUME NEW g \in Listed(s)'
        PROVE  g \in Listed(s) \ {f}
    <3>1. PICK j \in DOMAIN clients'[s] : g = clients'[s][j]
      BY <2>1 DEF Listed
    <3> HIDE DEF Pos, f
    <3>2. Pos(s, j) \in DOMAIN clients[s] /\ g = clients[s][Pos(s, j)]
      BY <1>8, <3>1
    <3>3. g # f
      BY <1>8, <1>9, <3>1, <3>2
    <3> QED
      BY <3>2, <3>3 DEF Listed
  <2>2. ASSUME NEW g \in Listed(s) \ {f}
        PROVE  g \in Listed(s)'
    <3>1. PICK k \in DOMAIN clients[s] : g = clients[s][k]
      BY <2>2 DEF Listed
    <3>2. CASE s # cur
      BY <1>7, <3>1, <3>2 DEF Listed
    <3>3. CASE s = cur
      <4>1. k \in 1 .. Len(L) /\ g = L[k] /\ k # it
        BY <1>1, <2>2, <3>1, <3>3
      <4> DEFINE j == IF k < it THEN k ELSE k - 1
      <4>2. j \in 1 .. Len(L) - 1 /\ (IF j < it THEN L[j] ELSE L[j + 1]) = L[k]
        BY <1>1, <4>1
      <4>3. j \in DOMAIN clients'[cur] /\ clients'[cur][j] = g
        <5> HIDE DEF L, j, f
        <5>1. DOMAIN clients'[cur] = 1 .. Len(L) - 1
          BY <1>7
        <5> QED
          BY <1>7, <4>1, <4>2, <5>1
      <4> QED
        BY <3>3, <4>3 DEF Listed
    <3> QED
      BY <3>2, <3>3
  <2> QED
    BY <2>1, <2>2
<1>11. WatchedAreListed'
  <2>1. \A s \in Servers : watched'[s] = watched[s] \ (IF s = cur THEN {f} ELSE {})
    BY <1>1, <1>5
  <2>2. \A s \in Servers : s # cur => f \notin Listed(s)
    BY <1>9 DEF Listed
  <2> HIDE DEF f
  <2> QED
    BY <1>1, <1>4, <1>10, <2>1, <2>2 DEF ClientsAreOpen, WatchedAreListed
<1>12. \A g \in Fds : g # f /\ fdt[g] \in Conns \cup {Listener} => fdt'[g] = fdt[g]
  BY <1>6 DEF SameSockets
<1>13. ListedAreOpen'
  <2>1. \A s \in Servers : \A g \in Listed(s) \ {Ghost} : g \in Fds /\ fdt[g] \in Conns
    BY <1>1 DEF ClientsAreOpen, ListedAreOpen, Listed
  <2> QED
    BY <1>10, <1>12, <2>1 DEF ListedAreOpen
<1>14. ListedOnce'
  <2> SUFFICES ASSUME NEW s \in Servers, NEW r \in Servers,
                      NEW i \in DOMAIN clients'[s], NEW j \in DOMAIN clients'[r],
                      clients'[s][i] = clients'[r][j], clients'[s][i] # Ghost
               PROVE  s = r /\ i = j
    BY DEF ListedOnce
  <2>1. /\ Pos(s, i) \in DOMAIN clients[s] /\ Pos(r, j) \in DOMAIN clients[r]
        /\ clients[s][Pos(s, i)] = clients[r][Pos(r, j)]
        /\ clients[s][Pos(s, i)] # Ghost /\ i \in Nat /\ j \in Nat
    <3> HIDE DEF Pos
    <3> QED
      BY <1>8
  <2>2. s = r /\ Pos(s, i) = Pos(r, j)
    <3> HIDE DEF Pos
    <3> QED
      BY <1>1, <2>1 DEF ClientsAreOpen, ListedOnce
  <2> QED
    BY <1>1, <2>1, <2>2
<1> DEFINE D == Due
           E == Due'
           T == tmpread \cup tmpwrite
<1>15. /\ IsFiniteSet(D) /\ f \in D /\ E \subseteq D \ {f}
  <2>1. IsFiniteSet(D)
    BY <1>1, DueFinite
  <2>2. f \in D
    <3>1. it \in it .. Len(L)
      BY <1>1
    <3> QED
      BY <3>1 DEF Due
  <2>3. ASSUME NEW g \in E
        PROVE  g \in D \ {f}
    <3>1. PICK j \in it .. Len(clients'[cur]) : g = clients'[cur][j] /\ g \in T
      BY <1>5, <2>3 DEF Due
    <3>2. j \in it .. Len(L) - 1 /\ j \in 1 .. Len(L) - 1
      BY <1>1, <1>7, <3>1
    <3>3. g = L[j + 1] /\ j + 1 \in it .. Len(L) /\ j + 1 # it
      BY <1>1, <1>7, <3>1, <3>2
    <3>4. g # f
      <4>1. j + 1 \in DOMAIN L
        BY <1>1, <3>3
      <4> QED
        BY <1>1, <1>9, <3>3, <4>1
    <3> QED
      BY <3>1, <3>3, <3>4 DEF Due
  <2> QED
    BY <2>1, <2>2, <2>3
<1>16. /\ Cardinality(D) \in Nat /\ Cardinality(E) \in Nat
       /\ Cardinality(E) <= Cardinality(D) - 1
  <2> HIDE DEF D, E, f
  <2>1. Cardinality(D \ {f}) = Cardinality(D) - 1 /\ IsFiniteSet(D \ {f})
    BY <1>15, FS_RemoveElement
  <2> QED
    BY <1>15, <2>1, FS_Subset, FS_CardinalityType
<1>17. Cardinality(D) + ServerSocket(cur) <= maxfds[cur]
  BY DEF Inv, SocketsInv
<1>18. maxfds'[cur] = maxfds[cur] - 1 /\ maxfds[cur] \in Int
  BY <1>1, <1>5
<1>19. /\ Cardinality(E) + ServerSocket(cur) <= maxfds'[cur]
       /\ ServerSocket(cur) <= maxfds'[cur]
  <2> HIDE DEF D, E, f
  <2>1. ServerSocket(cur) \in Nat
    BY <1>1, SocketNumbers
  <2> QED
    BY <1>16, <1>17, <1>18, <2>1
<1>20. ListenerWatched'
  <2>1. \A s \in Servers : s # cur => maxfds'[s] = maxfds[s]
    BY <1>1, <1>5
  <2> QED
    BY <1>1, <1>4, <1>12, <1>19, <2>1, SocketNumbers DEF ListenerWatched
<1>21. \A g \in Fds : fdt'[g] \in Conns => \E s \in Servers : g \in Listed(s)'
  <2> SUFFICES ASSUME NEW g \in Fds, fdt'[g] \in Conns
               PROVE  \E s \in Servers : g \in Listed(s)'
    OBVIOUS
  <2>1. g # f /\ t[g] = fdt'[g]
    BY <1>6, Distinct
  <2>2. fdt[g] \in Conns
    BY <2>1 DEF SameSockets
  <2> QED
    BY <1>10, <2>1, <2>2 DEF Inv, SocketsInv
<1>22. \A g \in Fds : fdt'[g] = File <=> t[g] = File
  <2>1. t[f] = fdt[f]
    BY <1>2, <1>3 DEF SameSockets
  <2> QED
    BY <1>3, <1>6, <2>1, Distinct
<1>23. /\ Ghost \notin (tmpread \cup tmpwrite)'
       /\ pc' # "accept"
  BY <1>5 DEF InPass, AtClient, Inv, SocketsInv
<1>24. Cardinality(Due)' + ServerSocket(cur') <= maxfds'[cur']
  BY <1>5, <1>19
<1> QED
  BY <1>11, <1>13, <1>14, <1>20, <1>21, <1>22, <1>23, <1>24 DEF SocketsInv, ClientsAreOpen

\* Going on to the next client deletes nothing.
LEMMA SocketsNext ==
    ASSUME Inv, InPass, NEW t \in Tables, SameSockets(t), NextClient(t)
    PROVE  SocketsInv' /\ fdt' = t
<1>1. /\ TypeOK /\ cur \in Servers /\ ClientsAreOpen /\ ListenerWatched
  BY DEF Inv, TypeInv, TypeOK, SocketsInv
<1>2. fdt' = t /\ UNCHANGED <<clients, watched, maxfds, cur, pc, tmpread, tmpwrite>>
      /\ it' = it + 1
  BY DEF InPass, NextClient, listVars
<1>3. \A s \in Servers : Listed(s)' = Listed(s)
  BY <1>2 DEF Listed
<1>4. \A s \in Servers : \A g \in Listed(s) \ {Ghost} : g \in Fds /\ fdt[g] \in Conns
  BY <1>1 DEF ClientsAreOpen, ListedAreOpen, Listed, TypeOK
<1>5. ClientsAreOpen'
  BY <1>1, <1>2, <1>3, <1>4
  DEF ClientsAreOpen, WatchedAreListed, ListedAreOpen, ListedOnce, SameSockets
<1>6. ListenerWatched'
  BY <1>1, <1>2, SocketNumbers DEF ListenerWatched, SameSockets
<1>7. \A g \in Fds : fdt'[g] \in Conns => \E s \in Servers : g \in Listed(s)'
  BY <1>2, <1>3 DEF Inv, SocketsInv, SameSockets
<1> DEFINE D == Due
           E == Due'
<1>8. E \subseteq D
  <2>1. it \in Nat /\ Len(clients[cur]) \in Nat
    BY <1>1 DEF TypeOK
  <2>2. it + 1 .. Len(clients[cur]) \subseteq it .. Len(clients[cur])
    BY <2>1
  <2> QED
    BY <1>2, <2>2 DEF Due
<1>9. Cardinality(E) <= Cardinality(D) /\ Cardinality(E) \in Nat /\ Cardinality(D) \in Nat
  <2>1. IsFiniteSet(D) /\ Cardinality(D) \in Nat
    BY <1>1, DueFinite
  <2> HIDE DEF D, E
  <2> QED
    BY <1>8, <2>1, FS_Subset, FS_CardinalityType
<1>10. Cardinality(Due)' + ServerSocket(cur') <= maxfds'[cur']
  <2>1. Cardinality(D) + ServerSocket(cur) <= maxfds[cur]
    BY DEF Inv, SocketsInv
  <2>2. ServerSocket(cur) \in Nat /\ maxfds[cur] \in Int
    BY <1>1, SocketNumbers DEF TypeOK
  <2> HIDE DEF D, E
  <2>3. Cardinality(E) + ServerSocket(cur) <= maxfds[cur]
    BY <1>9, <2>1, <2>2
  <2> QED
    BY <1>2, <2>3 DEF E
<1>11. Ghost \notin (tmpread \cup tmpwrite)' /\ pc' # "accept"
  BY <1>2 DEF InPass, AtClient, Inv, SocketsInv
<1> QED
  BY <1>2, <1>5, <1>6, <1>7, <1>10, <1>11 DEF SocketsInv

(***************************************************************************)
(* A call of the driver keeps the invariant, whatever it returns, and      *)
(* closes no connection but its own.                                       *)
(***************************************************************************)
LEMMA InvDrive ==
    ASSUME Inv, InPass, NEW f \in Fds, f = clients[cur][it], f \in tmpread \cup tmpwrite,
           NEW seg \in Seq(Units), Drive(f, seg)
    PROVE  /\ FilesInv' /\ SocketsInv'
           /\ \A g \in Fds : Closed(g) => g = f
<1> DEFINE gone == fdt[f] \notin Conns \/ (fdt[f] \in Conns /\ fin[fdt[f]])
           e == EntryAt(f)
<1>1. PICK o \in DriverOutcomes(fdt, e, fdt[f], gone, request, seg) :
        /\ cl' = [cl EXCEPT ![f] = o.entry]
        /\ Deliver(fdt[f], o.msg)
        /\ IF o.ret = 0 THEN DeleteClient(o.fdt) ELSE NextClient(o.fdt)
  BY DriveParts
<1>2. /\ TypeOK /\ FilesInv /\ SocketsInv /\ NoCgiPost(request) /\ fdt \in Tables
      /\ request \in [Conns -> AllKinds] /\ cl \in [Fds -> Seq(Entry)]
      /\ cur \in Servers
  BY DEF Inv, TypeInv, TypeOK, Tables
<1>3. fdt[f] \in Conns
  <2>1. f \in Listed(cur) \ {Ghost}
    BY <1>2, Distinct DEF Listed, Ghost, InPass, AtClient, TypeOK
  <2> QED
    BY <1>2, <2>1 DEF SocketsInv, ClientsAreOpen, ListedAreOpen
<1>4. gone \in BOOLEAN
  OBVIOUS
<1>5. e \in Entry /\ EntryOK(e) /\ FileOf(f) = e.file
  <2>1. e \in Entry /\ FileOf(f) = e.file
    BY <1>2, EntryAtType, FileOfEntry
  <2>2. EntryOK(e)
    BY <1>2, NewEntryOK DEF EntryAt, FilesInv
  <2> QED
    BY <2>1, <2>2
<1>6. HasFile(fdt, e)
  BY <1>2, <1>5, FileOfEntry DEF FilesInv, FilesAreOwned, HasFile
<1> HIDE DEF gone, e
<1>7. Effects(fdt, e, o)
  BY <1>1, <1>2, <1>3, <1>4, <1>5, <1>6, DriverEffects
<1>8. o.fdt \in Tables /\ o.entry \in Entries
  <2>1. o \in Outcomes
    BY <1>1, <1>2, <1>3, <1>4, <1>5, DriverOutcomesType
  <2> QED
    BY <2>1 DEF Outcomes
<1> DEFINE t == o.fdt
<1>9. SameSockets(t)
  BY <1>7 DEF Effects, SameSockets
<1>10. SocketsInv' /\ \A g \in Fds : fdt'[g] = File <=> t[g] = File
  <2>1. CASE o.ret = 0
    BY <1>1, <1>8, <1>9, <2>1, SocketsDelete
  <2>2. CASE o.ret # 0
    BY <1>1, <1>8, <1>9, <2>2, SocketsNext
  <2> QED
    BY <2>1, <2>2
<1>11. \A g \in Fds : Closed(g) => g = f
  BY <1>1, <1>9 DEF SameSockets, Closed, DeleteClient, CloseClient, Close, NextClient
<1> DEFINE d == IF o.entry = NoEntry THEN NoFd ELSE o.entry[1].file
           N(g) == IF g = f THEN d ELSE FileOf(g)
<1>12. \A g \in Fds : FileOf(g)' = N(g)
  BY <1>1, <1>2 DEF FileOf
<1>13. \A g \in Fds : FileOf(g) \in Fds \cup {NoFd}
  BY <1>2, FileOfEntry
<1>14. d \in {NoFd, e.file} \/ (d \in Fds /\ fdt[d] = Free)
  BY <1>7 DEF Effects
<1>15. \A g \in Fds : t[g] = File <=> (fdt[g] = File /\ g # e.file) \/ d = g
  BY <1>7, Distinct DEF Effects
<1>16. \A g, h \in Fds : /\ FileOf(g) # NoFd => fdt[FileOf(g)] = File
                         /\ FileOf(g) = FileOf(h) /\ g # h => FileOf(g) = NoFd
  BY <1>2 DEF FilesInv, FilesAreOwned
<1>17. \A g \in Fds : fdt[g] = File => \E h \in Fds : FileOf(h) = g
  BY <1>2 DEF FilesInv
<1> HIDE DEF d, t
<1>18. \A g \in Fds : N(g) # NoFd => t[N(g)] = File
  <2> SUFFICES ASSUME NEW g \in Fds, N(g) # NoFd
               PROVE  t[N(g)] = File
    OBVIOUS
  <2>1. CASE g = f
    <3>1. d \in Fds
      BY <1>5, <1>13, <1>14, <2>1
    <3> QED
      BY <1>15, <2>1, <3>1
  <2>2. CASE g # f
    BY <1>5, <1>13, <1>15, <1>16, <2>2
  <2> QED
    BY <2>1, <2>2
<1>19. \A g, h \in Fds : N(g) = N(h) /\ g # h => N(g) = NoFd
  BY <1>5, <1>14, <1>16, Distinct
<1>20. \A g \in Fds : t[g] = File => \E h \in Fds : N(h) = g
  BY <1>5, <1>15, <1>17
<1>21. \A g \in Fds : cl'[g] # NoEntry => EntryOK(cl'[g][1])
  <2>1. o.entry # NoEntry => EntryOK(o.entry[1])
    BY <1>7 DEF Effects
  <2> QED
    BY <1>1, <1>2, <2>1 DEF FilesInv
<1>22. \A g \in Fds : N(g) \in Fds \cup {NoFd}
  BY <1>5, <1>13, <1>14
<1>23. \A g \in Fds : fdt'[g] = File <=> t[g] = File
  BY <1>10
<1> HIDE DEF N
<1>24. FilesAreOwned'
  BY <1>12, <1>18, <1>19, <1>22, <1>23 DEF FilesAreOwned
<1>25. \A g \in Fds : fdt'[g] = File => \E h \in Fds : FileOf(h)' = g
  BY <1>12, <1>20, <1>23
<1> QED
  BY <1>10, <1>11, <1>21, <1>24, <1>25 DEF FilesInv

\* A client whose turn passes without a call of the driver.
LEMMA InvSkip ==
    ASSUME Inv, InPass, NextClient(fdt), UNCHANGED cl
    PROVE  FilesInv' /\ SocketsInv' /\ \A g \in Fds : ~Closed(g)
<1>1. fdt \in Tables /\ SameSockets(fdt)
  BY DEF Inv, TypeInv, TypeOK, Tables, SameSockets
<1>2. SocketsInv' /\ fdt' = fdt
  BY <1>1, SocketsNext
<1> QED
  BY <1>2 DEF Inv, FilesInv, FilesAreOwned, FileOf, Closed

\* The client whose recv fails goes; its entry and its file stay.
LEMMA InvRecvFails ==
    ASSUME Inv, RecvFails
    PROVE  /\ FilesInv' /\ SocketsInv'
           /\ \A g \in Fds : Closed(g) => g = clients[cur][it]
<1>1. /\ InPass /\ DeleteClient(fdt) /\ UNCHANGED cl
      /\ clients[cur][it] \in tmpread \cup tmpwrite
  BY DEF RecvFails, InPass
<1>2. fdt \in Tables /\ SameSockets(fdt)
  BY DEF Inv, TypeInv, TypeOK, Tables, SameSockets
<1>3. SocketsInv' /\ \A g \in Fds : fdt'[g] = File <=> fdt[g] = File
  BY <1>1, <1>2, SocketsDelete
<1>4. \A g \in Fds : FileOf(g) \in Fds \cup {NoFd}
  BY FileOfEntry DEF Inv, TypeInv
<1>5. \A g \in Fds : FileOf(g)' = FileOf(g)
  BY <1>1 DEF FileOf
<1>6. FilesInv'
  BY <1>1, <1>3, <1>4, <1>5 DEF Inv, FilesInv, FilesAreOwned
<1> QED
  BY <1>1, <1>3, <1>6 DEF Closed, DeleteClient, CloseClient, Close

\* recv returns something.
LEMMA InvRecvData ==
    ASSUME Inv, RecvData
    PROVE  /\ FilesInv' /\ SocketsInv'
           /\ \A g \in Fds : Closed(g) => g = clients[cur][it]
<1> DEFINE f == clients[cur][it]
           c == fdt[f]
<1>1. /\ InPass /\ f \in tmpread /\ f # Ghost /\ c \in Conns
  BY DEF RecvData, RecvNothing, InPass
<1>2. f \in Fds
  BY <1>1, ClientAtIt DEF Inv, InPass
<1>3. PICK n \in 1 .. Available(c) :
        IF f \in tmpwrite
        THEN Drive(f, SubSeq(Stream(request[c]), rcvd[c] + 1, rcvd[c] + n))
        ELSE NextClient(fdt) /\ UNCHANGED <<cl, out, unread>>
  BY DEF RecvData
<1> DEFINE seg == SubSeq(Stream(request[c]), rcvd[c] + 1, rcvd[c] + n)
<1>4. seg \in Seq(Units)
  <2>1. /\ rcvd[c] \in Nat /\ sent[c] \in Nat /\ n \in Nat /\ rcvd[c] + n <= sent[c]
        /\ sent[c] <= Len(Stream(request[c]))
    <3>1. /\ rcvd \in [Conns -> Nat] /\ sent \in [Conns -> Nat]
          /\ \A d \in Conns : rcvd[d] <= sent[d] /\ sent[d] <= Len(Stream(request[d]))
      BY DEF Inv, TypeInv, TypeOK
    <3> HIDE DEF c
    <3>2. n \in 1 .. sent[c] - rcvd[c]
      BY <1>3 DEF Available
    <3> QED
      BY <1>1, <3>1, <3>2
  <2> QED
    BY <2>1, StreamType, SMTT(30)
<1>5. CASE f \in tmpwrite
  <2>1. Drive(f, seg)
    BY <1>3, <1>5
  <2> HIDE DEF seg
  <2> QED
    BY <1>1, <1>2, <1>4, <2>1, InvDrive
<1>6. CASE f \notin tmpwrite
  BY <1>1, <1>3, <1>6, InvSkip
<1> QED
  BY <1>5, <1>6

\* Nothing to receive.
LEMMA InvWriteOnly ==
    ASSUME Inv, WriteOnly
    PROVE  /\ FilesInv' /\ SocketsInv'
           /\ \A g \in Fds : Closed(g) => g = clients[cur][it]
<1> DEFINE f == clients[cur][it]
<1>1. /\ InPass /\ f \in Fds \cup {Ghost}
      /\ IF f \in tmpwrite /\ readyforwrite[cur]
         THEN Drive(f, <<>>)
         ELSE NextClient(fdt) /\ UNCHANGED <<cl, out, unread>>
  BY ClientAtIt DEF WriteOnly, InPass, Inv
<1>2. CASE f \in tmpwrite /\ readyforwrite[cur]
  <2>1. f \in Fds
    BY <1>1, <1>2 DEF Inv, SocketsInv
  <2>2. <<>> \in Seq(Units) /\ Drive(f, <<>>)
    BY <1>1, <1>2
  <2> QED
    BY <1>1, <1>2, <2>1, <2>2, InvDrive
<1>3. CASE ~(f \in tmpwrite /\ readyforwrite[cur])
  BY <1>1, <1>3, InvSkip
<1> QED
  BY <1>2, <1>3

\* Every step keeps the invariant, unless it asks for such a POST.
LEMMA InvStep ==
    ASSUME Inv, [Next]_vars, NoCgiPost(request')
    PROVE  Inv'
<1>1. TypeInv'
  BY TypeStep DEF Inv
<1>2. CASE Peer \/ UNCHANGED vars
  BY <1>1, <1>2, InvPeers
<1>3. CASE Select \/ SelectFails
  BY <1>1, <1>3, InvSelect
<1>4. CASE Accept \/ AcceptFails \/ AcceptAborted
  BY <1>1, <1>4, InvAccept
<1>5. CASE RecvFails
  BY <1>1, <1>5, InvRecvFails DEF Inv, RecvFails, peerVars
<1>6. CASE RecvData
  BY <1>1, <1>6, InvRecvData DEF Inv, RecvData
<1>7. CASE WriteOnly
  BY <1>1, <1>7, InvWriteOnly DEF Inv, WriteOnly
<1>8. CASE EndPass
  BY <1>1, <1>8, InvEndPass
<1> QED
  BY <1>2, <1>3, <1>4, <1>5, <1>6, <1>7, <1>8 DEF Next, StartServer

(***************************************************************************)
(* A request does not change once it has been chosen: as long as no POST   *)
(* to a script has been asked for, none had been before, and the invariant *)
(* holds.                                                                  *)
(***************************************************************************)
LEMMA SomeCgiPostStays ==
    ASSUME TypeInv, [Next]_vars, NoCgiPost(request')
    PROVE  NoCgiPost(request)
<1>1. CASE UNCHANGED request
  BY <1>1 DEF NoCgiPost
<1>2. CASE \E c \in Conns, k \in Kinds :
             conn[c] = "new" /\ request' = [request EXCEPT ![c] = k]
  <2>1. PICK c \in Conns : conn[c] = "new" /\ \A d \in Conns \ {c} : request'[d] = request[d]
    BY <1>2 DEF TypeInv, TypeOK
  <2>2. request[c] # "cgipost"
    BY <2>1 DEF TypeInv
  <2> QED
    BY <2>1, <2>2 DEF NoCgiPost
<1> QED
  BY <1>1, <1>2
  DEF Next, StartServer, Select, SelectFails, StartPass, Accept, AcceptFails, AcceptAborted,
      RecvFails, RecvData, WriteOnly, EndPass, Peer, Connect, Send, PeerClose, PeerRead,
      peerVars, vars

CalmInv == TypeInv /\ (NoCgiPost(request) => Inv)

LEMMA CalmInit == Init => CalmInv
BY TypeInit, InvInit DEF CalmInv

LEMMA CalmStep == CalmInv /\ [Next]_vars => CalmInv'
<1> SUFFICES ASSUME CalmInv, [Next]_vars
             PROVE  CalmInv'
  OBVIOUS
<1>1. TypeInv'
  BY TypeStep DEF CalmInv
<1>2. ASSUME NoCgiPost(request')
      PROVE  Inv'
  BY <1>2, SomeCgiPostStays, InvStep DEF CalmInv
<1> QED
  BY <1>1, <1>2 DEF CalmInv, NoCgiPost

\* Where no peer may ask for such a POST the invariant always holds.
LEMMA InvAlways ==
    ASSUME "cgipost" \notin Kinds
    PROVE  Inv /\ [Next]_vars => Inv'
<1> SUFFICES ASSUME Inv, [Next]_vars
             PROVE  Inv'
  OBVIOUS
<1>1. request \in [Conns -> AllKinds] /\ \A d \in Conns : request[d] # "cgipost"
  BY DEF Inv, TypeInv, TypeOK, NoCgiPost
<1>2. CASE UNCHANGED request
  BY <1>1, <1>2, InvStep DEF NoCgiPost
<1>3. CASE \E c \in Conns, k \in Kinds : request' = [request EXCEPT ![c] = k]
  <2>1. NoCgiPost(request')
    BY <1>1, <1>3 DEF NoCgiPost
  <2> QED
    BY <2>1, InvStep
<1> QED
  BY <1>2, <1>3
  DEF Next, StartServer, Select, SelectFails, StartPass, Accept, AcceptFails, AcceptAborted,
      RecvFails, RecvData, WriteOnly, EndPass, Peer, Connect, Send, PeerClose, PeerRead,
      peerVars, vars

\* No step but a turn closes a connection.
LEMMA ClosedInTurn ==
    ASSUME TypeInv, [Next]_vars, NEW f \in Fds, Closed(f)
    PROVE  RecvFails \/ RecvData \/ WriteOnly
<1>1. fdt' # fdt /\ fdt[f] \in Conns /\ fdt'[f] # fdt[f]
  BY DEF Closed
<1>2. ~Accept
  <2> SUFFICES ASSUME Accept PROVE FALSE
    OBVIOUS
  <2>1. fdt' = Install(fdt, LowestFree(fdt), Head(backlog[cur])) /\ FreeFds(fdt) # {}
    BY DEF Accept
  <2>2. fdt[LowestFree(fdt)] = Free
    BY <2>1, LowestFreeIsFree DEF FreeFds, TypeInv, TypeOK, Tables
  <2>3. f # LowestFree(fdt)
    BY <1>1, <2>2, Distinct
  <2> HIDE DEF LowestFree
  <2>4. fdt'[f] = fdt[f]
    BY <2>1, <2>3 DEF Install
  <2> QED
    BY <1>1, <2>4
<1> QED
  BY <1>1, <1>2
  DEF Next, StartServer, Select, SelectFails, StartPass, AcceptFails, AcceptAborted,
      EndPass, Peer, Connect, Send, PeerClose, PeerRead, serverVars, vars

\* No step closes a connection that is not its turn.
LEMMA ClosedByOwnerStep ==
    ASSUME Inv, [Next]_vars, NEW f \in Fds, Closed(f)
    PROVE  f = clients[cur][it]
<1>1. RecvFails \/ RecvData \/ WriteOnly
  BY ClosedInTurn DEF Inv
<1> QED
  BY <1>1, InvRecvFails, InvRecvData, InvWriteOnly
-------------------------------------------------------------------------------
(***************************************************************************)
(* For any number of servers, clients and descriptors, as long as no POST  *)
(* goes to a CGI script, the lists, the select sets and the table of       *)
(* descriptors agree: every listed client is an open connection, listed    *)
(* once, and just these and the listening socket are watched.              *)
(***************************************************************************)
THEOREM ClientsStayOpen == Spec => [](NoCgiPost(request) => ClientsAreOpen)
<1>1. CalmInv => (NoCgiPost(request) => ClientsAreOpen)
  BY DEF CalmInv, Inv, SocketsInv
<1> QED
  BY <1>1, CalmInit, CalmStep, PTL DEF Spec

(***************************************************************************)
(* However often DeleteClient decrements maxfds, it never falls below the  *)
(* listening socket: no server goes deaf.                                  *)
(***************************************************************************)
THEOREM ListenersStayWatched == Spec => [](NoCgiPost(request) => ListenerWatched)
<1>1. CalmInv => (NoCgiPost(request) => ListenerWatched)
  BY DEF CalmInv, Inv, SocketsInv
<1> QED
  BY <1>1, CalmInit, CalmStep, PTL DEF Spec

(***************************************************************************)
(* The number an entry has for its file is that of an open file, and of no *)
(* other entry: what one response reads another cannot close.              *)
(***************************************************************************)
THEOREM FilesStayOwned == Spec => [](NoCgiPost(request) => FilesAreOwned)
<1>1. CalmInv => (NoCgiPost(request) => FilesAreOwned)
  BY DEF CalmInv, Inv, FilesInv
<1> QED
  BY <1>1, CalmInit, CalmStep, PTL DEF Spec

\* A connection is closed only in the turn of its own client.
THEOREM OnlyOwnerCloses ==
    ASSUME "cgipost" \notin Kinds
    PROVE  Spec => ClosedByOwner
<1>1. Inv /\ [Next]_vars => [\A f \in Fds : Closed(f) => f = clients[cur][it]]_vars
  BY ClosedByOwnerStep
<1>2. Inv /\ [Next]_vars => Inv'
  BY InvAlways
<1> QED
  BY <1>1, <1>2, InvInit, PTL DEF Spec, ClosedByOwner
-------------------------------------------------------------------------------
(***************************************************************************)
(* No descriptor leaks, whatever the peers ask for.  What NoLeak needs to  *)
(* be inductive: no entry opens a file while it has another.               *)
(***************************************************************************)
LeakInv ==
    /\ TypeInv
    /\ \A f \in Fds : cl[f] # NoEntry => EntryShape(cl[f][1])
    /\ NoLeak

\* In the initial states nothing is open but the listening sockets.
LEMMA LeakInit == Init => LeakInv
BY TypeInit, Distinct DEF Init, LeakInv, NoLeak, NoEntry

\* The steps that change neither the tables nor the lists.
LEMMA LeakFrame ==
    ASSUME LeakInv, UNCHANGED <<fdt, cl, clients>>, TypeInv'
    PROVE  LeakInv'
BY DEF LeakInv, NoLeak, FileOf, Listed

\* What is accepted is listed.
LEMMA LeakAccept ==
    ASSUME LeakInv, Accept \/ AcceptFails \/ AcceptAborted, TypeInv'
    PROVE  LeakInv'
<1>1. /\ cur \in Servers /\ clients \in [Servers -> Seq(Fds \cup {Ghost})]
      /\ backlog \in [Servers -> Seq(Conns)] /\ fdt \in Tables
  BY DEF LeakInv, TypeInv, TypeOK, Tables
<1>2. ASSUME NEW f \in Fds \cup {Ghost}, AddClient(cur, f)
      PROVE  /\ \A s \in Servers : Listed(s) \subseteq Listed(s)'
             /\ f # Ghost => f \in Listed(cur)'
  <2>1. clients' = [clients EXCEPT ![cur] =
                      IF f = Ghost /\ Cardinality(Ghosts(@)) = MaxGhosts THEN @
                      ELSE Append(@, f)]
    BY <1>2 DEF AddClient
  <2> DEFINE l == clients[cur]
  <2>2. l \in Seq(Fds \cup {Ghost})
    BY <1>1
  <2>3. /\ DOMAIN l \subseteq DOMAIN Append(l, f)
        /\ \A i \in DOMAIN l : Append(l, f)[i] = l[i]
        /\ Len(l) + 1 \in DOMAIN Append(l, f) /\ Append(l, f)[Len(l) + 1] = f
    <3> HIDE DEF l
    <3> QED
      BY <2>2, AppendProperties
  <2>4. \A s \in Servers : clients'[s] =
           IF s = cur /\ ~(f = Ghost /\ Cardinality(Ghosts(l)) = MaxGhosts)
           THEN Append(l, f) ELSE clients[s]
    BY <1>1, <2>1
  <2> HIDE DEF l
  <2>5. \A s \in Servers : Listed(s) \subseteq Listed(s)'
    <3> SUFFICES ASSUME NEW s \in Servers, NEW g \in Listed(s)
                 PROVE  g \in Listed(s)'
      OBVIOUS
    <3>1. CASE clients'[s] = clients[s]
      BY <3>1 DEF Listed
    <3>2. CASE s = cur /\ clients'[s] = Append(l, f)
      BY <2>3, <3>2 DEF Listed, l
    <3> QED
      BY <2>4, <3>1, <3>2
  <2>6. ASSUME f # Ghost
        PROVE  f \in Listed(cur)'
    <3>1. clients'[cur] = Append(l, f) /\ cur' = cur
      BY <1>1, <1>2, <2>4, <2>6 DEF AddClient
    <3> QED
      BY <2>3, <3>1 DEF Listed
  <2> QED
    BY <2>5, <2>6
<1>3. UNCHANGED cl
  BY DEF Accept, AcceptFails, AcceptAborted, AddClient
<1>4. CASE AcceptFails \/ AcceptAborted
  <2>1. AddClient(cur, Ghost) /\ fdt' = fdt
    BY <1>4 DEF AcceptFails, AcceptAborted
  <2>2. \A s \in Servers : Listed(s) \subseteq Listed(s)'
    BY <1>2, <2>1
  <2> QED
    BY <1>3, <2>1, <2>2 DEF LeakInv, NoLeak, FileOf
<1>5. CASE Accept
  <2> DEFINE c == Head(backlog[cur])
             f == LowestFree(fdt)
  <2>1. fdt' = Install(fdt, f, c) /\ AddClient(cur, f) /\ backlog[cur] # <<>>
        /\ FreeFds(fdt) # {}
    BY <1>5 DEF Accept
  <2>2. c \in Conns
    <3>1. backlog[cur] \in Seq(Conns)
      BY <1>1
    <3> QED
      BY <2>1, <3>1
  <2>3. f \in Fds /\ f # Ghost
    BY <1>1, <2>1, LowestFreeIsFree, Distinct DEF FreeFds, Ghost
  <2> HIDE DEF c, f
  <2>4. \A g \in Fds : fdt'[g] = IF g = f THEN c ELSE fdt[g]
    BY <2>1 DEF Install
  <2>5. (\A s \in Servers : Listed(s) \subseteq Listed(s)') /\ f \in Listed(cur)'
    BY <1>2, <2>1, <2>3
  <2>6. \A g \in Fds : fdt'[g] \in Conns => \E s \in Servers : g \in Listed(s)'
    <3>1. \A g \in Fds : fdt[g] \in Conns => \E s \in Servers : g \in Listed(s)
      BY DEF LeakInv, NoLeak
    <3>2. cur' = cur
      BY <2>1 DEF AddClient
    <3>3. f \in Listed(cur)'
      BY <2>5
    <3> QED
      BY <1>1, <2>4, <2>5, <3>1, <3>2, <3>3
  <2>7. \A g \in Fds : fdt'[g] = File => \E h \in Fds : FileOf(h)' = g
    BY <1>3, <2>2, <2>4, Distinct DEF LeakInv, NoLeak, FileOf
  <2> QED
    BY <1>3, <2>6, <2>7 DEF LeakInv, NoLeak
<1> QED
  BY <1>4, <1>5

(***************************************************************************)
(* The turn of a client, of which a call of the driver has left the table  *)
(* t: what is open in t and not deleted stays listed.                      *)
(***************************************************************************)
LEMMA StillListed ==
    ASSUME LeakInv, AtClient, NEW t \in Tables, DeleteClient(t) \/ NextClient(t),
           \A g \in Fds : t[g] \in Conns => t[g] = fdt[g]
    PROVE  /\ \A g \in Fds : fdt'[g] \in Conns => \E s \in Servers : g \in Listed(s)'
           /\ \A g \in Fds : fdt'[g] = File => t[g] = File
<1>1. /\ cur \in Servers /\ clients \in [Servers -> Seq(Fds \cup {Ghost})]
      /\ it \in 1 .. Len(clients[cur])
      /\ \A g \in Fds : fdt[g] \in Conns => \E s \in Servers : g \in Listed(s)
  <2>1. /\ cur \in Servers /\ clients \in [Servers -> Seq(Fds \cup {Ghost})]
        /\ it \in Nat \ {0} /\ NoLeak /\ it <= Len(clients[cur])
    BY DEF LeakInv, TypeInv, TypeOK, AtClient
  <2>2. Len(clients[cur]) \in Nat
    BY <2>1
  <2> QED
    BY <2>1, <2>2 DEF NoLeak
<1>2. CASE NextClient(t)
  BY <1>1, <1>2 DEF NextClient, listVars, Listed
<1>3. CASE DeleteClient(t)
  <2> DEFINE l == clients[cur]
  <2>1. l \in Seq(Fds \cup {Ghost})
    BY <1>1
  <2>2. /\ clients' = [clients EXCEPT ![cur] = RemoveAt(l, it)]
        /\ \A g \in Fds : fdt'[g] = IF g = l[it] THEN Free ELSE t[g]
    BY <1>3 DEF DeleteClient, CloseClient, Close
  <2>3. ASSUME NEW g \in Fds, fdt'[g] \in Conns, NEW s \in Servers, g \in Listed(s)
        PROVE  g \in Listed(s)'
    <3>1. g # l[it]
      BY <2>2, <2>3, Distinct
    <3>2. CASE s # cur
      BY <1>1, <2>2, <2>3, <3>2 DEF Listed
    <3>3. CASE s = cur
      <4> HIDE DEF l
      <4>1. PICK i \in 1 .. Len(l) : l[i] = g
        BY <2>1, <2>3, <3>3 DEF Listed, l
      <4>2. i # it
        BY <3>1, <4>1
      <4>3. it \in 1 .. Len(l) /\ Len(l) \in Nat /\ i \in Nat /\ it \in Nat
        BY <1>1, <2>1, <4>1 DEF l
      <4>4. /\ Len(RemoveAt(l, it)) = Len(l) - 1
            /\ \A j \in 1 .. Len(l) - 1 :
                  RemoveAt(l, it)[j] = IF j < it THEN l[j] ELSE l[j + 1]
        BY <2>1, <4>3, RemoveAtElements
      <4>5. \E j \in 1 .. Len(l) - 1 : RemoveAt(l, it)[j] = g
        <5>1. CASE i < it
          <6>1. i \in 1 .. Len(l) - 1
            BY <4>1, <4>3, <5>1
          <6> QED
            BY <4>1, <4>4, <5>1, <6>1
        <5>2. CASE i > it
          <6>1. i - 1 \in 1 .. Len(l) - 1 /\ ~(i - 1 < it) /\ (i - 1) + 1 = i
            BY <4>1, <4>3, <5>2
          <6> QED
            BY <4>1, <4>4, <6>1
        <5> QED
          BY <4>2, <4>3, <5>1, <5>2
      <4>6. clients'[s] = RemoveAt(l, it)
        BY <1>1, <2>2, <3>3
      <4>7. RemoveAt(l, it) \in Seq(Fds \cup {Ghost})
        BY <2>1, <4>3, RemoveAtType
      <4>8. DOMAIN clients'[s] = 1 .. Len(l) - 1
        BY <4>4, <4>6, <4>7
      <4> QED
        BY <4>5, <4>6, <4>8 DEF Listed
    <3> QED
      BY <3>2, <3>3
  <2>4. \A g \in Fds : fdt'[g] \in Conns => fdt[g] \in Conns
    BY <2>2, Distinct
  <2> HIDE DEF l
  <2> QED
    BY <1>1, <2>2, <2>3, <2>4, Distinct
<1> QED
  BY <1>2, <1>3

(***************************************************************************)
(* A call of the driver loses no file, and closes no connection but its    *)
(* own and those whose number its entry has.                               *)
(***************************************************************************)
LEMMA LeakDrive ==
    ASSUME LeakInv, AtClient, NEW f \in Fds, f = clients[cur][it],
           NEW seg \in Seq(Units), seg # <<>> => fdt[f] \in Conns,
           Drive(f, seg), TypeInv'
    PROVE  /\ LeakInv'
           /\ \A g \in Fds : Closed(g) =>
                 g = f \/ (cl[f] # NoEntry /\ g \in cl[f][1].held \cup {cl[f][1].file})
<1> DEFINE gone == fdt[f] \notin Conns \/ (fdt[f] \in Conns /\ fin[fdt[f]])
           e == EntryAt(f)
<1>1. PICK o \in DriverOutcomes(fdt, e, fdt[f], gone, request, seg) :
        /\ cl' = [cl EXCEPT ![f] = o.entry]
        /\ Deliver(fdt[f], o.msg)
        /\ IF o.ret = 0 THEN DeleteClient(o.fdt) ELSE NextClient(o.fdt)
  BY DriveParts
<1>2. /\ TypeOK /\ fdt \in Tables /\ NoLeak
      /\ request \in [Conns -> AllKinds] /\ cl \in [Fds -> Seq(Entry)]
  BY DEF LeakInv, TypeInv, TypeOK, Tables
<1>3. gone \in BOOLEAN
  OBVIOUS
<1>4. e \in Entry /\ EntryShape(e) /\ FileOf(f) = e.file
  <2>1. e \in Entry /\ FileOf(f) = e.file
    BY <1>2, EntryAtType, FileOfEntry
  <2>2. EntryShape(e)
    BY <1>2 DEF EntryAt, LeakInv, NewEntry, EntryShape, GetKinds, PostKinds
  <2> QED
    BY <2>1, <2>2
<1> HIDE DEF gone
<1>5. Closes(fdt, e, o) /\ o \in Outcomes
  <2> HIDE DEF e
  <2> QED
    BY <1>1, <1>2, <1>3, <1>4, DriverCloses, DriverOutcomesType
<1> DEFINE t == o.fdt
<1>6. t \in Tables /\ \A g \in Fds : t[g] \in Conns => t[g] = fdt[g]
  BY <1>5 DEF Closes, Outcomes
<1>7. DeleteClient(t) \/ NextClient(t)
  BY <1>1
<1>8. /\ \A g \in Fds : fdt'[g] \in Conns => \E s \in Servers : g \in Listed(s)'
      /\ \A g \in Fds : fdt'[g] = File => t[g] = File
  <2> HIDE DEF t
  <2> QED
    BY <1>6, <1>7, StillListed
<1>9. \A g \in Fds : FileOf(g)' = IF g = f THEN IF o.entry = NoEntry THEN NoFd
                                             ELSE o.entry[1].file
                                 ELSE FileOf(g)
  BY <1>1, <1>2 DEF FileOf
<1>10. ASSUME NEW g \in Fds, fdt'[g] = File
       PROVE  \E h \in Fds : FileOf(h)' = g
  <2>1. \/ fdt[g] = File /\ g # e.file
        \/ o.entry # NoEntry /\ o.entry[1].file = g
    BY <1>5, <1>8, <1>10 DEF Closes
  <2>2. fdt[g] = File => \E h \in Fds : FileOf(h) = g
    BY <1>2 DEF NoLeak
  <2> HIDE DEF e
  <2> QED
    BY <1>4, <1>9, <2>1, <2>2
<1>11. \A g \in Fds : cl'[g] # NoEntry => EntryShape(cl'[g][1])
  BY <1>1, <1>2, <1>5 DEF LeakInv, Closes
<1>12. LeakInv'
  BY <1>8, <1>10, <1>11 DEF LeakInv, NoLeak
<1>13. ASSUME NEW g \in Fds, Closed(g), g # f
       PROVE  cl[f] # NoEntry /\ g \in cl[f][1].held \cup {cl[f][1].file}
  <2>1. fdt[g] \in Conns /\ t[g] # fdt[g]
    BY <1>7, <1>13 DEF Closed, DeleteClient, CloseClient, Close, NextClient
  <2>2. g \in e.held \cup {e.file}
    BY <1>5, <2>1 DEF Closes
  <2>3. cl[f] # NoEntry
    BY <2>2, Distinct DEF EntryAt, NewEntry
  <2> QED
    BY <2>2, <2>3 DEF EntryAt
<1> QED
  BY <1>12, <1>13

\* The steps that take a client's turn.
LEMMA LeakTurn ==
    ASSUME LeakInv, RecvFails \/ RecvData \/ WriteOnly, TypeInv'
    PROVE  /\ LeakInv'
           /\ \A g \in Fds : Closed(g) =>
                 LET f == clients[cur][it]
                 IN  \/ g = f
                     \/ /\ f \in Fds /\ cl[f] # NoEntry
                        /\ g \in cl[f][1].held \cup {cl[f][1].file}
<1> DEFINE f == clients[cur][it]
<1>1. AtClient /\ f \in Fds \cup {Ghost} /\ fdt \in Tables
  <2>1. AtClient
    BY DEF RecvFails, RecvData, WriteOnly
  <2> QED
    BY <2>1, ClientAtIt DEF LeakInv, TypeInv, TypeOK, Tables
<1>2. CASE RecvFails
  <2>1. DeleteClient(fdt) /\ UNCHANGED cl
    BY <1>2 DEF RecvFails
  <2>2. /\ \A g \in Fds : fdt'[g] \in Conns => \E s \in Servers : g \in Listed(s)'
        /\ \A g \in Fds : fdt'[g] = File => fdt[g] = File
    BY <1>1, <2>1, StillListed
  <2>3. LeakInv'
    BY <2>1, <2>2 DEF LeakInv, NoLeak, FileOf
  <2> QED
    BY <2>1, <2>3 DEF Closed, DeleteClient, CloseClient, Close
<1>3. ASSUME NextClient(fdt), UNCHANGED cl
      PROVE  LeakInv' /\ \A g \in Fds : ~Closed(g)
  BY <1>3, LeakFrame DEF NextClient, listVars, Closed
<1>4. CASE RecvData
  <2> DEFINE c == fdt[f]
  <2>1. f \in Fds /\ c \in Conns
    BY <1>1, <1>4 DEF RecvData, RecvNothing
  <2>2. PICK n \in 1 .. Available(c) :
          IF f \in tmpwrite
          THEN Drive(f, SubSeq(Stream(request[c]), rcvd[c] + 1, rcvd[c] + n))
          ELSE NextClient(fdt) /\ UNCHANGED <<cl, out, unread>>
    BY <1>4 DEF RecvData
  <2> DEFINE seg == SubSeq(Stream(request[c]), rcvd[c] + 1, rcvd[c] + n)
  <2>3. seg \in Seq(Units)
    <3>1. /\ rcvd[c] \in Nat /\ sent[c] \in Nat /\ n \in Nat /\ rcvd[c] + n <= sent[c]
          /\ sent[c] <= Len(Stream(request[c]))
      <4>1. /\ rcvd \in [Conns -> Nat] /\ sent \in [Conns -> Nat]
            /\ \A d \in Conns : rcvd[d] <= sent[d] /\ sent[d] <= Len(Stream(request[d]))
        BY DEF LeakInv, TypeInv, TypeOK
      <4> HIDE DEF c
      <4>2. n \in 1 .. sent[c] - rcvd[c]
        BY <2>2 DEF Available
      <4> QED
        BY <2>1, <4>1, <4>2
    <3>2. request[c] \in AllKinds
      BY <2>1 DEF LeakInv, TypeInv, TypeOK
    <3> QED
      BY <3>1, <3>2, StreamType, SMTT(30)
  <2>4. CASE f \in tmpwrite
    <3>1. Drive(f, seg)
      BY <2>2, <2>4
    <3> HIDE DEF seg
    <3> QED
      BY <1>1, <2>1, <2>3, <3>1, LeakDrive
  <2>5. CASE f \notin tmpwrite
    BY <1>3, <2>2, <2>5
  <2> QED
    BY <2>4, <2>5
<1>5. CASE WriteOnly
  <2>1. /\ f \notin tmpread
        /\ IF f \in tmpwrite /\ readyforwrite[cur]
           THEN Drive(f, <<>>)
           ELSE NextClient(fdt) /\ UNCHANGED <<cl, out, unread>>
    BY <1>5 DEF WriteOnly
  <2>2. CASE f \in tmpwrite /\ readyforwrite[cur]
    <3>1. f \in Fds
      BY <1>1, <2>1, <2>2 DEF LeakInv, TypeInv
    <3>2. <<>> \in Seq(Units) /\ Drive(f, <<>>)
      BY <2>1, <2>2
    <3> QED
      BY <1>1, <3>1, <3>2, LeakDrive
  <2>3. CASE ~(f \in tmpwrite /\ readyforwrite[cur])
    BY <1>3, <2>1, <2>3
  <2> QED
    BY <2>2, <2>3
<1> QED
  BY <1>2, <1>4, <1>5

\* Every step keeps the invariant.
LEMMA LeakStep == LeakInv /\ [Next]_vars => LeakInv'
<1> SUFFICES ASSUME LeakInv, [Next]_vars
             PROVE  LeakInv'
  OBVIOUS
<1>1. TypeInv'
  BY TypeStep DEF LeakInv
<1>2. CASE Accept \/ AcceptFails \/ AcceptAborted
  BY <1>1, <1>2, LeakAccept
<1>3. CASE RecvFails \/ RecvData \/ WriteOnly
  BY <1>1, <1>3, LeakTurn
<1>4. CASE UNCHANGED <<fdt, cl, clients>>
  BY <1>1, <1>4, LeakFrame
<1> QED
  BY <1>2, <1>3, <1>4
  DEF Next, StartServer, Select, SelectFails, StartPass, EndPass, Peer, Connect, Send,
      PeerClose, PeerRead, serverVars, listVars, vars

(***************************************************************************)
(* No descriptor leaks, whatever the peers ask for and in whatever order   *)
(* they go: the descriptor of a file is the one of an entry of the map,    *)
(* and an open connection is in the list of a server.                      *)
(***************************************************************************)
THEOREM NothingLeaks == Spec => []NoLeak
<1>1. LeakInv => NoLeak
  BY DEF LeakInv
<1> QED
  BY <1>1, LeakInit, LeakStep, PTL DEF Spec

(***************************************************************************)
(* Whatever the peers ask for, a connection is closed only in the turn of  *)
(* its own client, or, once somebody has sent a POST to a script, by what  *)
(* the entry of the client whose turn it is holds.                         *)
(***************************************************************************)
THEOREM OnlyEntriesClose == Spec => ClosedByOwnerOrCgi
<1> DEFINE A == \A f \in Fds : Closed(f) =>
                  LET g == clients[cur][it]
                  IN  \/ f = g
                      \/ /\ \E c \in Conns : request[c] = "cgipost"
                         /\ g \in Fds /\ cl[g] # NoEntry
                         /\ f \in cl[g][1].held \cup {cl[g][1].file}
<1>1. LeakInv /\ CalmInv /\ [Next]_vars => [A]_vars
  <2> SUFFICES ASSUME LeakInv, CalmInv, [Next]_vars, NEW f \in Fds, Closed(f)
               PROVE  LET g == clients[cur][it]
                      IN  \/ f = g
                          \/ /\ \E c \in Conns : request[c] = "cgipost"
                             /\ g \in Fds /\ cl[g] # NoEntry
                             /\ f \in cl[g][1].held \cup {cl[g][1].file}
    OBVIOUS
  <2>1. CASE NoCgiPost(request)
    BY <2>1, ClosedByOwnerStep DEF CalmInv
  <2>2. CASE ~NoCgiPost(request)
    <3>1. RecvFails \/ RecvData \/ WriteOnly
      BY ClosedInTurn DEF LeakInv
    <3>2. TypeInv'
      BY TypeStep DEF LeakInv
    <3> QED
      BY <2>2, <3>1, <3>2, LeakTurn DEF NoCgiPost
  <2> QED
    BY <2>1, <2>2
<1> QED
  BY <1>1, LeakInit, LeakStep, CalmInit, CalmStep, PTL DEF Spec, ClosedByOwnerOrCgi
===============================================================================
