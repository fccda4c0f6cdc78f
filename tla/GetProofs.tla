------------------------------- MODULE GetProofs -------------------------------
(***************************************************************************)
(* Proofs about GET, for any number of clients, any locations, files,      *)
(* lists and pages of any length, and any size of a block.                 *)
(***************************************************************************)
EXTENDS Get, TextProofs, FiniteSetTheorems, FunctionTheorems

Texts == Seq(Characters)
Streams(ls) == [list : 0 .. Len(ls), name : {<<>>} \cup DOMAIN Disk, at : Nat]

\* The shared file, and who has written to it.
FilesOK ==
    /\ test3 \in [Clients -> BOOLEAN] /\ joined \subseteq Clients
    /\ lists \in Seq(Texts) /\ listing \in 0 .. Len(lists)

-------------------------------------------------------------------------------
\* What get_method may do with a path.
LEMMA ResolveType == \A locs, p : Resolve(locs, p).does \in Actions
  BY DEF Resolve, Directory, SendOrRun, Does, Actions

\* A stream reads characters.
LEMMA BodyType ==
    ASSUME NEW ls \in Seq(Texts), NEW s \in Streams(ls)
    PROVE  Body(s, ls) \in Texts
<1>1. CASE s.list # 0
  <2>1. s.list \in 1 .. Len(ls)
    BY <1>1, LenProperties DEF Streams
  <2>2. ls[s.list] \in Texts
    BY <2>1, ElementOfSeq
  <2> QED
    BY <1>1, <2>2 DEF Body
<1>2. CASE s.list = 0 /\ s.name = <<>>
  BY <1>2, EmptySeq DEF Body, Texts
<1>3. CASE s.list = 0 /\ s.name # <<>>
  BY <1>3, GetAssumption DEF Body, Streams, Texts
<1> QED
  BY <1>1, <1>2, <1>3

\* A block of a file, or what is left of it.
LEMMA GCountType ==
    ASSUME NEW S, NEW b \in Seq(S), NEW k \in Nat
    PROVE  /\ GCount(b, k) \in Seq(S)
           /\ k + Block <= Len(b) => GCount(b, k) = SubSeq(b, k + 1, k + Block)
           /\ k + Block > Len(b) => GCount(b, k) = SubSeq(b, k + 1, Len(b))
<1> DEFINE m == Min({k + Block, Len(b)})
<1>1. k + Block \in Nat /\ Len(b) \in Nat /\ Block \in Nat
  BY GetAssumption, LenProperties
<1>2. m \in {k + Block, Len(b)} /\ \A y \in {k + Block, Len(b)} : m <= y
  BY <1>1, MinNat
<1> HIDE DEF m
<1>3. /\ m \in Nat /\ m <= Len(b)
      /\ k + Block <= Len(b) => m = k + Block
      /\ k + Block > Len(b) => m = Len(b)
  BY <1>1, <1>2
<1>4. \A i \in k + 1 .. m : b[i] \in S
  <2> SUFFICES ASSUME NEW i \in k + 1 .. m PROVE b[i] \in S
    OBVIOUS
  <2>1. i \in 1 .. Len(b)
    BY <1>1, <1>3
  <2> QED
    BY <2>1, ElementOfSeq
<1>5. SubSeq(b, k + 1, m) \in Seq(S)
  <2>1. k + 1 \in Int /\ m \in Int
    BY <1>3
  <2> QED
    BY <1>4, <2>1, SubSeqProperties
<1> QED
  BY <1>3, <1>5 DEF GCount, m

\* What a send takes of a text.
LEMMA SentType ==
    ASSUME NEW S, NEW b \in Seq(S), NEW how \in Sends, NEW piece \in SentOf(how, b)
    PROVE  piece \in Seq(S)
<1>1. CASE how = "whole"
  BY <1>1 DEF SentOf
<1>2. CASE how = "short"
  <2>1. PICK n \in 0 .. Len(b) - 1 : piece = Take(b, n)
    BY <1>2 DEF SentOf
  <2>2. n \in 0 .. Len(b)
    BY LenProperties
  <2> QED
    BY <2>1, <2>2, TakeType
<1>3. CASE how = "fails"
  BY <1>3, EmptySeq DEF SentOf
<1> QED
  BY <1>1, <1>2, <1>3 DEF Sends
-------------------------------------------------------------------------------
\* TypeOK, put together from its parts.
LEMMA TypeParts ==
    TypeOK <=>
        /\ page \in Nat /\ DOMAIN target = Clients /\ \A c \in Clients : target[c].does \in Actions
        /\ conn \in [Clients -> {"open", "closed", "left"}] /\ answer \in [Clients -> Statuses]
        /\ test2 \in [Clients -> BOOLEAN] /\ stream \in [Clients -> Streams(lists)]
        /\ announced \in [Clients -> Nat] /\ sent \in [Clients -> Texts]
        /\ lost \subseteq Clients /\ FilesOK
BY DEF TypeOK, FilesOK, Streams, Texts

\* TypeOK after a step that leaves the scenario alone.
LEMMA TypeAfter ==
    ASSUME TypeOK, UNCHANGED config, FilesOK', stream' \in [Clients -> Streams(lists')],
           conn' \in [Clients -> {"open", "closed", "left"}], answer' \in [Clients -> Statuses],
           test2' \in [Clients -> BOOLEAN], announced' \in [Clients -> Nat],
           sent' \in [Clients -> Texts], lost' \subseteq Clients
    PROVE  TypeOK'
BY DEF TypeOK, FilesOK, Streams, Texts, config

\* More lists: a stream stays what it was.
LEMMA StreamsGrow ==
    ASSUME TypeOK, FilesOK', Len(lists) <= Len(lists')
    PROVE  Streams(lists) \subseteq Streams(lists') /\ Closed \in Streams(lists')
<1>1. 0 .. Len(lists) \subseteq 0 .. Len(lists') /\ 0 \in 0 .. Len(lists')
  <2>1. Len(lists) \in Nat /\ Len(lists') \in Nat
    BY LenProperties DEF TypeOK, FilesOK
  <2> QED
    BY <2>1
<1> QED
  BY <1>1 DEF Streams, Closed

\* An answer without a file.
LEMMA RefuseType ==
    ASSUME TypeOK, NEW c \in Clients, NEW status \in Statuses, Refuse(c, status),
           UNCHANGED config, FilesOK', Len(lists) <= Len(lists')
    PROVE  TypeOK'
<1>1. /\ answer' \in [Clients -> Statuses] /\ conn' \in [Clients -> {"open", "closed", "left"}]
      /\ stream' \in [Clients -> Streams(lists')]
  BY TypeParts, StreamsGrow DEF Refuse
<1> QED
  BY <1>1, TypeParts, TypeAfter DEF Refuse

\* The head, with the page for 200 where there is one.
LEMMA SendHeadType ==
    ASSUME TypeOK, NEW c \in Clients, FilesOK', Len(lists) <= Len(lists'),
           NEW s \in Streams(lists'), SendHead(c, s, lists'), UNCHANGED config
    PROVE  TypeOK'
<1> DEFINE body == IF page > 0 THEN announced[c] + page ELSE 0
<1>1. body \in Nat /\ page \in Nat
  BY TypeParts
<1>2. Len(Body(s, lists')) \in Nat
  BY BodyType, LenProperties DEF FilesOK, Texts
<1> DEFINE Given(how, piece) ==
          /\ body <= MaxPages
          /\ how = "whole" => piece = Pages(body)
          /\ Lose(c, how)
          /\ announced' = [announced EXCEPT ![c] = IF page > 0 THEN body ELSE Len(Body(s, lists'))]
          /\ UNCHANGED conn
          /\ IF how = "fails"
             THEN /\ stream' = [stream EXCEPT ![c] = Closed]
                  /\ UNCHANGED <<answer, test2, sent>>
             ELSE /\ stream' = [stream EXCEPT ![c] = s]
                  /\ answer' = [answer EXCEPT ![c] = "200"]
                  /\ test2' = [test2 EXCEPT ![c] = TRUE]
                  /\ sent' = [sent EXCEPT ![c] = piece]
<1>3. PICK how \in Sends : \E piece \in SentOf(how, Pages(body)) \cup {<<>>} : Given(how, piece)
  BY DEF SendHead
<1>4. PICK piece \in SentOf(how, Pages(body)) \cup {<<>>} : Given(how, piece)
  BY <1>3
<1> HIDE DEF body
<1>5. piece \in Texts
  <2>1. Pages(body) \in Texts
    BY <1>1, <1>4, GetAssumption DEF Texts
  <2> QED
    BY <1>4, <2>1, SentType, EmptySeq DEF Texts
<1>6. announced' \in [Clients -> Nat]
  BY <1>1, <1>2, <1>4, TypeParts
<1>7. stream' \in [Clients -> Streams(lists')]
  BY <1>4, TypeParts, StreamsGrow
<1>8. answer' \in [Clients -> Statuses]
  <2>1. answer' = answer \/ answer' = [answer EXCEPT ![c] = "200"]
    BY <1>4
  <2>2. answer \in [Clients -> Statuses] /\ "200" \in Statuses
    BY TypeParts DEF Statuses
  <2> QED
    BY <2>1, <2>2
<1>9. test2' \in [Clients -> BOOLEAN]
  <2>1. test2' = test2 \/ test2' = [test2 EXCEPT ![c] = TRUE]
    BY <1>4
  <2> QED
    BY <2>1, TypeParts
<1>10. sent' \in [Clients -> Texts]
  <2>1. sent' = sent \/ sent' = [sent EXCEPT ![c] = piece]
    BY <1>4
  <2> QED
    BY <1>5, <2>1, TypeParts
<1>11. lost' \subseteq Clients
  BY <1>4, TypeParts DEF Lose
<1> QED
  BY <1>4, <1>6, <1>7, <1>8, <1>9, <1>10, <1>11, TypeParts, TypeAfter

\* A block.
LEMMA NextBlockType ==
    ASSUME TypeOK, NEW c \in Clients, NextBlock(c), UNCHANGED <<config, test3, lists, joined>>
    PROVE  TypeOK'
<1> DEFINE b == Body(stream[c], lists)
           isList == target[c].does = "list"
<1>1. stream[c] \in Streams(lists) /\ stream[c].at \in Nat /\ sent[c] \in Texts
      /\ lists \in Seq(Texts)
  BY TypeParts DEF Streams, FilesOK
<1>2. b \in Texts
  BY <1>1, BodyType
<1> DEFINE Given(how, piece) ==
          /\ Lose(c, how)
          /\ sent' = [sent EXCEPT ![c] = @ \o piece]
          /\ IF how # "fails" /\ Eof(b, stream[c].at)
             THEN /\ conn' = [conn EXCEPT ![c] = "closed"]
                  /\ stream' = [stream EXCEPT ![c] = Closed]
                  /\ listing' = IF isList THEN Removed(c) ELSE listing
             ELSE /\ stream' = IF how = "fails" THEN [stream EXCEPT ![c] = Closed]
                               ELSE [stream EXCEPT ![c].at = @ + Block]
                  /\ UNCHANGED <<conn, listing>>
          /\ UNCHANGED <<answer, test2, announced>>
<1>3. PICK how \in Sends : \E piece \in SentOf(how, GCount(b, stream[c].at)) : Given(how, piece)
  BY DEF NextBlock
<1>4. PICK piece \in SentOf(how, GCount(b, stream[c].at)) : Given(how, piece)
  BY <1>3
<1> HIDE DEF b
<1>5. sent[c] \o piece \in Texts
  BY <1>1, <1>2, GCountType, SentType, ConcatProperties DEF Texts
<1>6. sent' \in [Clients -> Texts]
  BY <1>4, <1>5, TypeParts
<1>7. FilesOK'
  BY <1>4, TypeParts, LenProperties DEF FilesOK, Removed
<1>8. Closed \in Streams(lists) /\ [stream[c] EXCEPT !.at = @ + Block] \in Streams(lists)
  <2>1. 0 \in 0 .. Len(lists) /\ stream[c].at + Block \in Nat
    BY <1>1, GetAssumption, LenProperties
  <2> QED
    BY <1>1, <2>1 DEF Closed, Streams
<1>9. stream' \in [Clients -> Streams(lists')]
  BY <1>4, <1>8, TypeParts
<1>10. conn' \in [Clients -> {"open", "closed", "left"}] /\ lost' \subseteq Clients
  BY <1>4, TypeParts DEF Lose
<1> QED
  BY <1>4, <1>6, <1>7, <1>9, <1>10, TypeParts, TypeAfter

\* A list is written to the shared file.
LEMMA WriteListType ==
    ASSUME TypeOK, NEW c \in Clients, WriteList(c)
    PROVE  FilesOK' /\ Len(lists) <= Len(lists')
<1>1. ListOf(c) \in Texts /\ lists \in Seq(Texts) /\ listing \in 0 .. Len(lists)
      /\ Len(lists) \in Nat /\ joined \subseteq Clients
  BY GetAssumption, LenProperties, TypeParts DEF Texts, FilesOK
<1>2. test3' \in [Clients -> BOOLEAN]
  BY TypeParts DEF WriteList, FilesOK
<1>3. CASE test3[c]
  BY <1>1, <1>2, <1>3 DEF WriteList, files, FilesOK
<1>4. CASE ~test3[c] /\ listing = 0
  <2>1. lists' = Append(lists, ListOf(c)) /\ listing' = Len(lists') /\ joined' = joined
    BY <1>4 DEF WriteList
  <2>2. lists' \in Seq(Texts) /\ Len(lists') = Len(lists) + 1
    BY <1>1, <2>1, AppendProperties
  <2> QED
    BY <1>1, <1>2, <2>1, <2>2 DEF FilesOK
<1>5. CASE ~test3[c] /\ listing # 0
  <2>1. /\ lists' = [lists EXCEPT ![listing] = @ \o ListOf(c)] /\ listing' = listing
        /\ joined' = joined \cup {c} \cup {d \in Clients : stream[d].list = listing}
    BY <1>5 DEF WriteList, Appended
  <2>2. listing \in 1 .. Len(lists)
    BY <1>1, <1>5
  <2>3. lists[listing] \o ListOf(c) \in Texts
    BY <1>1, <2>2, ElementOfSeq, ConcatProperties DEF Texts
  <2>4. lists' \in Seq(Texts) /\ Len(lists') = Len(lists)
    BY <1>1, <2>1, <2>2, <2>3, ExceptSeq
  <2> QED
    BY <1>1, <1>2, <2>1, <2>4 DEF FilesOK
<1> QED
  BY <1>3, <1>4, <1>5

\* There is no list: at most an empty file.
LEMMA ListFailsType ==
    ASSUME TypeOK, NEW c \in Clients, ListFails(c)
    PROVE  FilesOK' /\ Len(lists) <= Len(lists') /\ lost' \subseteq Clients
<1>1. /\ test3 \in [Clients -> BOOLEAN] /\ joined \subseteq Clients /\ lost \subseteq Clients
      /\ lists \in Seq(Texts) /\ listing \in 0 .. Len(lists) /\ Len(lists) \in Nat
  BY TypeParts, LenProperties DEF FilesOK
<1>2. test3' \in [Clients -> BOOLEAN] /\ joined' = joined /\ lost' \subseteq Clients
  BY <1>1 DEF ListFails
<1>3. CASE lists' = lists /\ listing' = listing
  BY <1>1, <1>2, <1>3 DEF FilesOK
<1>4. CASE lists' = Append(lists, <<>>) /\ listing' = Len(lists')
  <2>1. <<>> \in Texts
    BY EmptySeq DEF Texts
  <2>2. lists' \in Seq(Texts) /\ Len(lists') = Len(lists) + 1
    BY <1>1, <1>4, <2>1, AppendProperties
  <2> QED
    BY <1>1, <1>2, <1>4, <2>2 DEF FilesOK
<1> QED
  BY <1>3, <1>4 DEF ListFails
-------------------------------------------------------------------------------
\* The ways a call of get_method may go.
LEMMA GetForms ==
    ASSUME NEW c \in Clients, GetMethod(c)
    PROVE  /\ conn[c] = "open" /\ UNCHANGED config
           /\ \/ /\ target[c].does \in {"file", "list"} /\ test2[c]
                 /\ NextBlock(c) /\ UNCHANGED <<test3, lists, joined>>
              \/ /\ target[c].does = "file" /\ ~test2[c] /\ UNCHANGED <<test3, files>>
                 /\ Exists(target[c].name)
                 /\ SendHead(c, OfFile(Plain(target[c].name)), lists)
              \/ /\ target[c].does = "file" /\ ~test2[c] /\ UNCHANGED <<test3, files>>
                 /\ Refuse(c, "404")
              \/ /\ target[c].does = "list" /\ ~test2[c] /\ WriteList(c)
                 /\ listing' = 0 /\ Refuse(c, "404")
              \/ /\ target[c].does = "list" /\ ~test2[c] /\ WriteList(c)
                 /\ listing' # 0 /\ SendHead(c, OfList(listing'), lists')
              \/ target[c].does = "list" /\ ~test2[c] /\ ListFails(c)
              \/ /\ target[c].does \notin {"file", "list"} /\ UNCHANGED <<test3, files>>
                 /\ Refuse(c, target[c].does)
<1>1. CASE target[c].does = "file"
  BY <1>1 DEF GetMethod, files
<1>2. CASE target[c].does = "list"
  BY <1>2 DEF GetMethod
<1>3. CASE target[c].does \notin {"file", "list"}
  BY <1>3 DEF GetMethod
<1> QED
  BY <1>1, <1>2, <1>3

\* Every step keeps the types.
LEMMA TypeStep == ASSUME TypeOK, [Next]_vars PROVE TypeOK'
<1>1. FilesOK /\ Len(lists) \in Nat
  BY TypeParts, LenProperties DEF FilesOK
<1>2. UNCHANGED <<test3, files>> => FilesOK' /\ Len(lists) <= Len(lists')
  BY <1>1 DEF FilesOK, files
<1>3. ASSUME NEW c \in Clients, GetMethod(c) PROVE TypeOK'
  <2>1. UNCHANGED config /\ target[c].does \in Actions
    BY <1>3, GetForms, TypeParts
  <2>2. CASE NextBlock(c) /\ UNCHANGED <<test3, lists, joined>>
    BY <2>1, <2>2, NextBlockType
  <2>3. CASE /\ UNCHANGED <<test3, files>> /\ Exists(target[c].name)
             /\ SendHead(c, OfFile(Plain(target[c].name)), lists)
    <3>1. lists' = lists /\ FilesOK' /\ Len(lists) <= Len(lists')
      BY <1>2, <2>3 DEF files
    <3>2. OfFile(Plain(target[c].name)) \in Streams(lists')
      BY <1>1, <2>3, <3>1 DEF Exists, OfFile, Streams
    <3>3. SendHead(c, OfFile(Plain(target[c].name)), lists')
      BY <2>3, <3>1
    <3> QED
      BY <2>1, <3>1, <3>2, <3>3, SendHeadType
  <2>4. CASE UNCHANGED <<test3, files>> /\ Refuse(c, "404")
    BY <1>2, <2>1, <2>4, RefuseType DEF Statuses
  <2>5. CASE WriteList(c) /\ Refuse(c, "404")
    BY <2>1, <2>5, WriteListType, RefuseType DEF Statuses
  <2>6. CASE WriteList(c) /\ listing' # 0 /\ SendHead(c, OfList(listing'), lists')
    <3>1. FilesOK' /\ Len(lists) <= Len(lists')
      BY <2>6, WriteListType
    <3>2. OfList(listing') \in Streams(lists')
      BY <3>1 DEF FilesOK, OfList, Streams
    <3> QED
      BY <2>1, <2>6, <3>1, <3>2, SendHeadType
  <2>7. CASE /\ target[c].does \notin {"file", "list"} /\ UNCHANGED <<test3, files>>
             /\ Refuse(c, target[c].does)
    BY <1>2, <2>1, <2>7, RefuseType DEF Actions, Statuses
  <2>8. CASE ListFails(c)
    <3>1. FilesOK' /\ Len(lists) <= Len(lists') /\ lost' \subseteq Clients
      BY <2>8, ListFailsType
    <3>2. stream' \in [Clients -> Streams(lists')]
      BY <2>8, <3>1, TypeParts, StreamsGrow DEF ListFails
    <3> QED
      BY <2>1, <2>8, <3>1, <3>2, TypeParts, TypeAfter DEF ListFails
  <2> QED
    BY <1>3, <2>2, <2>3, <2>4, <2>5, <2>6, <2>7, <2>8, GetForms
<1>4. ASSUME NEW c \in Clients, HangUp(c) PROVE TypeOK'
  <2>1. conn' \in [Clients -> {"open", "closed", "left"}]
    BY <1>4, TypeParts DEF HangUp
  <2>2. FilesOK' /\ stream' \in [Clients -> Streams(lists')]
    BY <1>2, <1>4, TypeParts DEF HangUp, files
  <2> QED
    BY <1>4, <2>1, <2>2, TypeParts, TypeAfter DEF HangUp
<1>5. CASE UNCHANGED vars
  BY <1>5 DEF TypeOK, vars, config, files
<1> QED
  BY <1>3, <1>4, <1>5 DEF Next

LEMMA TypeInit == Init => TypeOK
<1> SUFFICES ASSUME Init PROVE TypeOK
  OBVIOUS
<1>1. page \in Nat
  BY GetAssumption DEF Init
<1>2. DOMAIN target = Clients /\ \A c \in Clients : target[c].does \in Actions
  BY ResolveType DEF Init
<1>3. /\ conn \in [Clients -> {"open", "closed", "left"}] /\ answer \in [Clients -> Statuses]
      /\ test2 \in [Clients -> BOOLEAN] /\ announced \in [Clients -> Nat]
  BY DEF Init, Statuses
<1>4. sent \in [Clients -> Texts] /\ FilesOK
  BY EmptySeq DEF Init, FilesOK, Texts
<1>5. stream \in [Clients -> Streams(lists)]
  BY EmptySeq DEF Init, Streams, Closed
<1>6. lost \subseteq Clients
  BY DEF Init
<1> QED
  BY <1>1, <1>2, <1>3, <1>4, <1>5, <1>6, TypeParts

(***************************************************************************)
(* The types of all variables: among them, that a stream is at a place of  *)
(* a file that exists or of a list that was written, and that an answer    *)
(* is one of those of getMethod.cpp.                                       *)
(***************************************************************************)
THEOREM GetTypeCorrect == Spec => []TypeOK
<1> QED
  BY TypeInit, TypeStep, PTL DEF Spec
-------------------------------------------------------------------------------
\* Lists are written only for clients that get one.
Listed ==
    /\ \A c \in Clients : test3[c] => target[c].does = "list"
    /\ ListingFileCause

\* Every step keeps the cause of the shared file.
LEMMA ListedStep == ASSUME TypeOK, Listed, [Next]_vars PROVE Listed'
<1>1. /\ conn \in [Clients -> {"open", "closed", "left"}] /\ test3 \in [Clients -> BOOLEAN]
  BY DEF TypeOK
<1>2. ASSUME NEW c \in Clients, GetMethod(c) PROVE Listed'
  <2>1. target' = target /\ conn[c] = "open"
    BY <1>2, GetForms DEF config
  <2>2. CASE target[c].does \in {"file", "list"} /\ NextBlock(c) /\ UNCHANGED <<test3, lists, joined>>
    <3>1. \/ conn' = conn /\ listing' = listing
          \/ /\ conn' = [conn EXCEPT ![c] = "closed"]
             /\ listing' = IF target[c].does = "list" THEN 0 ELSE listing
      BY <2>2 DEF NextBlock, Removed
    <3> QED
      BY <1>1, <2>1, <2>2, <3>1 DEF Listed, ListingFileCause
  <2>3. CASE UNCHANGED <<test3, files>> /\ conn' = conn
    BY <2>1, <2>3 DEF Listed, ListingFileCause, files
  <2>4. CASE target[c].does # "list" /\ UNCHANGED <<test3, files>> /\ conn' = [conn EXCEPT ![c] = "closed"]
    BY <1>1, <2>1, <2>4 DEF Listed, ListingFileCause, files
  <2>5. CASE target[c].does = "list" /\ WriteList(c) /\ listing' = 0
    <3>1. test3' = [test3 EXCEPT ![c] = TRUE]
      BY <2>5 DEF WriteList
    <3> QED
      BY <1>1, <2>1, <2>5, <3>1 DEF Listed, ListingFileCause
  <2>6. CASE target[c].does = "list" /\ WriteList(c) /\ conn' = conn
    <3>1. test3' = [test3 EXCEPT ![c] = TRUE]
      BY <2>6 DEF WriteList
    <3> QED
      BY <1>1, <2>1, <2>6, <3>1 DEF Listed, ListingFileCause
  <2>7. CASE target[c].does = "list" /\ ListFails(c)
    <3>1. /\ conn' = conn
          /\ (test3' = test3 /\ listing' = listing) \/ test3' = [test3 EXCEPT ![c] = TRUE]
      BY <2>7 DEF ListFails
    <3> QED
      BY <1>1, <2>1, <2>7, <3>1 DEF Listed, ListingFileCause
  <2> QED
    BY <1>2, <2>2, <2>3, <2>4, <2>5, <2>6, <2>7, GetForms DEF SendHead, Refuse
<1>3. ASSUME NEW c \in Clients, HangUp(c) PROVE Listed'
  BY <1>1, <1>3 DEF Listed, ListingFileCause, HangUp, config, files
<1>4. CASE UNCHANGED vars
  BY <1>4 DEF Listed, ListingFileCause, vars, config, files
<1> QED
  BY <1>2, <1>3, <1>4 DEF Next

(***************************************************************************)
(* The file of the lists stays behind only because of a client that left   *)
(* before its end (getMethod.cpp:78-83 removes it at the end of one).      *)
(***************************************************************************)
THEOREM ListingFileExplained == Spec => []ListingFileCause
<1>1. Init => Listed
  BY DEF Init, Listed, ListingFileCause
<1>2. Listed => ListingFileCause
  BY DEF Listed
<1> QED
  BY <1>1, <1>2, GetTypeCorrect, ListedStep, PTL DEF Spec
-------------------------------------------------------------------------------
\* The file a client is to get.
FileOf(c) == Disk[Plain(target[c].name)].body

\* Half-way: what of the file was sent is what the stream has passed.
Going(c) ==
    target[c].does = "file" /\ conn[c] = "open" /\ c \notin lost =>
        /\ ~test2[c] => announced[c] = 0
        /\ test2[c] =>
             /\ Exists(target[c].name) /\ page <= MaxPages
             /\ announced[c] = IF page > 0 THEN page ELSE Len(FileOf(c))
             /\ \E k \in 0 .. Len(FileOf(c)) :
                  /\ stream[c] = [list |-> 0, name |-> Plain(target[c].name), at |-> k]
                  /\ sent[c] = Pages(page) \o Take(FileOf(c), k)

\* BodyAsAnnounced, of one client.
Got(c) ==
    Done(c) /\ target[c].does = "file" =>
        /\ sent[c] = Pages(page) \o Disk[Plain(target[c].name)].body
        /\ announced[c] = IF page > 0 THEN page ELSE Len(sent[c])

LEMMA InOrder ==
    ASSUME NEW S, NEW f \in Seq(S), NEW g \in Seq(S), NEW h \in Seq(S)
    PROVE  (f \o g) \o h = f \o (g \o h)
BY ConcatAssociative

\* A text and what follows it.
LEMMA Onward ==
    ASSUME NEW S, NEW p \in Seq(S), NEW b \in Seq(S), NEW k \in 0 .. Len(b), NEW n \in k .. Len(b)
    PROVE  (p \o Take(b, k)) \o SubSeq(b, k + 1, n) = p \o Take(b, n)
<1>1. Len(b) \in Nat /\ k \in Nat /\ n \in Nat /\ k <= n /\ n <= Len(b)
  BY LenProperties
<1>2. Take(b, k) \o SubSeq(b, k + 1, n) = Take(b, n)
  <2>1. 1 \in 1 .. Len(b) + 1 /\ k \in 1 - 1 .. Len(b) /\ n \in k .. Len(b)
    BY <1>1
  <2> QED
    BY <2>1, ConcatAdjacentSubSeq DEF Take
<1>3. Take(b, k) \in Seq(S)
  BY TakeType
<1>4. SubSeq(b, k + 1, n) \in Seq(S)
  <2>1. \A i \in k + 1 .. n : i \in 1 .. Len(b)
    BY <1>1
  <2>2. \A i \in k + 1 .. n : b[i] \in S
    BY <2>1, ElementOfSeq
  <2>3. k + 1 \in Int /\ n \in Int
    BY <1>1
  <2> QED
    BY <2>2, <2>3, SubSeqProperties
<1> DEFINE x == Take(b, k)
           y == SubSeq(b, k + 1, n)
<1>5. x \in Seq(S) /\ y \in Seq(S)
  BY <1>3, <1>4
<1>6. x \o y = Take(b, n)
  BY <1>2
<1> HIDE DEF x, y
<1>7. (p \o x) \o y = p \o (x \o y)
  BY <1>5, InOrder, SMTT(30)
<1> QED
  BY <1>7, <1>6 DEF x, y

\* A text taken up to its end.
LEMMA Whole ==
    ASSUME NEW S, NEW b \in Seq(S)
    PROVE  Take(b, Len(b)) = b
<1> DEFINE w == Take(b, Len(b))
<1>1. Len(b) \in 0 .. Len(b)
  BY LenProperties
<1>2. w \in Seq(S) /\ Len(w) = Len(b) /\ \A i \in 1 .. Len(b) : w[i] = b[i]
  BY <1>1, TakeType
<1> HIDE DEF w
<1>3. w = b
  BY <1>2, SeqEqual
<1> QED
  BY <1>3 DEF w

\* A step of one client leaves the others alone.
LEMMA OthersSame ==
    ASSUME TypeOK, NEW c \in Clients, NEW d \in Clients, d # c, GetMethod(c) \/ HangUp(c)
    PROVE  /\ conn'[d] = conn[d] /\ answer'[d] = answer[d] /\ test2'[d] = test2[d]
           /\ stream'[d] = stream[d] /\ announced'[d] = announced[d] /\ sent'[d] = sent[d]
           /\ page' = page /\ target' = target /\ (d \in lost' <=> d \in lost)
<1>1. /\ DOMAIN conn = Clients /\ DOMAIN answer = Clients /\ DOMAIN test2 = Clients
      /\ DOMAIN stream = Clients /\ DOMAIN announced = Clients /\ DOMAIN sent = Clients
  BY DEF TypeOK
<1>2. CASE HangUp(c)
  BY <1>1, <1>2 DEF HangUp, config
<1>3. ASSUME NEW status, Refuse(c, status), UNCHANGED config
      PROVE  /\ conn'[d] = conn[d] /\ answer'[d] = answer[d] /\ test2'[d] = test2[d]
             /\ stream'[d] = stream[d] /\ announced'[d] = announced[d] /\ sent'[d] = sent[d]
             /\ page' = page /\ target' = target /\ (d \in lost' <=> d \in lost)
  BY <1>1, <1>3 DEF Refuse, config
<1>4. ASSUME NEW s, NEW ls, SendHead(c, s, ls), UNCHANGED config
      PROVE  /\ conn'[d] = conn[d] /\ answer'[d] = answer[d] /\ test2'[d] = test2[d]
             /\ stream'[d] = stream[d] /\ announced'[d] = announced[d] /\ sent'[d] = sent[d]
             /\ page' = page /\ target' = target /\ (d \in lost' <=> d \in lost)
  BY <1>1, <1>4 DEF SendHead, Lose, config
<1>5. CASE NextBlock(c) /\ UNCHANGED config
  BY <1>1, <1>5 DEF NextBlock, Lose, config
<1>6. CASE ListFails(c) /\ UNCHANGED config
  BY <1>1, <1>6 DEF ListFails, config
<1> QED
  BY <1>2, <1>3, <1>4, <1>5, <1>6, GetForms

\* The step of a client keeps its own part.
LEMMA GoingStep ==
    ASSUME TypeOK, NEW c \in Clients, Going(c), Got(c), GetMethod(c)
    PROVE  Going(c)' /\ Got(c)'
<1> SUFFICES ASSUME target[c].does = "file", c \notin lost'
             PROVE  Going(c)' /\ Got(c)'
  BY GetForms DEF Going, Got, Done, config
<1>1. /\ DOMAIN conn = Clients /\ DOMAIN answer = Clients /\ DOMAIN test2 = Clients
      /\ DOMAIN stream = Clients /\ DOMAIN announced = Clients /\ DOMAIN sent = Clients
      /\ page \in Nat /\ test2 \in [Clients -> BOOLEAN]
  BY DEF TypeOK
<1>2. conn[c] = "open" /\ page' = page /\ target' = target
  BY GetForms DEF config
<1> DEFINE b == FileOf(c)
           name == Plain(target[c].name)
<1>3. FileOf(c)' = b
  BY <1>2 DEF FileOf
<1>4. Exists(target[c].name) =>
        name # <<>> /\ b \in Seq(Characters) /\ Len(b) \in Nat
        /\ \A k, ls : Body([list |-> 0, name |-> name, at |-> k], ls) = b
  BY GetAssumption, LenProperties DEF Exists, FileOf, Body
<1>5. ASSUME test2[c], NextBlock(c) PROVE Going(c)' /\ Got(c)'
  <2>1. PICK how \in Sends : \E piece \in SentOf(how, GCount(Body(stream[c], lists), stream[c].at)) :
          /\ Lose(c, how)
          /\ sent' = [sent EXCEPT ![c] = @ \o piece]
          /\ IF how # "fails" /\ Eof(Body(stream[c], lists), stream[c].at)
             THEN /\ conn' = [conn EXCEPT ![c] = "closed"]
                  /\ stream' = [stream EXCEPT ![c] = Closed]
             ELSE /\ stream' = IF how = "fails" THEN [stream EXCEPT ![c] = Closed]
                               ELSE [stream EXCEPT ![c].at = @ + Block]
                  /\ conn' = conn
          /\ UNCHANGED <<answer, test2, announced>>
    BY <1>5 DEF NextBlock
  <2>2. how = "whole" /\ c \notin lost
    BY <2>1 DEF Lose
  <2>3. /\ Exists(target[c].name) /\ page <= MaxPages
        /\ announced[c] = IF page > 0 THEN page ELSE Len(b)
    BY <1>2, <1>5, <2>2 DEF Going
  <2>4. PICK k \in 0 .. Len(b) :
          /\ stream[c] = [list |-> 0, name |-> name, at |-> k]
          /\ sent[c] = Pages(page) \o Take(b, k)
    BY <1>2, <1>5, <2>2 DEF Going
  <2>5. Body(stream[c], lists) = b /\ stream[c].at = k
    BY <1>4, <2>3, <2>4
  <2> DEFINE piece == GCount(b, k)
  <2>6. /\ sent' = [sent EXCEPT ![c] = @ \o piece]
        /\ IF Eof(b, k)
           THEN conn' = [conn EXCEPT ![c] = "closed"]
           ELSE stream' = [stream EXCEPT ![c].at = @ + Block] /\ conn' = conn
        /\ test2' = test2 /\ announced' = announced /\ answer' = answer
    BY <2>1, <2>2, <2>5 DEF SentOf
  <2> HIDE DEF b, name
  <2>7. b \in Seq(Characters) /\ Len(b) \in Nat /\ Pages(page) \in Seq(Characters)
        /\ Block \in Nat /\ k \in Nat
    BY <1>1, <1>4, <2>3, GetAssumption
  <2>8. CASE k + Block > Len(b)
    <3>1. piece = SubSeq(b, k + 1, Len(b))
      BY <2>7, <2>8, GCountType, Zenon
    <3>2. Len(b) \in k .. Len(b)
      BY <2>7
    <3> HIDE DEF piece
    <3>3. (Pages(page) \o Take(b, k)) \o SubSeq(b, k + 1, Len(b)) = Pages(page) \o Take(b, Len(b))
      BY <2>7, <3>2, Onward
    <3>4. Take(b, Len(b)) = b
      BY <2>7, Whole
    <3>5. (Pages(page) \o Take(b, k)) \o piece = Pages(page) \o b
      BY <3>1, <3>3, <3>4
    <3>6. sent'[c] = Pages(page) \o b /\ conn'[c] = "closed" /\ announced'[c] = announced[c]
      BY <1>1, <2>4, <2>6, <2>8, <3>5 DEF Eof
    <3>7. page > 0 \/ Len(sent'[c]) = Len(b)
      <4>1. CASE page = 0
        <5>1. Pages(page) = <<>>
          BY <4>1, <1>1 DEF Pages
        <5>2. <<>> \o b = b
          BY <2>7, ConcatEmptySeq
        <5> QED
          BY <3>6, <5>1, <5>2
      <4> QED
        BY <1>1, <4>1
    <3> QED
      BY <1>2, <2>3, <3>6, <3>7 DEF Going, Got, b, FileOf
  <2>9. CASE k + Block <= Len(b)
    <3>1. piece = SubSeq(b, k + 1, k + Block)
      BY <2>7, <2>9, GCountType, Zenon
    <3>2. k + Block \in k .. Len(b) /\ k + Block \in 0 .. Len(b)
      BY <2>7, <2>9
    <3> HIDE DEF piece
    <3>3. (Pages(page) \o Take(b, k)) \o SubSeq(b, k + 1, k + Block) = Pages(page) \o Take(b, k + Block)
      BY <2>7, <3>2, Onward
    <3>4. (Pages(page) \o Take(b, k)) \o piece = Pages(page) \o Take(b, k + Block)
      BY <3>1, <3>3
    <3>5. ~ Eof(b, k)
      BY <2>7, <2>9 DEF Eof
    <3>6. /\ sent'[c] = Pages(page) \o Take(b, k + Block)
          /\ conn'[c] = "open" /\ announced'[c] = announced[c] /\ test2'[c]
          /\ stream'[c] = [list |-> 0, name |-> name, at |-> k + Block]
      BY <1>1, <1>2, <1>5, <2>4, <2>6, <3>4, <3>5
    <3>7. Exists(target[c].name)' /\ (page <= MaxPages)' /\ (target[c].does = "file")'
      BY <1>2, <2>3 DEF Exists
    <3> QED
      BY <1>2, <1>3, <2>3, <3>2, <3>6, <3>7 DEF Going, Got, Done, name
  <2> QED
    BY <2>7, <2>8, <2>9
<1>6. ASSUME ~test2[c], Exists(target[c].name), SendHead(c, OfFile(Plain(target[c].name)), lists)
      PROVE  Going(c)' /\ Got(c)'
  <2> DEFINE body == IF page > 0 THEN announced[c] + page ELSE 0
             s == OfFile(Plain(target[c].name))
  <2>1. PICK how \in Sends : \E piece \in SentOf(how, Pages(body)) \cup {<<>>} :
          /\ body <= MaxPages
          /\ how = "whole" => piece = Pages(body)
          /\ Lose(c, how)
          /\ announced' = [announced EXCEPT ![c] = IF page > 0 THEN body ELSE Len(Body(s, lists))]
          /\ conn' = conn
          /\ how # "fails" =>
               /\ stream' = [stream EXCEPT ![c] = s]
               /\ test2' = [test2 EXCEPT ![c] = TRUE]
               /\ sent' = [sent EXCEPT ![c] = piece]
    BY <1>6 DEF SendHead
  <2>2. how = "whole" /\ c \notin lost
    BY <2>1 DEF Lose
  <2>3. announced[c] = 0
    BY <1>2, <1>6, <2>2 DEF Going
  <2>4. body = page
    BY <1>1, <2>3
  <2>5. Body(s, lists) = b
    BY <1>4, <1>6 DEF OfFile
  <2> HIDE DEF body, b, name
  <2>6. /\ page <= MaxPages /\ conn'[c] = "open" /\ test2'[c]
        /\ announced'[c] = IF page > 0 THEN page ELSE Len(b)
        /\ stream'[c] = s /\ sent'[c] = Pages(page)
    BY <1>1, <1>2, <2>1, <2>2, <2>4, <2>5
  <2>7. Pages(page) \in Seq(Characters) /\ b \in Seq(Characters) /\ 0 \in 0 .. Len(b)
    BY <1>1, <1>4, <1>6, <2>6, GetAssumption
  <2>8. Pages(page) = Pages(page) \o Take(b, 0)
    BY <2>7, ConcatEmptySeq, SubSeqEmpty DEF Take
  <2>9. Exists(target[c].name)' /\ (page <= MaxPages)' /\ (target[c].does = "file")'
    BY <1>2, <1>6, <2>6 DEF Exists
  <2> QED
    BY <1>2, <1>3, <2>6, <2>7, <2>8, <2>9 DEF Going, Got, Done, OfFile
<1>7. ASSUME Refuse(c, "404") PROVE Going(c)' /\ Got(c)'
  <2>1. conn'[c] = "closed" /\ answer'[c] = "404"
    BY <1>1, <1>7 DEF Refuse
  <2> QED
    BY <2>1 DEF Going, Got, Done
<1> QED
  BY <1>5, <1>6, <1>7, GetForms

\* Every step keeps the parts of all clients.
LEMMA BodiesStep ==
    ASSUME TypeOK, \A c \in Clients : Going(c) /\ Got(c), [Next]_vars
    PROVE  (\A c \in Clients : Going(c) /\ Got(c))'
<1> SUFFICES ASSUME NEW d \in Clients PROVE Going(d)' /\ Got(d)'
  OBVIOUS
<1>1. ASSUME NEW c \in Clients, GetMethod(c) \/ HangUp(c), d # c PROVE Going(d)' /\ Got(d)'
  <2>1. /\ conn'[d] = conn[d] /\ answer'[d] = answer[d] /\ test2'[d] = test2[d]
        /\ stream'[d] = stream[d] /\ announced'[d] = announced[d] /\ sent'[d] = sent[d]
        /\ page' = page /\ target' = target /\ (d \in lost' <=> d \in lost)
    BY <1>1, OthersSame
  <2> QED
    BY <2>1 DEF Going, Got, Done, FileOf, Exists
<1>2. CASE GetMethod(d)
  BY <1>2, GoingStep
<1>3. CASE HangUp(d)
  <2>1. conn'[d] = "left"
    BY <1>3 DEF HangUp, TypeOK
  <2> QED
    BY <2>1 DEF Going, Got, Done
<1>4. CASE UNCHANGED vars
  BY <1>4 DEF Going, Got, Done, FileOf, Exists, vars, config
<1> QED
  BY <1>1, <1>2, <1>3, <1>4 DEF Next

(***************************************************************************)
(* A file that was sent without a failing or short send arrives whole and  *)
(* as long as announced, whatever its length and the block's, and whatever *)
(* the other clients do (getMethod.cpp:14-86).                             *)
(***************************************************************************)
THEOREM BodiesAreWhole == Spec => []BodyAsAnnounced
<1> DEFINE Parts == \A c \in Clients : Going(c) /\ Got(c)
<1>1. Init => Parts
  BY DEF Init, Going, Got, Done
<1>2. TypeOK /\ Parts /\ [Next]_vars => Parts'
  BY BodiesStep
<1>3. Parts => BodyAsAnnounced
  BY DEF BodyAsAnnounced, Got
<1> HIDE DEF Parts
<1> QED
  BY <1>1, <1>2, <1>3, GetTypeCorrect, PTL DEF Spec
-------------------------------------------------------------------------------
\* What is found in a text is found in a longer one.
LEMMA FoundLonger ==
    ASSUME NEW S, NEW x \in Seq(S), NEW y \in Seq(S), NEW p \in Seq(S), Len(p) > 0,
           Finds(x, p) # {}
    PROVE  Finds(x \o y, p) # {} /\ Finds(y \o x, p) # {}
<1> DEFINE a == x \o y
           b == y \o x
<1>1. /\ a \in Seq(S) /\ Len(a) = Len(x) + Len(y)
      /\ \A i \in 1 .. Len(x) + Len(y) : a[i] = IF i <= Len(x) THEN x[i] ELSE y[i - Len(x)]
  BY ConcatProperties
<1>2. /\ b \in Seq(S) /\ Len(b) = Len(y) + Len(x)
      /\ \A i \in 1 .. Len(y) + Len(x) : b[i] = IF i <= Len(y) THEN y[i] ELSE x[i - Len(y)]
  BY ConcatProperties
<1> HIDE DEF a, b
<1>3. Len(x) \in Nat /\ Len(y) \in Nat /\ Len(p) \in Nat /\ DOMAIN p = 1 .. Len(p)
      /\ DOMAIN a = 1 .. Len(a) /\ DOMAIN b = 1 .. Len(b) /\ DOMAIN x = 1 .. Len(x)
  BY <1>1, <1>2, LenProperties
<1>4. PICK i \in 1 .. Len(x) : IsAt(x, p, i)
  BY <1>3 DEF Finds
<1>5. i + Len(p) - 1 <= Len(x) /\ \A j \in 1 .. Len(p) : x[i + j - 1] = p[j]
  BY <1>3, <1>4 DEF IsAt
<1>6. IsAt(a, p, i) /\ i \in DOMAIN a
  <2>1. ASSUME NEW j \in 1 .. Len(p) PROVE a[i + j - 1] = p[j]
    <3>1. i + j - 1 \in 1 .. Len(x) + Len(y) /\ i + j - 1 <= Len(x)
      BY <1>3, <1>5
    <3> QED
      BY <1>1, <1>5, <3>1
  <2>2. i + Len(p) - 1 <= Len(a) /\ i \in 1 .. Len(a)
    BY <1>1, <1>3, <1>5
  <2> QED
    BY <1>3, <2>1, <2>2 DEF IsAt
<1>7. IsAt(b, p, Len(y) + i) /\ Len(y) + i \in DOMAIN b
  <2>1. ASSUME NEW j \in 1 .. Len(p) PROVE b[Len(y) + i + j - 1] = p[j]
    <3>1. /\ Len(y) + i + j - 1 \in 1 .. Len(y) + Len(x) /\ ~(Len(y) + i + j - 1 <= Len(y))
          /\ Len(y) + i + j - 1 - Len(y) = i + j - 1
      BY <1>3, <1>5
    <3>2. b[Len(y) + i + j - 1] = x[i + j - 1]
      BY <1>2, <3>1
    <3> QED
      BY <1>5, <3>2
  <2>2. Len(y) + i + Len(p) - 1 <= Len(b) /\ Len(y) + i \in 1 .. Len(b)
    BY <1>2, <1>3, <1>5
  <2> QED
    BY <1>3, <2>1, <2>2 DEF IsAt
<1> QED
  BY <1>6, <1>7 DEF Finds, a, b

\* A text is found in itself.
LEMMA FoundItself ==
    ASSUME NEW S, NEW p \in Seq(S), Len(p) > 0 PROVE Finds(p, p) # {}
<1>1. Len(p) \in Nat /\ DOMAIN p = 1 .. Len(p)
  BY LenProperties
<1>2. \A j \in 1 .. Len(p) : p[1 + j - 1] = p[j]
  BY <1>1
<1>3. IsAt(p, p, 1) /\ 1 \in DOMAIN p
  BY <1>1, <1>2 DEF IsAt
<1> QED
  BY <1>3 DEF Finds

\* The beginning of a text is that of a longer one.
LEMMA TakeLonger ==
    ASSUME NEW S, NEW x \in Seq(S), NEW y \in Seq(S), NEW k \in 0 .. Len(x)
    PROVE  Take(x \o y, k) = Take(x, k) /\ k \in 0 .. Len(x \o y)
<1> DEFINE a == x \o y
           u == Take(a, k)
           v == Take(x, k)
<1>1. /\ a \in Seq(S) /\ Len(a) = Len(x) + Len(y)
      /\ \A i \in 1 .. Len(x) + Len(y) : a[i] = IF i <= Len(x) THEN x[i] ELSE y[i - Len(x)]
      /\ Len(x) \in Nat /\ Len(y) \in Nat
  BY ConcatProperties, LenProperties
<1> HIDE DEF a
<1>2. k \in 0 .. Len(a)
  BY <1>1
<1>3. /\ u \in Seq(S) /\ Len(u) = k /\ \A i \in 1 .. k : u[i] = a[i]
      /\ v \in Seq(S) /\ Len(v) = k /\ \A i \in 1 .. k : v[i] = x[i]
  BY <1>1, <1>2, TakeType
<1>4. \A i \in 1 .. k : a[i] = x[i]
  BY <1>1, SMTT(30)
<1> HIDE DEF u, v
<1>5. u = v
  BY <1>3, <1>4, SeqEqual
<1> QED
  BY <1>2, <1>5 DEF u, v, a

\* The list of a client.
LEMMA ListType == \A c \in Clients : ListOf(c) \in Texts /\ Len(ListOf(c)) > 0
<1> SUFFICES ASSUME NEW c \in Clients PROVE ListOf(c) \in Texts /\ Len(ListOf(c)) > 0
  OBVIOUS
<1>1. Len(ListOf(c)) = ListLen /\ ListLen > 0
  BY GetAssumption DEF ListOf
<1> QED
  BY <1>1, GetAssumption DEF Texts

\* What a step does to the files that were written: they grow at their end.
LEMMA ListsGrow ==
    ASSUME TypeOK, NEW d \in Clients, GetMethod(d) \/ HangUp(d)
    PROVE  /\ lists \in Seq(Texts) /\ lists' \in Seq(Texts)
           /\ Len(lists) \in Nat /\ Len(lists') \in Nat /\ Len(lists) <= Len(lists')
           /\ joined \subseteq joined'
           /\ \A n \in 1 .. Len(lists) :
                \/ lists'[n] = lists[n]
                \/ /\ lists'[n] = lists[n] \o ListOf(d)
                   /\ \A c \in Clients : stream[c].list = n => c \in joined'
<1>1. TypeOK'
  BY TypeStep DEF Next
<1>2. lists \in Seq(Texts) /\ lists' \in Seq(Texts) /\ Len(lists) \in Nat /\ Len(lists') \in Nat
  BY <1>1, LenProperties DEF TypeOK, Texts
<1>3. CASE lists' = lists /\ joined' = joined
  BY <1>2, <1>3
<1>4. CASE WriteList(d)
  <2>1. CASE test3[d]
    BY <1>2, <1>4, <2>1 DEF WriteList, files
  <2>2. CASE ~test3[d] /\ listing = 0
    <3>1. lists' = Append(lists, ListOf(d)) /\ joined' = joined
      BY <1>4, <2>2 DEF WriteList
    <3>2. Len(lists') = Len(lists) + 1 /\ \A n \in 1 .. Len(lists) : lists'[n] = lists[n]
      BY <1>2, <3>1, ListType, AppendProperties
    <3> QED
      BY <1>2, <3>1, <3>2
  <2>3. CASE ~test3[d] /\ listing # 0
    <3>1. /\ lists' = [lists EXCEPT ![listing] = @ \o ListOf(d)]
          /\ joined' = joined \cup {d} \cup {e \in Clients : stream[e].list = listing}
      BY <1>4, <2>3 DEF WriteList, Appended
    <3>2. Len(lists') = Len(lists)
      BY <1>2, <3>1, LenProperties
    <3>3. DOMAIN lists = 1 .. Len(lists)
      BY <1>2, LenProperties
    <3> QED
      BY <1>2, <3>1, <3>2, <3>3, SMTT(30)
  <2> QED
    BY <2>1, <2>2, <2>3
<1>5. CASE lists' = Append(lists, <<>>) /\ joined' = joined
  <2>1. <<>> \in Texts
    BY EmptySeq DEF Texts
  <2>2. Len(lists') = Len(lists) + 1 /\ \A n \in 1 .. Len(lists) : lists'[n] = lists[n]
    BY <1>2, <1>5, <2>1, AppendProperties
  <2> QED
    BY <1>2, <1>5, <2>2
<1> QED
  BY <1>3, <1>4, <1>5, GetForms DEF HangUp, files, WriteList, ListFails

-------------------------------------------------------------------------------
(***************************************************************************)
(* Half-way through file n: what was sent is what the stream has passed,   *)
(* the own list is in the file, and alone unless another was written too.  *)
(***************************************************************************)
Reading(c, n, k) ==
    /\ stream[c] = [list |-> n, name |-> <<>>, at |-> k]
    /\ sent[c] = Pages(page) \o Take(lists[n], k)
    /\ Finds(lists[n], ListOf(c)) # {}
    /\ c \notin joined => lists[n] = ListOf(c)

Listening(c) ==
    target[c].does = "list" /\ conn[c] = "open" /\ c \notin lost =>
        /\ ~test2[c] => announced[c] = 0 /\ ~test3[c]
        /\ test2[c] =>
             /\ page <= MaxPages
             /\ \E n \in 1 .. Len(lists) : \E k \in 0 .. Len(lists[n]) : Reading(c, n, k)

\* ListingIsOwn, of one client.
GotList(c) ==
    Done(c) /\ target[c].does = "list" =>
        /\ Finds(sent[c], ListOf(c)) # {}
        /\ c \notin joined => sent[c] = Pages(page) \o ListOf(c)

\* The first call: the list is written and the head is sent.
LEMMA ListBegins ==
    ASSUME TypeOK, NEW c \in Clients, Listening(c), GetMethod(c), target[c].does = "list",
           c \notin lost', ~test2[c], WriteList(c), listing' # 0,
           SendHead(c, OfList(listing'), lists')
    PROVE  Listening(c)' /\ GotList(c)'
<1>1. /\ DOMAIN conn = Clients /\ DOMAIN answer = Clients /\ DOMAIN test2 = Clients
      /\ DOMAIN stream = Clients /\ DOMAIN announced = Clients /\ DOMAIN sent = Clients
      /\ page \in Nat /\ test2 \in [Clients -> BOOLEAN]
  BY DEF TypeOK
<1>2. conn[c] = "open" /\ page' = page /\ target' = target
  BY GetForms DEF config
<1> DEFINE body == IF page > 0 THEN announced[c] + page ELSE 0
           s == OfList(listing')
<1>3. PICK how \in Sends : \E piece \in SentOf(how, Pages(body)) \cup {<<>>} :
        /\ body <= MaxPages
        /\ how = "whole" => piece = Pages(body)
        /\ Lose(c, how)
        /\ conn' = conn
        /\ how # "fails" =>
             /\ stream' = [stream EXCEPT ![c] = s]
             /\ test2' = [test2 EXCEPT ![c] = TRUE]
             /\ sent' = [sent EXCEPT ![c] = piece]
  BY DEF SendHead
<1>4. how = "whole" /\ c \notin lost
  BY <1>3 DEF Lose
<1>5. announced[c] = 0 /\ ~test3[c]
  BY <1>2, <1>4 DEF Listening
<1>6. body = page
  BY <1>1, <1>5
<1> HIDE DEF body
<1>7. /\ page <= MaxPages /\ conn'[c] = "open" /\ test2'[c]
      /\ stream'[c] = [list |-> listing', name |-> <<>>, at |-> 0]
      /\ sent'[c] = Pages(page)
  BY <1>1, <1>2, <1>3, <1>4, <1>6 DEF OfList
<1>8. /\ lists \in Seq(Texts) /\ Len(lists) \in Nat /\ listing \in 0 .. Len(lists)
      /\ ListOf(c) \in Texts /\ Len(ListOf(c)) > 0
  BY ListType, LenProperties DEF TypeOK, Texts
<1>9. /\ listing' \in 1 .. Len(lists') /\ lists'[listing'] \in Texts
      /\ Finds(lists'[listing'], ListOf(c)) # {}
      /\ c \notin joined' => lists'[listing'] = ListOf(c)
  <2>1. CASE listing = 0
    <3>1. lists' = Append(lists, ListOf(c)) /\ listing' = Len(lists')
      BY <1>5, <2>1 DEF WriteList
    <3>2. Len(lists') = Len(lists) + 1 /\ lists'[Len(lists) + 1] = ListOf(c)
      BY <1>8, <3>1, AppendProperties
    <3>3. Finds(ListOf(c), ListOf(c)) # {}
      BY <1>8, FoundItself DEF Texts
    <3> QED
      BY <1>8, <3>1, <3>2, <3>3
  <2>2. CASE listing # 0
    <3>1. /\ lists' = [lists EXCEPT ![listing] = @ \o ListOf(c)] /\ listing' = listing
          /\ c \in joined'
      BY <1>5, <2>2 DEF WriteList, Appended
    <3>2. listing \in 1 .. Len(lists) /\ Len(lists') = Len(lists) /\ DOMAIN lists = 1 .. Len(lists)
      BY <1>8, <2>2, <3>1, LenProperties
    <3>3. lists[listing] \in Texts
      BY <1>8, <3>2, ElementOfSeq
    <3>4. Finds(ListOf(c), ListOf(c)) # {}
      BY <1>8, FoundItself DEF Texts
    <3>5. Finds(lists[listing] \o ListOf(c), ListOf(c)) # {}
      BY <1>8, <3>3, <3>4, FoundLonger DEF Texts
    <3>6. lists'[listing] = lists[listing] \o ListOf(c)
      BY <3>1, <3>2
    <3>7. lists[listing] \o ListOf(c) \in Texts
      BY <1>8, <3>3, ConcatProperties DEF Texts
    <3> QED
      BY <3>1, <3>2, <3>5, <3>6, <3>7
  <2> QED
    BY <2>1, <2>2
<1>10. Pages(page) = Pages(page) \o Take(lists'[listing'], 0) /\ 0 \in 0 .. Len(lists'[listing'])
  <2>1. Pages(page) \in Seq(Characters)
    BY <1>1, <1>7, GetAssumption
  <2>2. Len(lists'[listing']) \in Nat
    BY <1>9, LenProperties DEF Texts
  <2> QED
    BY <1>9, <2>1, <2>2, ConcatEmptySeq, SubSeqEmpty DEF Take, Texts
<1>11. Reading(c, listing, 0)'
  BY <1>2, <1>7, <1>9, <1>10 DEF Reading
<1> QED
  BY <1>2, <1>7, <1>9, <1>10, <1>11 DEF Listening, GotList, Done

\* A later call: a block of it.
LEMMA ListGoesOn ==
    ASSUME TypeOK, NEW c \in Clients, Listening(c), GetMethod(c), target[c].does = "list",
           c \notin lost', test2[c], NextBlock(c), UNCHANGED <<test3, lists, joined>>
    PROVE  Listening(c)' /\ GotList(c)'
<1>1. /\ DOMAIN conn = Clients /\ DOMAIN answer = Clients /\ DOMAIN test2 = Clients
      /\ DOMAIN stream = Clients /\ DOMAIN announced = Clients /\ DOMAIN sent = Clients
      /\ page \in Nat /\ test2 \in [Clients -> BOOLEAN] /\ lists \in Seq(Texts)
  BY DEF TypeOK, Texts
<1>2. conn[c] = "open" /\ page' = page /\ target' = target
  BY GetForms DEF config
<1>3. PICK how \in Sends : \E piece \in SentOf(how, GCount(Body(stream[c], lists), stream[c].at)) :
        /\ Lose(c, how)
        /\ sent' = [sent EXCEPT ![c] = @ \o piece]
        /\ IF how # "fails" /\ Eof(Body(stream[c], lists), stream[c].at)
           THEN /\ conn' = [conn EXCEPT ![c] = "closed"]
                /\ stream' = [stream EXCEPT ![c] = Closed]
           ELSE /\ stream' = IF how = "fails" THEN [stream EXCEPT ![c] = Closed]
                             ELSE [stream EXCEPT ![c].at = @ + Block]
                /\ conn' = conn
        /\ UNCHANGED <<answer, test2, announced>>
  BY DEF NextBlock
<1>4. how = "whole" /\ c \notin lost
  BY <1>3 DEF Lose
<1>5. page <= MaxPages
  BY <1>2, <1>4 DEF Listening
<1>6. PICK n \in 1 .. Len(lists) : \E k \in 0 .. Len(lists[n]) : Reading(c, n, k)
  BY <1>2, <1>4 DEF Listening
<1>7. PICK k \in 0 .. Len(lists[n]) : Reading(c, n, k)
  BY <1>6
<1> DEFINE b == lists[n]
<1>8. n # 0 /\ b \in Seq(Characters) /\ Len(b) \in Nat /\ k \in Nat /\ Block \in Nat
      /\ Pages(page) \in Seq(Characters) /\ k \in 0 .. Len(b)
  <2>1. n # 0 /\ b \in Texts
    BY <1>1, ElementOfSeq
  <2> QED
    BY <1>1, <1>5, <2>1, GetAssumption, LenProperties DEF Texts
<1>9. Body(stream[c], lists) = b /\ stream[c].at = k
  BY <1>7, <1>8 DEF Reading, Body
<1> DEFINE piece == GCount(b, k)
<1>10. /\ sent' = [sent EXCEPT ![c] = @ \o piece]
      /\ IF Eof(b, k)
         THEN conn' = [conn EXCEPT ![c] = "closed"]
         ELSE stream' = [stream EXCEPT ![c].at = @ + Block] /\ conn' = conn
      /\ test2' = test2
  BY <1>3, <1>4, <1>9 DEF SentOf
<1>11. /\ sent[c] = Pages(page) \o Take(b, k) /\ Finds(b, ListOf(c)) # {}
       /\ c \notin joined => b = ListOf(c)
       /\ stream[c] = [list |-> n, name |-> <<>>, at |-> k]
  BY <1>7 DEF Reading
<1>12. lists' = lists /\ joined' = joined
  OBVIOUS
<1>13. CASE k + Block > Len(b)
  <2>1. piece = SubSeq(b, k + 1, Len(b))
    BY <1>8, <1>13, GCountType, Zenon
  <2>2. Len(b) \in k .. Len(b)
    BY <1>8
  <2> HIDE DEF piece, b
  <2>3. (Pages(page) \o Take(b, k)) \o SubSeq(b, k + 1, Len(b)) = Pages(page) \o Take(b, Len(b))
    BY <1>8, <2>2, Onward
  <2>4. Take(b, Len(b)) = b
    BY <1>8, Whole
  <2>5. sent'[c] = Pages(page) \o b /\ conn'[c] = "closed"
    BY <1>1, <1>8, <1>10, <1>11, <1>13, <2>1, <2>3, <2>4 DEF Eof
  <2>6. Finds(Pages(page) \o b, ListOf(c)) # {}
    BY <1>8, <1>11, ListType, FoundLonger DEF Texts
  <2> QED
    BY <1>2, <1>11, <1>12, <2>5, <2>6 DEF Listening, GotList
<1>14. CASE k + Block <= Len(b)
  <2>1. piece = SubSeq(b, k + 1, k + Block)
    BY <1>8, <1>14, GCountType, Zenon
  <2>2. k + Block \in k .. Len(b) /\ k + Block \in 0 .. Len(b)
    BY <1>8, <1>14
  <2> HIDE DEF piece, b
  <2>3. (Pages(page) \o Take(b, k)) \o SubSeq(b, k + 1, k + Block) = Pages(page) \o Take(b, k + Block)
    BY <1>8, <2>2, Onward
  <2>4. ~ Eof(b, k)
    BY <1>8, <1>14 DEF Eof
  <2>5. /\ sent'[c] = Pages(page) \o Take(b, k + Block)
        /\ conn'[c] = "open" /\ test2'[c]
        /\ stream'[c] = [list |-> n, name |-> <<>>, at |-> k + Block]
    <3>1. stream'[c] = [stream[c] EXCEPT !.at = @ + Block]
      BY <1>1, <1>10, <2>4
    <3>2. stream'[c] = [list |-> n, name |-> <<>>, at |-> k + Block]
      BY <1>11, <3>1
    <3>3. sent'[c] = sent[c] \o piece
      BY <1>1, <1>10
    <3>4. sent'[c] = Pages(page) \o Take(b, k + Block)
      BY <1>11, <2>1, <2>3, <3>3
    <3>5. conn'[c] = "open" /\ test2'[c]
      BY <1>2, <1>10, <2>4
    <3> QED
      BY <3>2, <3>4, <3>5
  <2>6. Reading(c, n, k + Block)'
    BY <1>2, <1>11, <1>12, <2>5 DEF Reading, b
  <2> QED
    BY <1>2, <1>5, <1>12, <2>2, <2>5, <2>6 DEF Listening, GotList, Done, b
<1> QED
  BY <1>8, <1>13, <1>14

\* The step of another client: the file may grow behind the place reached.
LEMMA ListOfOther ==
    ASSUME TypeOK, NEW c \in Clients, Listening(c), GotList(c),
           NEW d \in Clients, d # c, GetMethod(d) \/ HangUp(d)
    PROVE  Listening(c)' /\ GotList(c)'
<1>1. /\ conn'[c] = conn[c] /\ answer'[c] = answer[c] /\ test2'[c] = test2[c]
      /\ stream'[c] = stream[c] /\ announced'[c] = announced[c] /\ sent'[c] = sent[c]
      /\ page' = page /\ target' = target /\ (c \in lost' <=> c \in lost)
  BY OthersSame
<1>2. /\ lists \in Seq(Texts) /\ lists' \in Seq(Texts)
      /\ Len(lists) \in Nat /\ Len(lists') \in Nat /\ Len(lists) <= Len(lists')
      /\ joined \subseteq joined'
      /\ \A n \in 1 .. Len(lists) :
           \/ lists'[n] = lists[n]
           \/ /\ lists'[n] = lists[n] \o ListOf(d)
              /\ \A e \in Clients : stream[e].list = n => e \in joined'
  BY ListsGrow
<1>3. GotList(c)'
  BY <1>1, <1>2 DEF GotList, Done
<1>4. test3'[c] = test3[c]
  <2>1. test3 \in [Clients -> BOOLEAN]
    BY DEF TypeOK
  <2> QED
    BY <2>1, GetForms DEF WriteList, ListFails, HangUp
<1>5. ASSUME NEW n \in 1 .. Len(lists), NEW k \in 0 .. Len(lists[n]), Reading(c, n, k)
      PROVE  n \in 1 .. Len(lists') /\ k \in 0 .. Len(lists'[n]) /\ Reading(c, n, k)'
  <2>1. n \in 1 .. Len(lists')
    BY <1>2
  <2>2. /\ lists[n] \in Texts /\ lists'[n] \in Texts /\ stream[c].list = n
        /\ ListOf(c) \in Texts /\ Len(ListOf(c)) > 0 /\ ListOf(d) \in Texts
    BY <1>2, <1>5, <2>1, ElementOfSeq, ListType DEF Reading
  <2>3. CASE lists'[n] = lists[n]
    BY <1>1, <1>2, <1>5, <2>1, <2>3 DEF Reading
  <2>4. CASE lists'[n] = lists[n] \o ListOf(d) /\ c \in joined'
    <3>1. Take(lists'[n], k) = Take(lists[n], k) /\ k \in 0 .. Len(lists'[n])
      BY <2>2, <2>4, TakeLonger DEF Texts
    <3>2. Finds(lists'[n], ListOf(c)) # {}
      BY <1>5, <2>2, <2>4, FoundLonger DEF Texts, Reading
    <3> QED
      BY <1>1, <1>5, <2>1, <2>4, <3>1, <3>2 DEF Reading
  <2> QED
    BY <1>2, <2>2, <2>3, <2>4
<1>6. Listening(c)'
  BY <1>1, <1>4, <1>5 DEF Listening
<1> QED
  BY <1>3, <1>6

\* Every step keeps the parts of all clients.
LEMMA ListsStep ==
    ASSUME TypeOK, \A c \in Clients : Listening(c) /\ GotList(c), [Next]_vars
    PROVE  (\A c \in Clients : Listening(c) /\ GotList(c))'
<1> SUFFICES ASSUME NEW c \in Clients PROVE Listening(c)' /\ GotList(c)'
  OBVIOUS
<1>1. ASSUME NEW d \in Clients, GetMethod(d) \/ HangUp(d), d # c PROVE Listening(c)' /\ GotList(c)'
  BY <1>1, ListOfOther
<1>2. ASSUME GetMethod(c) PROVE Listening(c)' /\ GotList(c)'
  <2>1. target' = target /\ conn[c] = "open"
    BY <1>2, GetForms DEF config
  <2>2. CASE target[c].does # "list" \/ c \in lost'
    BY <2>1, <2>2 DEF Listening, GotList, Done
  <2>3. CASE \E status \in {"404"} : Refuse(c, status)
    <3>1. conn'[c] = "closed" /\ answer'[c] = "404"
      BY <2>3 DEF Refuse, TypeOK
    <3> QED
      BY <3>1 DEF Listening, GotList, Done
  <2>4. CASE /\ target[c].does = "list" /\ c \notin lost' /\ ~test2[c] /\ WriteList(c) /\ listing' # 0
             /\ SendHead(c, OfList(listing'), lists')
    BY <1>2, <2>4, ListBegins
  <2>5. CASE /\ target[c].does = "list" /\ c \notin lost' /\ test2[c] /\ NextBlock(c)
             /\ UNCHANGED <<test3, lists, joined>>
    BY <1>2, <2>5, ListGoesOn
  <2>6. CASE c \notin lost' /\ ~test2[c] /\ ListFails(c)
    <3>1. UNCHANGED <<conn, answer, test2, test3, stream, announced, sent, files, lost>>
      BY <2>6 DEF ListFails, files
    <3>2. UNCHANGED config
      BY <1>2, GetForms
    <3> QED
      BY <3>1, <3>2 DEF Listening, GotList, Reading, Done, config, files
  <2> QED
    BY <1>2, <2>2, <2>3, <2>4, <2>5, <2>6, GetForms
<1>3. ASSUME HangUp(c) PROVE Listening(c)' /\ GotList(c)'
  <2>1. conn'[c] = "left"
    BY <1>3 DEF HangUp, TypeOK
  <2> QED
    BY <2>1 DEF Listening, GotList, Done
<1>4. CASE UNCHANGED vars
  BY <1>4 DEF Listening, GotList, Reading, Done, vars, config, files
<1> QED
  BY <1>1, <1>2, <1>3, <1>4 DEF Next

(***************************************************************************)
(* Although all clients share the file of the lists, whoever gets a list   *)
(* without a failing or short send gets the own one in one piece, and      *)
(* nothing else when no other was written to the file (getMethod.cpp:14-86 *)
(* and 88-140).                                                            *)
(***************************************************************************)
THEOREM ListsAreOwn == Spec => []ListingIsOwn
<1> DEFINE Parts == \A c \in Clients : Listening(c) /\ GotList(c)
<1>1. Init => Parts
  BY DEF Init, Listening, GotList, Done
<1>2. TypeOK /\ Parts /\ [Next]_vars => Parts'
  BY ListsStep
<1>3. Parts => ListingIsOwn
  BY DEF ListingIsOwn, GotList
<1> HIDE DEF Parts
<1> QED
  BY <1>1, <1>2, <1>3, GetTypeCorrect, PTL DEF Spec
-------------------------------------------------------------------------------
\* Places counted from the first: how many of them there are up to one.
UpTo(K, k) == {j \in K : j <= k}

\* A place after one more character was put in behind at.
Moved(at, i) == IF i <= at THEN i ELSE i + 1
AllMoved(at, K) == {Moved(at, i) : i \in K}

\* The places Plain keeps.
Kept(p) == {i \in DOMAIN p : i = 1 \/ p[i] # "/" \/ p[i - 1] # "/"}

\* The place with a given number is there, and there is only one.
LEMMA NumberOf ==
    ASSUME NEW n \in Nat, NEW K \in SUBSET (1 .. n), NEW i \in 1 .. Cardinality(K)
    PROVE  \E k \in K : /\ Cardinality(UpTo(K, k)) = i
                        /\ \A m \in K : Cardinality(UpTo(K, m)) = i => m = k
<1> DEFINE c(k) == Cardinality(UpTo(K, k))
<1>1. IsFiniteSet(K) /\ K \subseteq Nat
  <2>1. IsFiniteSet(1 .. n) /\ 1 .. n \subseteq Nat
    BY FS_Interval
  <2> QED
    BY <2>1, FS_Subset
<1>2. Cardinality(K) \in Nat /\ K # {}
  BY <1>1, FS_CardinalityType, FS_EmptySet
<1>3. \A k \in K : IsFiniteSet(UpTo(K, k)) /\ c(k) \in Nat
  BY <1>1, FS_Subset, FS_CardinalityType DEF UpTo
<1>4. ASSUME NEW m \in K, NEW k \in K, m < k PROVE c(m) < c(k)
  <2>1. UpTo(K, m) \in SUBSET UpTo(K, k)
    <3>1. \A j \in K : j <= m => j <= k
      BY <1>1, <1>4
    <3> QED
      BY <3>1 DEF UpTo
  <2>2. k \in UpTo(K, k) /\ k \notin UpTo(K, m)
    BY <1>1, <1>4 DEF UpTo
  <2>3. c(m) <= c(k) /\ c(m) # c(k)
    BY <1>3, <2>1, <2>2, FS_Subset
  <2> QED
    BY <1>3, <2>3
<1> DEFINE S == {k \in K : c(k) >= i}
<1>5. S \subseteq Nat /\ S # {}
  <2>1. K \subseteq 0 .. n
    BY <1>1
  <2>2. Max(K) \in K /\ \A j \in K : j <= Max(K)
    BY <1>2, <2>1, MaxNat
  <2>3. UpTo(K, Max(K)) = K
    BY <2>2 DEF UpTo
  <2>4. Max(K) \in S
    BY <1>2, <2>2, <2>3
  <2> QED
    BY <1>1, <2>4
<1> DEFINE k == Min(S)
<1>6. k \in S /\ \A m \in S : k <= m
  <2> HIDE DEF S
  <2> QED
    BY <1>5, MinNat
<1> HIDE DEF k
<1>7. k \in K /\ c(k) >= i
  BY <1>6
<1> DEFINE B == UpTo(K, k) \ {k}
<1>8. Cardinality(B) = c(k) - 1
  <2>1. k \in UpTo(K, k)
    BY <1>1, <1>7 DEF UpTo
  <2> QED
    BY <1>3, <1>7, <2>1, FS_RemoveElement
<1>9. c(k) = i
  <2>1. CASE B = {}
    <3>1. c(k) - 1 = 0
      BY <1>8, <2>1, FS_EmptySet
    <3> HIDE DEF c
    <3> QED
      BY <1>3, <1>7, <3>1
  <2>2. CASE B # {}
    <3>1. B \subseteq 0 .. n
      <4>1. K \subseteq 0 .. n
        OBVIOUS
      <4> QED
        BY <4>1 DEF UpTo
    <3> DEFINE m == Max(B)
    <3>2. m \in B /\ \A j \in B : j <= m
      <4> HIDE DEF B
      <4> QED
        BY <2>2, <3>1, MaxNat
    <3> HIDE DEF m
    <3>3. m \in K /\ m < k
      BY <1>1, <1>7, <3>2 DEF UpTo
    <3>4. UpTo(K, m) = B
      <4>1. UpTo(K, m) \subseteq B
        <5>1. \A j \in K : j <= m => j <= k /\ j # k
          BY <1>1, <1>7, <3>3
        <5> QED
          BY <5>1 DEF UpTo
      <4>2. B \subseteq UpTo(K, m)
        BY <3>2 DEF UpTo
      <4> QED
        BY <4>1, <4>2
    <3>5. c(m) = c(k) - 1
      BY <1>8, <3>4
    <3>6. ~(c(m) >= i)
      <4>1. m \notin S
        BY <1>1, <1>6, <1>7, <3>3
      <4> QED
        BY <3>3, <4>1
    <3> HIDE DEF c
    <3> QED
      BY <1>3, <1>7, <3>3, <3>5, <3>6
  <2> QED
    BY <2>1, <2>2
<1>10. \A m \in K : c(m) = i => m = k
  <2> SUFFICES ASSUME NEW m \in K, c(m) = i, m # k PROVE FALSE
    OBVIOUS
  <2>1. m < k \/ k < m
    BY <1>1, <1>7
  <2>2. c(m) < c(k) \/ c(k) < c(m)
    BY <1>4, <1>7, <2>1
  <2> HIDE DEF c
  <2> QED
    BY <1>3, <1>7, <1>9, <2>2
<1> QED
  BY <1>7, <1>9, <1>10

\* Moved places are as many as before, and in the same order.
LEMMA AsMany ==
    ASSUME NEW at \in Nat, NEW n \in Nat, NEW K \in SUBSET (1 .. n)
    PROVE  /\ IsFiniteSet(AllMoved(at, K)) /\ Cardinality(AllMoved(at, K)) = Cardinality(K)
           /\ \A k \in K : UpTo(AllMoved(at, K), Moved(at, k)) = AllMoved(at, UpTo(K, k))
<1>1. IsFiniteSet(K) /\ K \subseteq Nat
  <2>1. IsFiniteSet(1 .. n) /\ 1 .. n \subseteq Nat
    BY FS_Interval
  <2> QED
    BY <2>1, FS_Subset
<1>2. ExistsBijection(K, AllMoved(at, K))
  <2> DEFINE f == [i \in K |-> Moved(at, i)]
  <2>1. f \in [K -> AllMoved(at, K)]
    BY DEF AllMoved
  <2>2. \A i, j \in K : f[i] = f[j] => i = j
    BY <1>1 DEF Moved
  <2>3. \A y \in AllMoved(at, K) : \E i \in K : f[i] = y
    BY DEF AllMoved
  <2> QED
    BY <2>1, <2>2, <2>3 DEF ExistsBijection, Bijection, Injection, Surjection, IsInjective
<1>3. ASSUME NEW k \in K PROVE UpTo(AllMoved(at, K), Moved(at, k)) = AllMoved(at, UpTo(K, k))
  <2>1. \A j \in K : Moved(at, j) <= Moved(at, k) <=> j <= k
    BY <1>1 DEF Moved
  <2> QED
    BY <2>1 DEF UpTo, AllMoved
<1> QED
  BY <1>1, <1>2, <1>3, FS_Bijection

\* Plain leaves the same when the places it keeps, and what is there, are the same.
LEMMA SamePlain ==
    ASSUME NEW at \in Nat, NEW n \in Nat, NEW a, NEW b, Kept(a) \in SUBSET (1 .. n),
           Kept(b) = AllMoved(at, Kept(a)), \A i \in Kept(a) : b[Moved(at, i)] = a[i]
    PROVE  Plain(a) = Plain(b)
<1> DEFINE ka(i) == CHOOSE k \in Kept(a) : Cardinality(UpTo(Kept(a), k)) = i
           kb(i) == CHOOSE k \in Kept(b) : Cardinality(UpTo(Kept(b), k)) = i
           size == Cardinality(Kept(a))
<1>1. Cardinality(Kept(b)) = size
  BY AsMany, ZenonT(60)
<1>2. Kept(b) \in SUBSET (1 .. n + 1)
  <2>1. \A i \in 1 .. n : Moved(at, i) \in 1 .. n + 1
    BY DEF Moved
  <2> QED
    BY <2>1 DEF AllMoved
<1>3. ASSUME NEW i \in 1 .. size PROVE b[kb(i)] = a[ka(i)]
  <2>1. PICK k \in Kept(a) : /\ Cardinality(UpTo(Kept(a), k)) = i
                             /\ \A m \in Kept(a) : Cardinality(UpTo(Kept(a), m)) = i => m = k
    BY NumberOf
  <2>2. ka(i) = k
    BY <2>1
  <2>3. PICK l \in Kept(b) : /\ Cardinality(UpTo(Kept(b), l)) = i
                             /\ \A m \in Kept(b) : Cardinality(UpTo(Kept(b), m)) = i => m = l
    <3>1. i \in 1 .. Cardinality(Kept(b)) /\ n + 1 \in Nat
      BY <1>1
    <3> QED
      BY <1>2, <3>1, NumberOf
  <2>4. kb(i) = l
    BY <2>3
  <2>5. Moved(at, k) \in Kept(b)
    BY DEF AllMoved
  <2>6. Cardinality(UpTo(Kept(b), Moved(at, k))) = i
    <3>1. UpTo(Kept(b), Moved(at, k)) = AllMoved(at, UpTo(Kept(a), k))
      BY AsMany
    <3>2. UpTo(Kept(a), k) \in SUBSET (1 .. n)
      BY DEF UpTo
    <3>3. Cardinality(AllMoved(at, UpTo(Kept(a), k))) = Cardinality(UpTo(Kept(a), k))
      BY <3>2, AsMany
    <3> QED
      BY <2>1, <3>1, <3>3
  <2>7. Moved(at, k) = l
    BY <2>3, <2>5, <2>6
  <2> QED
    BY <2>2, <2>4, <2>7
<1>4. Plain(a) = [i \in 1 .. size |-> a[ka(i)]]
  BY DEF Plain, Kept, UpTo
<1>5. Plain(b) = [i \in 1 .. Cardinality(Kept(b)) |-> b[kb(i)]]
  BY DEF Plain, Kept, UpTo
<1> HIDE DEF ka, kb, size
<1> QED
  BY <1>1, <1>3, <1>4, <1>5

LEMMA SlashType == Slash \in Seq(NameChars) /\ Len(Slash) = 1 /\ Slash[1] = "/"
BY GetAssumption DEF Slash

\* A slash before a slash makes no difference.
LEMMA SlashPutIn ==
    ASSUME NEW x \in Seq(NameChars), NEW y \in Seq(NameChars), Len(y) > 0, y[1] = "/"
    PROVE  Plain(x \o y) = Plain((x \o Slash) \o y)
<1> DEFINE n == Len(x)
           m == Len(y)
           z == x \o Slash
           a == x \o y
           b == z \o y
<1>1. Slash \in Seq(NameChars) /\ Len(Slash) = 1 /\ Slash[1] = "/"
  BY SlashType
<1>2. /\ z \in Seq(NameChars) /\ Len(z) = n + 1
      /\ \A i \in 1 .. n + 1 : z[i] = IF i <= n THEN x[i] ELSE Slash[i - n]
  <2>1. /\ z \in Seq(NameChars) /\ Len(z) = n + Len(Slash)
        /\ \A i \in 1 .. n + Len(Slash) : z[i] = IF i <= n THEN x[i] ELSE Slash[i - n]
    BY <1>1, ConcatProperties
  <2> QED
    BY <1>1, <2>1
<1>3. /\ a \in Seq(NameChars) /\ Len(a) = n + m
      /\ \A i \in 1 .. n + m : a[i] = IF i <= n THEN x[i] ELSE y[i - n]
  BY ConcatProperties
<1> HIDE DEF z
<1>4. /\ b \in Seq(NameChars) /\ Len(b) = n + 1 + m
      /\ \A i \in 1 .. n + 1 + m : b[i] = IF i <= n + 1 THEN z[i] ELSE y[i - (n + 1)]
  <2>1. /\ b \in Seq(NameChars) /\ Len(b) = Len(z) + m
        /\ \A i \in 1 .. Len(z) + m : b[i] = IF i <= Len(z) THEN z[i] ELSE y[i - Len(z)]
    <3>1. z \in Seq(NameChars)
      BY <1>2
    <3> QED
      BY <3>1, ConcatProperties
  <2> QED
    BY <1>2, <2>1
<1> HIDE DEF a, b
<1>5. n \in Nat /\ m \in Nat /\ DOMAIN a = 1 .. n + m /\ DOMAIN b = 1 .. n + 1 + m
  BY <1>3, <1>4, LenProperties
<1> HIDE DEF n, m
<1>6. m > 0
  BY DEF m
<1>7. b[n + 1] = "/" /\ a[n + 1] = "/"
  <2>1. /\ n + 1 \in 1 .. n + 1 + m /\ n + 1 <= n + 1 /\ n + 1 \in 1 .. n + m /\ n + 1 \in 1 .. n + 1
        /\ ~(n + 1 <= n) /\ n + 1 - n = 1
    BY <1>5, <1>6
  <2>2. b[n + 1] = z[n + 1] /\ z[n + 1] = Slash[1]
    BY <1>2, <1>4, <1>5, <2>1
  <2>3. a[n + 1] = y[1]
    BY <1>3, <1>5, <2>1
  <2> QED
    BY <1>1, <2>2, <2>3
<1>8. \A i \in 1 .. n : b[i] = a[i]
  <2> SUFFICES ASSUME NEW i \in 1 .. n PROVE b[i] = a[i]
    OBVIOUS
  <2>1. i \in 1 .. n + 1 + m /\ i <= n + 1 /\ i \in 1 .. n + m /\ i \in 1 .. n + 1 /\ i <= n
    BY <1>5
  <2> QED
    BY <1>2, <1>3, <1>4, <2>1
<1>9. \A i \in n + 1 .. n + m : b[i + 1] = a[i]
  <2> SUFFICES ASSUME NEW i \in n + 1 .. n + m PROVE b[i + 1] = a[i]
    OBVIOUS
  <2>1. i + 1 \in 1 .. n + 1 + m /\ ~(i + 1 <= n + 1) /\ i \in 1 .. n + m /\ ~(i <= n) /\ i + 1 - (n + 1) = i - n
    BY <1>5
  <2>2. b[i + 1] = y[i + 1 - (n + 1)]
    BY <1>4, <1>5, <2>1
  <2>3. a[i] = y[i - n]
    BY <1>3, <1>5, <2>1
  <2> QED
    BY <2>1, <2>2, <2>3
<1>10. \A i \in 1 .. n + 1 : b[i] = a[i]
  BY <1>5, <1>7, <1>8
<1>11. ASSUME NEW i \in 1 .. n + 1 PROVE i \in Kept(b) <=> i \in Kept(a)
  <2>1. i \in DOMAIN a /\ i \in DOMAIN b
    BY <1>5, <1>6
  <2>2. b[i] = a[i]
    BY <1>10
  <2>3. i # 1 => b[i - 1] = a[i - 1]
    BY <1>5, <1>10
  <2> QED
    BY <2>1, <2>2, <2>3 DEF Kept
<1>12. ASSUME NEW i \in n + 2 .. n + m PROVE i + 1 \in Kept(b) <=> i \in Kept(a)
  <2>1. i \in DOMAIN a /\ i + 1 \in DOMAIN b /\ i # 1 /\ i + 1 # 1 /\ i + 1 - 1 = i - 1 + 1
    BY <1>5
  <2>2. b[i + 1] = a[i]
    BY <1>5, <1>9
  <2>3. b[i + 1 - 1] = a[i - 1]
    <3>1. i - 1 \in n + 1 .. n + m
      BY <1>5
    <3> QED
      BY <1>9, <2>1, <3>1
  <2> QED
    BY <2>1, <2>2, <2>3 DEF Kept
<1>13. n + 2 \notin Kept(b)
  <2>1. n + 2 # 1 /\ n + 2 - 1 = n + 1 /\ n + 1 \in n + 1 .. n + m /\ n + 1 + 1 = n + 2
    BY <1>5, <1>6
  <2>2. b[n + 2] = "/"
    BY <1>7, <1>9, <2>1
  <2> QED
    BY <1>7, <2>1, <2>2 DEF Kept
<1>14. Kept(a) \in SUBSET (1 .. n + m) /\ Kept(b) \in SUBSET (1 .. n + 1 + m)
  BY <1>5 DEF Kept
<1>15. Kept(b) = AllMoved(n + 1, Kept(a))
  <2>1. ASSUME NEW i \in Kept(a) PROVE Moved(n + 1, i) \in Kept(b)
    <3>1. CASE i <= n + 1
      <4>1. i \in 1 .. n + 1
        BY <1>5, <1>14, <3>1
      <4> QED
        BY <1>11, <3>1, <4>1 DEF Moved
    <3>2. CASE ~(i <= n + 1)
      <4>1. i \in n + 2 .. n + m
        BY <1>5, <1>14, <3>2
      <4> QED
        BY <1>12, <3>2, <4>1 DEF Moved
    <3> QED
      BY <3>1, <3>2
  <2>2. ASSUME NEW j \in Kept(b) PROVE \E i \in Kept(a) : j = Moved(n + 1, i)
    <3>1. CASE j <= n + 1
      <4>1. j \in 1 .. n + 1
        BY <1>5, <1>14, <3>1
      <4> QED
        BY <1>11, <3>1, <4>1 DEF Moved
    <3>2. CASE ~(j <= n + 1)
      <4>1. j # n + 2
        BY <1>13
      <4>2. j - 1 \in n + 2 .. n + m /\ j - 1 + 1 = j /\ ~(j - 1 <= n + 1)
        BY <1>5, <1>14, <3>2, <4>1
      <4>3. j - 1 \in Kept(a)
        BY <1>12, <4>2
      <4>4. Moved(n + 1, j - 1) = j
        BY <4>2 DEF Moved
      <4> QED
        BY <4>3, <4>4
    <3> QED
      BY <3>1, <3>2
  <2> QED
    BY <2>1, <2>2 DEF AllMoved
<1>16. ASSUME NEW i \in Kept(a) PROVE b[Moved(n + 1, i)] = a[i]
  <2>1. CASE i <= n + 1
    <3>1. i \in 1 .. n + 1
      BY <1>5, <1>14, <2>1
    <3> QED
      BY <1>10, <2>1, <3>1 DEF Moved
  <2>2. CASE ~(i <= n + 1)
    <3>1. i \in n + 1 .. n + m
      BY <1>5, <1>14, <2>2
    <3> QED
      BY <1>9, <2>2, <3>1 DEF Moved
  <2> QED
    BY <2>1, <2>2
<1>17. n + 1 \in Nat /\ n + m \in Nat
  BY <1>5
<1>18. Plain(a) = Plain(b)
  BY <1>14, <1>15, <1>16, <1>17, SamePlain
<1> QED
  BY <1>18 DEF a, b, z

\* The root and the rest of a path, with and without a slash of their own between.
LEMMA SlashTwice ==
    ASSUME NEW root \in Seq(NameChars), NEW rest \in Seq(NameChars), rest = <<>> \/ rest[1] = "/"
    PROVE  Plain((root \o rest) \o Slash) = Plain(((root \o Slash) \o rest) \o Slash)
<1> DEFINE y == rest \o Slash
           r == root \o Slash
<1>1. Slash \in Seq(NameChars) /\ Len(Slash) = 1 /\ Slash[1] = "/"
  BY SlashType
<1>2. r \in Seq(NameChars)
  BY <1>1, ConcatProperties
<1>3. y \in Seq(NameChars) /\ Len(y) > 0 /\ y[1] = "/"
  <2>1. /\ y \in Seq(NameChars) /\ Len(y) = Len(rest) + Len(Slash)
        /\ \A i \in 1 .. Len(rest) + Len(Slash) :
              y[i] = IF i <= Len(rest) THEN rest[i] ELSE Slash[i - Len(rest)]
    BY <1>1, ConcatProperties
  <2>2. Len(rest) \in Nat /\ (rest = <<>> => Len(rest) = 0)
    BY LenProperties
  <2>3. rest # <<>> => 1 <= Len(rest)
    BY <2>2, EmptySeq
  <2>4. 1 \in 1 .. Len(rest) + Len(Slash)
    BY <1>1, <2>2
  <2> HIDE DEF y
  <2>5. CASE rest = <<>>
    <3>1. Len(rest) = 0 /\ 1 - Len(rest) = 1 /\ ~(1 <= Len(rest))
      BY <2>2, <2>5
    <3>2. y[1] = Slash[1]
      BY <2>1, <2>4, <3>1
    <3> QED
      BY <1>1, <2>1, <2>2, <3>2
  <2>6. CASE rest # <<>>
    <3>1. y[1] = rest[1]
      BY <2>1, <2>3, <2>4, <2>6
    <3> QED
      BY <1>1, <2>1, <2>2, <2>6, <3>1
  <2> QED
    BY <2>5, <2>6
<1> HIDE DEF r, y
<1>4. (root \o rest) \o Slash = root \o (rest \o Slash)
  BY <1>1, ConcatAssociative, SMTT(30)
<1>5. (r \o rest) \o Slash = r \o (rest \o Slash)
  <2>1. Slash \in Seq(NameChars)
    BY <1>1
  <2> HIDE <1>1, <1>3, <1>4
  <2> QED
    BY <1>2, <2>1, ConcatAssociative, SMTT(30)
<1>6. Plain(root \o y) = Plain((root \o Slash) \o y)
  BY <1>3, SlashPutIn
<1> QED
  BY <1>4, <1>5, <1>6 DEF r, y
-------------------------------------------------------------------------------
\* What occurs in the beginning of a text occurs in it.
LEMMA FoundInBeginning ==
    ASSUME NEW S, NEW s \in Seq(S), NEW n \in 0 .. Len(s), NEW q \in Seq(S)
    PROVE  Finds(Take(s, n), q) \subseteq Finds(s, q)
<1> DEFINE t == Take(s, n)
<1>1. t \in Seq(S) /\ Len(t) = n /\ \A i \in 1 .. n : t[i] = s[i]
  BY TakeType
<1> HIDE DEF t
<1>2. /\ Len(s) \in Nat /\ n \in Nat /\ n <= Len(s) /\ DOMAIN t = 1 .. n /\ DOMAIN s = 1 .. Len(s)
      /\ Len(q) \in Nat /\ DOMAIN q = 1 .. Len(q)
  BY <1>1, LenProperties
<1>3. ASSUME NEW i \in Finds(t, q) PROVE i \in Finds(s, q)
  <2>1. i \in 1 .. n /\ i + Len(q) - 1 <= n /\ \A j \in 1 .. Len(q) : t[i + j - 1] = q[j]
    BY <1>1, <1>2, <1>3 DEF Finds, IsAt
  <2>2. \A j \in 1 .. Len(q) : s[i + j - 1] = q[j]
    <3> SUFFICES ASSUME NEW j \in 1 .. Len(q) PROVE s[i + j - 1] = q[j]
      OBVIOUS
    <3>1. i + j - 1 \in 1 .. n
      BY <1>2, <2>1
    <3> QED
      BY <1>1, <2>1, <3>1
  <2>3. i \in 1 .. Len(s) /\ i + Len(q) - 1 <= Len(s)
    BY <1>2, <2>1
  <2> QED
    BY <1>2, <2>2, <2>3 DEF Finds, IsAt
<1> QED
  BY <1>3 DEF t

\* A name that occurs before the "?" occurs in the whole path.
LEMMA MatchesMore ==
    ASSUME NEW locs \in Seq(Location), NEW p \in Seq(NameChars)
    PROVE  /\ Matches(locs, WithoutQuery(p)) \subseteq Matches(locs, p)
           /\ Matches(locs, p) \subseteq 1 .. Len(locs)
<1>1. DOMAIN locs = 1 .. Len(locs) /\ \A i \in 1 .. Len(locs) : locs[i] \in Location
  BY LenProperties, ElementOfSeq
<1>2. \A i \in DOMAIN locs : locs[i].name \in Seq(NameChars)
  BY <1>1 DEF Location
<1>3. ASSUME NEW q \in Seq(NameChars) PROVE Finds(WithoutQuery(p), q) \subseteq Finds(p, q)
  <2>1. CASE Finds(p, <<"?">>) = {}
    BY <2>1 DEF WithoutQuery
  <2>2. CASE Finds(p, <<"?">>) # {}
    <3> DEFINE k == Min(Finds(p, <<"?">>))
    <3>1. k \in Finds(p, <<"?">>)
      BY <2>2, FirstFound
    <3>2. k \in 1 .. Len(p)
      BY <3>1, FindsWithin
    <3> HIDE DEF k
    <3>3. k - 1 \in 0 .. Len(p)
      BY <3>2, LenProperties
    <3>4. WithoutQuery(p) = Take(p, k - 1)
      BY <2>2 DEF WithoutQuery, k
    <3> QED
      BY <3>3, <3>4, FoundInBeginning
  <2> QED
    BY <2>1, <2>2
<1>4. Matches(locs, WithoutQuery(p)) \subseteq Matches(locs, p)
  BY <1>2, <1>3 DEF Matches, Occurs
<1> QED
  BY <1>1, <1>4 DEF Matches

\* The last location that matches has a longest name.
LEMMA LongestName ==
    ASSUME NEW locs \in Seq(Location), Sorted(locs), NEW p \in Seq(NameChars),
           Matches(locs, WithoutQuery(p)) # {}
    PROVE  LET k == GetLocation(locs, WithoutQuery(p))
           IN  /\ k \in Matches(locs, WithoutQuery(p))
               /\ \A i \in Matches(locs, WithoutQuery(p)) : Len(locs[i].name) <= Len(locs[k].name)
<1> DEFINE M == Matches(locs, WithoutQuery(p))
           k == GetLocation(locs, WithoutQuery(p))
<1>1. M \subseteq 1 .. Len(locs) /\ Len(locs) \in Nat /\ M # {}
  BY MatchesMore, LenProperties
<1>2. M \subseteq 0 .. Len(locs)
  BY <1>1
<1>3. Max(M) \in M /\ \A i \in M : i <= Max(M)
  <2> HIDE DEF M
  <2> QED
    BY <1>1, <1>2, MaxNat
<1>4. k = Max(M)
  BY DEF GetLocation
<1> HIDE DEF k
<1>5. ASSUME NEW i \in M PROVE Len(locs[i].name) <= Len(locs[k].name)
  <2>1. i \in 1 .. Len(locs) /\ k \in 1 .. Len(locs) /\ i <= k
    BY <1>1, <1>3, <1>4
  <2>2. locs[i].name \in Seq(NameChars) /\ locs[k].name \in Seq(NameChars)
    <3>1. locs[i] \in Location /\ locs[k] \in Location
      BY <2>1, ElementOfSeq
    <3> QED
      BY <3>1 DEF Location
  <2>3. Len(locs[i].name) \in Nat /\ Len(locs[k].name) \in Nat
    BY <2>2, LenProperties
  <2>4. i < k => ~(Len(locs[k].name) < Len(locs[i].name))
    BY <2>1, LenProperties DEF Sorted, Cmpr
  <2> QED
    BY <2>1, <2>3, <2>4
<1> QED
  BY <1>3, <1>4, <1>5 DEF k

\* With one name that occurs, as a whole first step, GET looks where the others look.
LEMMA SamePlace ==
    ASSUME NEW locs \in Seq(Location), NEW p \in Seq(NameChars), NEW k,
           Matches(locs, p) = {k}, IsAt(p, locs[k].name, 1),
           LET rest == Drop(p, Len(locs[k].name)) IN rest = <<>> \/ rest[1] = "/"
    PROVE  Plain(LoopPath(locs, p) \o Slash) = Plain(GetPath(locs, p) \o Slash)
<1> DEFINE l == locs[k]
           n == Len(l.name)
           rest == Drop(p, n)
<1>1. k \in 1 .. Len(locs) /\ k \in Matches(locs, p)
  BY MatchesMore
<1>2. l \in Location
  BY <1>1, ElementOfSeq
<1>3. l.name \in Seq(NameChars) /\ l.root \in Seq(NameChars)
  BY <1>2 DEF Location
<1>4. LoopLocation(locs, p) = k /\ GetLocation(locs, p) = k
  <2>1. Min({k}) = k /\ Max({k}) = k
    <3>1. k <= k
      BY <1>1
    <3> QED
      BY <3>1 DEF Min, Max
  <2> QED
    BY <2>1 DEF LoopLocation, GetLocation
<1>5. Min(Finds(p, l.name)) = 1
  <2>1. Finds(p, l.name) # {}
    BY <1>1 DEF Matches, Occurs
  <2>2. Min(Finds(p, l.name)) \in Finds(p, l.name) /\ \A i \in Finds(p, l.name) : Min(Finds(p, l.name)) <= i
    BY <2>1, FirstFound
  <2>3. Min(Finds(p, l.name)) \in 1 .. Len(p)
    BY <2>2, FindsWithin
  <2>4. 1 \in Finds(p, l.name)
    BY <2>3, LenProperties DEF Finds
  <2> QED
    BY <2>2, <2>3, <2>4
<1>6. n \in 0 .. Len(p) /\ n \in Nat
  <2>1. n \in Nat /\ Len(p) \in Nat
    BY <1>3, LenProperties
  <2>2. 1 + n - 1 <= Len(p)
    BY DEF IsAt
  <2> QED
    BY <2>1, <2>2
<1>7. rest \in Seq(NameChars)
  BY <1>6, DropType
<1>8. LoopPath(locs, p) = l.root \o rest
  BY <1>4 DEF LoopPath
<1>9. GetPath(locs, p) = (l.root \o Slash) \o rest
  <2>1. 1 + n - 1 = n
    BY <1>6
  <2>2. GetPath(locs, p) = (l.root \o Slash) \o Drop(p, 1 + n - 1)
    BY <1>4, <1>5 DEF GetPath
  <2> QED
    BY <2>1, <2>2
<1>10. rest = <<>> \/ rest[1] = "/"
  OBVIOUS
<1> HIDE DEF l, n, rest
<1>11. Plain((l.root \o rest) \o Slash) = Plain(((l.root \o Slash) \o rest) \o Slash)
  BY <1>3, <1>7, <1>10, SlashTwice
<1> QED
  BY <1>8, <1>9, <1>11

\* The redirect that crashes is of a location other than that of the rights.
LEMMA CrashOfTwo ==
    ASSUME NEW locs \in Seq(Location), NEW p \in Seq(NameChars),
           Resolve(locs, p).does = "crash"
    PROVE  Cardinality(Matches(locs, p)) > 1
<1> DEFINE M == Matches(locs, p)
           W == Matches(locs, WithoutQuery(p))
           k == GetLocation(locs, WithoutQuery(p))
           m == LoopLocation(locs, p)
<1>1. W # {} /\ locs[m].return /\ ~locs[k].return
  BY DEF Resolve, Does, Directory, SendOrRun
<1>2. W \subseteq M /\ M \subseteq 1 .. Len(locs) /\ Len(locs) \in Nat
  BY MatchesMore, LenProperties
<1>3. k \in W
  <2>1. W \subseteq 0 .. Len(locs)
    BY <1>2
  <2>2. Max(W) \in W
    <3> HIDE DEF W
    <3> QED
      BY <1>1, <1>2, <2>1, MaxNat
  <2> QED
    BY <2>2 DEF GetLocation
<1>4. m \in M
  <2>1. M \subseteq Nat /\ M # {}
    BY <1>1, <1>2
  <2>2. Min(M) \in M
    <3> HIDE DEF M
    <3> QED
      BY <2>1, MinNat
  <2> QED
    BY <2>2 DEF LoopLocation
<1> HIDE DEF k, m, M, W
<1>5. k # m
  BY <1>1
<1>6. IsFiniteSet(M) /\ Cardinality(M) \in Nat
  <2>1. IsFiniteSet(1 .. Len(locs))
    BY <1>2, FS_Interval
  <2> QED
    BY <1>2, <2>1, FS_Subset, FS_CardinalityType
<1>7. {k} \cup {m} \in SUBSET M
  BY <1>2, <1>3, <1>4
<1>8. Cardinality({k} \cup {m}) = 2
  <2>1. IsFiniteSet({k}) /\ Cardinality({k}) = 1
    BY FS_Singleton
  <2>2. m \notin {k}
    BY <1>5
  <2> DEFINE T == {k}
             U == T \cup {m}
  <2>3. IsFiniteSet(T) /\ Cardinality(T) = 1 /\ m \notin T
    BY <2>1, <2>2
  <2> HIDE DEF T
  <2>4. Cardinality(U) = Cardinality(T) + 1
    BY <2>3, FS_AddElement
  <2> HIDE DEF U
  <2>5. Cardinality(U) = 2
    BY <2>3, <2>4
  <2> QED
    BY <2>5 DEF T, U
<1>9. 2 <= Cardinality(M)
  BY <1>6, <1>7, <1>8, FS_Subset
<1> QED
  BY <1>6, <1>9 DEF M

\* What the calls find is what Resolve finds, and a crash is one that it foresees.
Resolved ==
    /\ locations \in Seq(Location) /\ Sorted(locations) /\ url \in [Clients -> Seq(NameChars)]
    /\ target = [c \in Clients |-> Resolve(locations, url[c])]
    /\ \A c \in Clients : answer[c] = "crash" => target[c].does = "crash"

LEMMA ResolvedStep == ASSUME TypeOK, Resolved, [Next]_vars PROVE Resolved'
<1>1. DOMAIN answer = Clients
  BY DEF TypeOK
<1>2. ASSUME NEW c \in Clients, GetMethod(c) PROVE Resolved'
  <2>1. UNCHANGED config
    BY <1>2, GetForms
  <2>2. \/ answer' = answer
        \/ \E status \in {"200", "404", target[c].does} : answer' = [answer EXCEPT ![c] = status]
    BY <1>2, GetForms DEF NextBlock, SendHead, Refuse, ListFails
  <2> QED
    BY <1>1, <2>1, <2>2 DEF Resolved, config
<1>3. ASSUME NEW c \in Clients, HangUp(c) PROVE Resolved'
  BY <1>3 DEF HangUp, Resolved, config
<1>4. CASE UNCHANGED vars
  BY <1>4 DEF vars, Resolved, config
<1> QED
  BY <1>2, <1>3, <1>4 DEF Next

(***************************************************************************)
(* For every table of locations and every path: rights come from a longest *)
(* name that occurs; where just one name occurs, as a whole first step, GET *)
(* looks at the file POST and DELETE look at, for all that one cuts off    *)
(* characters from the front and the others what comes before the name     *)
(* too; and only where two names occur can a redirect crash                *)
(* (getMethod.cpp:88-140, configFile.cpp:420-461).                         *)
(***************************************************************************)
THEOREM RoutesAreSound == Spec => []RoutesAgree
<1>1. Init => Resolved
  <2>1. ASSUME Init PROVE Resolved
    <3>1. PICK s \in Scenarios : locations = s.locations /\ url = s.url
      BY <2>1 DEF Init
    <3> QED
      BY <2>1, <3>1, GetAssumption DEF Init, Resolved
  <2> QED
    BY <2>1
<1>2. Resolved => RoutesAgree
  <2> SUFFICES ASSUME Resolved, NEW c \in Clients,
                      Matches(locations, WithoutQuery(url[c])) # {}
               PROVE  LET p == url[c]
                          names == Matches(locations, p)
                          l == locations[GetLocation(locations, WithoutQuery(p))]
                          rest == Drop(p, Len(l.name))
                      IN  /\ \A i \in Matches(locations, WithoutQuery(p)) :
                                Len(locations[i].name) <= Len(l.name)
                          /\ Cardinality(names) = 1 /\ IsAt(p, l.name, 1) /\ WithoutQuery(p) = p
                             /\ (rest = <<>> \/ rest[1] = "/") =>
                                Plain(LoopPath(locations, p) \o Slash) = Plain(GetPath(locations, p) \o Slash)
                          /\ answer[c] = "crash" => Cardinality(names) > 1
    BY DEF RoutesAgree
  <2> DEFINE p == url[c]
             k == GetLocation(locations, WithoutQuery(p))
             l == locations[k]
             rest == Drop(p, Len(l.name))
  <2>1. p \in Seq(NameChars) /\ locations \in Seq(Location) /\ Sorted(locations)
    BY DEF Resolved
  <2>2. /\ k \in Matches(locations, WithoutQuery(p))
        /\ \A i \in Matches(locations, WithoutQuery(p)) : Len(locations[i].name) <= Len(l.name)
    BY <2>1, LongestName
  <2>3. ASSUME Cardinality(Matches(locations, p)) = 1, IsAt(p, l.name, 1), WithoutQuery(p) = p,
               rest = <<>> \/ rest[1] = "/"
        PROVE  Plain(LoopPath(locations, p) \o Slash) = Plain(GetPath(locations, p) \o Slash)
    <3>1. IsFiniteSet(Matches(locations, p))
      <4>1. IsFiniteSet(1 .. Len(locations)) /\ Matches(locations, p) \in SUBSET (1 .. Len(locations))
        BY <2>1, MatchesMore, LenProperties, FS_Interval
      <4> QED
        BY <4>1, FS_Subset
    <3>2. Matches(locations, p) = {k}
      BY <2>2, <2>3, <3>1, FS_Singleton
    <3> HIDE DEF k, p
    <3> QED
      BY <2>1, <2>3, <3>2, SamePlace
  <2>4. answer[c] = "crash" => Cardinality(Matches(locations, p)) > 1
    <3>1. answer[c] = "crash" => Resolve(locations, p).does = "crash"
      BY DEF Resolved
    <3> QED
      BY <2>1, <3>1, CrashOfTwo
  <2> QED
    BY <2>2, <2>3, <2>4
<1> QED
  BY <1>1, <1>2, GetTypeCorrect, ResolvedStep, PTL DEF Spec

===============================================================================
