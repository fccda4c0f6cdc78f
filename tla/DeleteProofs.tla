----------------------------- MODULE DeleteProofs ------------------------------
(***************************************************************************)
(* Proofs about DELETE, for every tree of files, with symbolic links and   *)
(* without.                                                                *)
(***************************************************************************)
EXTENDS Delete, SequenceTheorems, WellFoundedInduction, TLAPS

Frame == [at : Nodes, left : SUBSET Nodes]

\* n is a directory, or a link to one, among the names that exist.
IsDir(n, names) ==
    {n, Resolve(n)} \subseteq names /\ tree.kind[Resolve(n)] = "dir"

(***************************************************************************)
(* The open directories s are a path down from the one of the request,     *)
(* each in the one before or in what that one, a link, points to.  What    *)
(* readdir has still to give need not exist any more: another way to the   *)
(* same directory, through a link, may have removed it.  When nothing is a *)
(* link there is no other way.                                             *)
(***************************************************************************)
Framed(s, names) ==
    \A i \in 1 .. Len(s) :
        /\ IsDir(s[i].at, names)
        /\ \A n \in s[i].left : Parent[n] = Resolve(s[i].at)
        /\ i > 1 => Parent[s[i].at] = Resolve(s[i - 1].at) /\ s[i].at \notin s[i - 1].left
        /\ LinkFree => s[i].left \subseteq names /\ Depth[s[i].at] = Depth[url] + i - 1

(***************************************************************************)
(* w stays in the directory that is open at i: readdir will not give it    *)
(* again, and it is not the one that is open in it, unless that is a link, *)
(* which rmdir leaves.                                                     *)
(***************************************************************************)
Stays(s, i, w) ==
    /\ Parent[w] = Resolve(s[i].at) /\ w \notin s[i].left
    /\ i < Len(s) /\ w = s[i + 1].at => tree.kind[w] = "link"

Stuck(s, names) == \E i \in 1 .. Len(s), w \in names : Stays(s, i, w)

\* Something stays, be it e, even when e is opened next.
StuckBut(s, names, e) ==
    \E i \in 1 .. Len(s), w \in names : Stays(s, i, w) /\ (i = Len(s) => w # e)

\* readdir will give a name that does not exist any more.
Missing(s, names) == \E i \in 1 .. Len(s) : ~(s[i].left \subseteq names)

(***************************************************************************)
(* The status is 500, or a name that is still to come is gone, only when   *)
(* something stays in an open directory; when no directory is open any     *)
(* more, that something is url itself.                                     *)
(***************************************************************************)
Walk ==
    pc = "del" /\ known =>
        /\ status \in {204, 500} /\ Framed(stack, there)
        /\ stack # <<>> => stack[1].at = url
        /\ stack # <<>> /\ status = 500 => Stuck(stack, there)
        /\ Missing(stack, there) => Stuck(stack, there)
        /\ stack = <<>> /\ status = 500 => url \in there
        /\ stack = <<>> /\ status = 204 /\ failed = {} => url \notin there

\* Before the walk of a request.
Started ==
    pc = "call" => status = 204 /\ (known => IsDir(url, there))

Inv == TypeOK /\ Started /\ Walk /\ AnswerTells
-------------------------------------------------------------------------------
\* A call of del_dir puts a directory on the stack.
LEMMA Pushed ==
    ASSUME NEW S, NEW s \in Seq(S), NEW x \in S
    PROVE  /\ Append(s, x) \in Seq(S) /\ Append(s, x) # <<>>
           /\ Len(Append(s, x)) = Len(s) + 1 /\ Len(s) \in Nat
           /\ Append(s, x)[Len(s) + 1] = x
           /\ \A i \in 1 .. Len(s) : Append(s, x)[i] = s[i]
  BY AppendProperties, LenProperties

\* The return of a call takes it off.
LEMMA Popped ==
    ASSUME NEW S, NEW s \in Seq(S), s # <<>>
    PROVE  /\ Front(s) \in Seq(S) /\ Len(Front(s)) = Len(s) - 1
           /\ Len(s) \in Nat \ {0}
           /\ Front(s) = <<>> <=> Len(s) = 1
           /\ \A i \in 1 .. Len(s) - 1 : Front(s)[i] = s[i]
<1>1. Len(s) \in Nat \ {0}
  BY EmptySeq, LenProperties
<1>2. Front(s) = SubSeq(s, 1, Len(s) - 1)
  BY DEF Front
<1> DEFINE n == Len(s) - 1
<1>3. n \in Nat /\ n = Len(s) - 1 /\ 1 \in Int /\ n \in Int /\ n - 1 + 1 = n
  BY <1>1
<1>4. \A i \in 1 .. n : s[i] \in S
  BY <1>1, ElementOfSeq
<1> HIDE DEF n
<1>5. n = 0 \/ 1 <= n
  BY <1>3
<1>6. /\ SubSeq(s, 1, n) \in Seq(S)
      /\ Len(SubSeq(s, 1, n)) = IF 1 <= n THEN n - 1 + 1 ELSE 0
      /\ \A i \in 1 .. n - 1 + 1 : SubSeq(s, 1, n)[i] = s[1 + i - 1]
  BY <1>3, <1>4, SubSeqProperties
<1>7. \A i \in 1 .. n : 1 + i - 1 = i
  BY <1>3
<1>8. /\ Front(s) \in Seq(S) /\ Len(Front(s)) = Len(s) - 1
      /\ \A i \in 1 .. Len(s) - 1 : Front(s)[i] = s[i]
  BY <1>2, <1>3, <1>5, <1>6, <1>7
<1>9. Front(s) = <<>> <=> Len(s) = 1
  BY <1>1, <1>8, EmptySeq
<1> QED
  BY <1>1, <1>8, <1>9

\* readdir takes a name from what it has still to give.
LEMMA Taken ==
    ASSUME NEW s \in Seq(Frame), s # <<>>, NEW e
    PROVE  LET t == [s EXCEPT ![Len(s)].left = @ \ {e}]
           IN  /\ t \in Seq(Frame) /\ Len(t) = Len(s) /\ t # <<>>
               /\ Len(s) \in Nat \ {0}
               /\ \A i \in 1 .. Len(s) : t[i].at = s[i].at
               /\ \A i \in 1 .. Len(s) - 1 : t[i] = s[i]
               /\ t[Len(s)].left = s[Len(s)].left \ {e}
<1> DEFINE t == [s EXCEPT ![Len(s)].left = @ \ {e}]
<1>1. Len(s) \in Nat \ {0}
  BY EmptySeq, LenProperties
<1>2. Len(s) \in 1 .. Len(s) /\ Len(s) \notin 1 .. Len(s) - 1 /\ 1 .. Len(s) - 1 \subseteq 1 .. Len(s)
  BY <1>1
<1>3. s \in [1 .. Len(s) -> Frame]
  BY LenProperties
<1>4. s[Len(s)] \in Frame
  BY <1>2, <1>3
<1>5. [s[Len(s)] EXCEPT !.left = @ \ {e}] \in Frame
  BY <1>4 DEF Frame
<1>6. t \in [1 .. Len(s) -> Frame]
  BY <1>2, <1>3, <1>5
<1>7. /\ \A i \in 1 .. Len(s) - 1 : t[i] = s[i]
      /\ t[Len(s)] = [s[Len(s)] EXCEPT !.left = @ \ {e}]
  BY <1>2, <1>3
<1>8. t[Len(s)].at = s[Len(s)].at /\ t[Len(s)].left = s[Len(s)].left \ {e}
  BY <1>4, <1>7 DEF Frame
<1>9. \A i \in 1 .. Len(s) : i \in 1 .. Len(s) - 1 \/ i = Len(s)
  BY <1>1
<1>10. \A i \in 1 .. Len(s) : t[i].at = s[i].at
  BY <1>7, <1>8, <1>9
<1> HIDE DEF t
<1>11. t \in Seq(Frame) /\ Len(t) = Len(s)
  BY <1>1, <1>6, LenProperties
<1>12. t # <<>>
  BY <1>1, <1>11, EmptySeq
<1> QED
  BY <1>1, <1>7, <1>8, <1>10, <1>11, <1>12 DEF t
-------------------------------------------------------------------------------
\* What a call of del_dir does to the types.
LEMMA DelDirType ==
    ASSUME TypeOK, NEW n \in Nodes, NEW slash, NEW below \in Seq(Frame),
           DelDir(n, slash, below)
    PROVE  /\ there' \subseteq Nodes /\ failed' \subseteq Nodes
           /\ status' \in {status, 500} /\ stack' \in Seq(Frame)
<1>1. there \subseteq Nodes /\ failed \subseteq Nodes
  BY DEF TypeOK
<1>2. [at |-> n, left |-> Entries(Resolve(n))] \in Frame
  BY <1>1 DEF Frame, Entries
<1>3. Append(below, [at |-> n, left |-> Entries(Resolve(n))]) \in Seq(Frame)
  BY <1>2, AppendProperties
<1> QED
  BY <1>1, <1>3 DEF DelDir, Try

\* Every step keeps the types.
LEMMA TypeStep == ASSUME TypeOK, [Next]_vars PROVE TypeOK'
<1>1. stack \in Seq(Frame) /\ there \subseteq Nodes /\ failed \subseteq Nodes
  BY DEF TypeOK, Frame
<1>2. ASSUME stack # <<>>
      PROVE  /\ Top.at \in Nodes /\ Top.left \subseteq Nodes /\ Front(stack) \in Seq(Frame)
  <2>1. Len(stack) \in 1 .. Len(stack)
    BY <1>1, <1>2, EmptySeq
  <2>2. Top \in Frame
    BY <1>1, <2>1, ElementOfSeq DEF Top
  <2> QED
    BY <1>1, <1>2, <2>2, Popped DEF Frame
<1>3. ASSUME DeleteRequest PROVE TypeOK'
  <2>1. requests' \in 0 .. MaxRequests
    BY <1>3, DeleteAssumption DEF TypeOK, DeleteRequest
  <2>2. known' \in BOOLEAN
    BY <1>3 DEF DeleteRequest, Stats
  <2>3. there' \subseteq Nodes /\ failed' \subseteq Nodes /\ before' \subseteq Nodes /\ url' \in Nodes
    BY <1>1, <1>3 DEF DeleteRequest
  <2>4. status' = 204 /\ answer' \in Statuses /\ pc' \in {"idle", "call", "del"}
    BY <1>3 DEF TypeOK, DeleteRequest, InitStatus, Statuses
  <2> QED
    BY <1>3, <2>1, <2>2, <2>3, <2>4 DEF TypeOK, DeleteRequest, Dirs, Statuses
<1>4. ASSUME Call PROVE TypeOK'
  <2>1. url \in Nodes
    BY <1>4 DEF Call, TypeOK
  <2>2. << >> \in Seq(Frame) /\ DelDir(url, TRUE, << >>)
    BY <1>4, EmptySeq DEF Call
  <2>3. /\ there' \subseteq Nodes /\ failed' \subseteq Nodes
        /\ status' \in {status, 500} /\ stack' \in Seq(Frame)
    BY <2>1, <2>2, DelDirType
  <2> QED
    BY <1>4, <2>3 DEF TypeOK, Call, request, Statuses, Frame
<1>5. ASSUME ReadEntry PROVE TypeOK'
  <2>1. there' \subseteq Nodes /\ failed' \subseteq Nodes /\ status' \in {status, 500}
        /\ stack' \in Seq(Frame)
    <3>1. CASE Passes(Resolve(Top.at))
      <4>1. PICK e \in Top.left :
                DelDir(e, FALSE, [stack EXCEPT ![Len(stack)].left = @ \ {e}])
        BY <1>5, <3>1 DEF ReadEntry
      <4>2. e \in Nodes /\ [stack EXCEPT ![Len(stack)].left = @ \ {e}] \in Seq(Frame)
        BY <1>1, <1>2, <1>5, <4>1, Taken, ZenonT(30) DEF ReadEntry
      <4> QED
        BY <4>1, <4>2, DelDirType, ZenonT(40)
    <3>2. CASE ~Passes(Resolve(Top.at))
      BY <1>1, <1>2, <1>5, <3>2 DEF ReadEntry
    <3> QED
      BY <3>1, <3>2
  <2> QED
    BY <1>5, <2>1 DEF TypeOK, ReadEntry, request, Statuses, Frame
<1>6. ASSUME DirDone PROVE TypeOK'
  <2>1. Top.at \in Nodes /\ Front(stack) \in Seq(Frame)
    BY <1>2, <1>6 DEF DirDone
  <2>2. there' \subseteq Nodes /\ failed' \subseteq Nodes /\ status' \in {status, 500}
    BY <1>1, <1>6, <2>1 DEF DirDone, Try
  <2> QED
    BY <1>6, <2>1, <2>2 DEF TypeOK, DirDone, request, Statuses, Frame
<1>7. ASSUME Throw PROVE TypeOK'
  BY <1>7 DEF TypeOK, Throw, request
<1>8. CASE UNCHANGED vars
  BY <1>8 DEF TypeOK, vars
<1> QED
  BY <1>3, <1>4, <1>5, <1>6, <1>7, <1>8 DEF Next

\* The first state has the types.
LEMMA TypeInit == Init => TypeOK
<1>1. << >> \in Seq([at : Nodes, left : SUBSET Nodes]) /\ 0 \in 0 .. MaxRequests
  BY DeleteAssumption, EmptySeq
<1> QED
  BY <1>1, ZenonT(30) DEF Init, TypeOK, Statuses, Dirs

(***************************************************************************)
(* The types of all variables, for every set of trees and any number of    *)
(* requests: the status and the answers are those of delete.cpp, and only  *)
(* roots of locations, and names below them or where links lead, are ever  *)
(* open or removed, not the directory the root lies in.                    *)
(***************************************************************************)
THEOREM WalkTypeCorrect == Spec => []TypeOK
<1> QED
  BY TypeInit, TypeStep, PTL DEF Spec
-------------------------------------------------------------------------------
\* Of a set of names that is not empty, one that is nearest to Base.
LEMMA Nearest ==
    ASSUME NEW S \in SUBSET Nodes, S # {}
    PROVE  \E n \in S : \A m \in S : Depth[n] <= Depth[m]
<1> DEFINE D == {Depth[n] : n \in S}
<1>1. D \subseteq Nat /\ D # {}
  BY DeleteAssumption DEF Dirs
<1>2. PICK d \in D : \A x \in D : ~(x < d)
  <2> DEFINE R == {p \in Nat \X Nat : p[1] < p[2]}
  <2>1. IsWellFoundedOn(R, Nat)
    BY NatLessThanWellFounded DEF OpToRel
  <2> HIDE DEF D
  <2>2. PICK x \in D : \A y \in D : <<y, x>> \notin R
    BY <1>1, <2>1, WFMin
  <2> QED
    BY <1>1, <2>2
<1>3. PICK n \in S : Depth[n] = d
  BY <1>2
<1>4. ASSUME NEW m \in S PROVE Depth[n] <= Depth[m]
  <2>1. Depth[m] \in D /\ Depth[m] \in Nat /\ d \in Nat
    BY <1>1
  <2> QED
    BY <1>2, <1>3, <2>1
<1> QED
  BY <1>4

\* A name is deeper than the directory it is in.
LEMMA Deeper ==
    ASSUME NEW n \in Nodes, Parent[n] \in Nodes
    PROVE  /\ Depth[n] \in Nat /\ Depth[Parent[n]] \in Nat
           /\ ~(Depth[n] <= Depth[Parent[n]])
<1>1. Depth[n] \in Nat /\ Depth[Parent[n]] \in Nat /\ Depth[n] = Depth[Parent[n]] + 1
  BY DeleteAssumption DEF Dirs
<1> QED
  BY <1>1

(***************************************************************************)
(* Of two open directories that are the same one, the inner was reached    *)
(* through a link, and that link stays.                                    *)
(***************************************************************************)
LEMMA LinkBetween ==
    ASSUME TypeOK, NEW s \in Seq(Frame), NEW names \in SUBSET Nodes, Framed(s, names),
           NEW i \in 1 .. Len(s), NEW j \in 1 .. Len(s), i < j,
           Resolve(s[i].at) = Resolve(s[j].at)
    PROVE  \E k \in i .. j - 1 :
             /\ k \in 1 .. Len(s) /\ k + 1 \in 1 .. Len(s) /\ s[k + 1].at \in names
             /\ tree.kind[s[k + 1].at] = "link" /\ Stays(s, k, s[k + 1].at)
<1>1. Len(s) \in Nat /\ i \in Nat /\ j \in Nat /\ 1 <= i /\ j <= Len(s)
  BY LenProperties
<1>2. \A k \in 1 .. Len(s) : s[k].at \in Nodes /\ s[k].at \in names
  BY DEF Framed, IsDir
<1>3. PICK k \in i + 1 .. j : tree.kind[s[k].at] = "link"
  <2> SUFFICES ASSUME \A k \in i + 1 .. j : tree.kind[s[k].at] # "link" PROVE FALSE
    OBVIOUS
  <2> DEFINE S == {s[k].at : k \in i + 1 .. j}
  <2>1. \A k \in i + 1 .. j : k \in 1 .. Len(s) /\ k > 1 /\ (k = i + 1 \/ k - 1 \in i + 1 .. j)
    BY <1>1
  <2>2. S \in SUBSET Nodes /\ s[j].at \in S
    BY <1>1, <1>2, <2>1
  <2>3. PICK n \in S : \A m \in S : Depth[n] <= Depth[m]
    <3> HIDE DEF S
    <3> QED
      BY <2>2, Nearest
  <2>4. PICK k \in i + 1 .. j : n = s[k].at
    OBVIOUS
  <2>5. Parent[n] = Resolve(s[k - 1].at)
    BY <2>1, <2>4 DEF Framed
  <2>6. Parent[n] \in S
    <3>1. CASE k = i + 1
      <4>1. k - 1 = i /\ Resolve(s[j].at) = s[j].at
        BY <1>1, <3>1 DEF Resolve
      <4> QED
        BY <2>2, <2>5, <4>1
    <3>2. CASE k - 1 \in i + 1 .. j
      BY <2>5, <3>2 DEF Resolve
    <3> QED
      BY <2>1, <3>1, <3>2
  <2> HIDE DEF S
  <2> QED
    BY <2>2, <2>3, <2>6, Deeper
<1>4. k \in 1 .. Len(s) /\ k - 1 \in 1 .. Len(s) /\ k > 1 /\ k - 1 \in i .. j - 1 /\ (k - 1) + 1 = k
  BY <1>1
<1>5. Stays(s, k - 1, s[k].at)
  BY <1>3, <1>4 DEF Stays, Framed
<1> QED
  BY <1>2, <1>3, <1>4, <1>5

\* readdir gives e, which stays or is removed.
LEMMA EntryGiven ==
    ASSUME TypeOK, stack # <<>>, Framed(stack, there),
           NEW e \in Top.left, NEW names \in {there, there \ {e}},
           names # there => ~IsDir(e, there)
    PROVE  LET s == [stack EXCEPT ![Len(stack)].left = @ \ {e}]
           IN  /\ s \in Seq(Frame) /\ s # <<>> /\ s[1].at = stack[1].at
               /\ e \in Nodes /\ Parent[e] = Resolve(s[Len(s)].at) /\ e \notin s[Len(s)].left
               /\ Framed(s, names)
               /\ Stuck(stack, there) => StuckBut(s, names, e)
               /\ Missing(s, names) => Missing(stack, there) \/ StuckBut(s, names, e)
               /\ e \in names => Stuck(s, names)
               /\ e \in there \/ Missing(stack, there)
<1> DEFINE s == [stack EXCEPT ![Len(stack)].left = @ \ {e}]
<1>1. stack \in Seq(Frame) /\ there \in SUBSET Nodes
  BY DEF TypeOK, Frame
<1>2. /\ s \in Seq(Frame) /\ Len(s) = Len(stack) /\ s # <<>> /\ Len(stack) \in Nat \ {0}
      /\ \A i \in 1 .. Len(stack) : s[i].at = stack[i].at
      /\ \A i \in 1 .. Len(stack) - 1 : s[i] = stack[i]
      /\ s[Len(stack)].left = stack[Len(stack)].left \ {e}
  BY <1>1, Taken
<1> HIDE DEF s
<1> DEFINE k == Len(stack)
<1>3. k \in Nat \ {0} /\ k \in 1 .. k /\ Len(s) = k /\ k = Len(stack) /\ 1 \in 1 .. k
  BY <1>2
<1>4. Top = stack[k]
  BY DEF Top
<1> HIDE DEF k
<1>5. e \in Nodes /\ Parent[e] = Resolve(stack[k].at)
  <2>1. stack[k] \in Frame
    BY <1>1, <1>3, ElementOfSeq
  <2> QED
    BY <1>3, <1>4, <2>1 DEF Framed, Frame
<1>6. \A i \in 1 .. k : s[i].at = stack[i].at /\ s[i].left \subseteq stack[i].left
  BY <1>2, <1>3
<1>7. e \notin s[k].left /\ \A i \in 1 .. k : i = k \/ i < k
  BY <1>2, <1>3
<1>8. \A i \in 1 .. k : e \in s[i].left => i < k /\ Resolve(stack[i].at) = Resolve(stack[k].at)
  BY <1>3, <1>5, <1>6, <1>7 DEF Framed
<1>9. \A n \in Nodes : IsDir(n, there) => IsDir(n, names)
  <2> SUFFICES ASSUME NEW n \in Nodes, IsDir(n, there), names = there \ {e}, names # there
               PROVE  IsDir(n, names)
    OBVIOUS
  <2>1. e \in there /\ ~IsDir(e, there)
    OBVIOUS
  <2>2. e # n
    BY <2>1
  <2>3. e # Resolve(n)
    <3> SUFFICES ASSUME e = Resolve(n) PROVE FALSE
      OBVIOUS
    <3>1. tree.kind[e] = "dir" /\ Resolve(e) = e
      BY DEF IsDir, Resolve
    <3> QED
      BY <2>1, <3>1 DEF IsDir
  <2> QED
    BY <2>2, <2>3 DEF IsDir
<1>10. Framed(s, names)
  <2> SUFFICES ASSUME NEW i \in 1 .. k
               PROVE  /\ IsDir(s[i].at, names)
                      /\ \A n \in s[i].left : Parent[n] = Resolve(s[i].at)
                      /\ i > 1 => Parent[s[i].at] = Resolve(s[i - 1].at)
                                  /\ s[i].at \notin s[i - 1].left
                      /\ LinkFree => s[i].left \subseteq names
                                     /\ Depth[s[i].at] = Depth[url] + i - 1
    BY <1>3 DEF Framed
  <2>1. /\ IsDir(stack[i].at, there)
        /\ \A n \in stack[i].left : Parent[n] = Resolve(stack[i].at)
        /\ i > 1 => Parent[stack[i].at] = Resolve(stack[i - 1].at)
                    /\ stack[i].at \notin stack[i - 1].left
        /\ LinkFree => stack[i].left \subseteq there /\ Depth[stack[i].at] = Depth[url] + i - 1
    BY <1>3 DEF Framed
  <2>2. i > 1 => i - 1 \in 1 .. k
    BY <1>3
  <2>3. stack[i].at \in Nodes
    BY <1>1, <2>1 DEF IsDir
  <2>4. LinkFree => e \notin s[i].left
    <3> SUFFICES ASSUME LinkFree, e \in s[i].left PROVE FALSE
      OBVIOUS
    <3>1. i < k /\ Resolve(stack[i].at) = Resolve(stack[k].at)
      BY <1>8
    <3>2. \E m \in 1 .. Len(stack) : tree.kind[stack[m].at] = "link" /\ stack[m].at \in there
      BY <1>1, <1>3, <3>1, LinkBetween
    <3> QED
      BY <1>1, <3>2 DEF LinkFree
  <2> QED
    BY <1>6, <1>9, <2>1, <2>2, <2>3, <2>4
<1>11. ASSUME NEW i \in 1 .. k, i < k, Resolve(s[i].at) = Resolve(s[k].at)
       PROVE  StuckBut(s, names, e)
  <2>1. PICK m \in i .. k - 1 : m \in 1 .. Len(s) /\ s[m + 1].at \in names /\ Stays(s, m, s[m + 1].at)
    <3>1. names \in SUBSET Nodes
      BY <1>1
    <3> QED
      BY <1>2, <1>3, <1>10, <1>11, <3>1, LinkBetween
  <2>2. m # k
    BY <1>3
  <2> QED
    BY <1>3, <2>1, <2>2 DEF StuckBut
<1>12. ASSUME Stuck(stack, there) PROVE StuckBut(s, names, e)
  <2>1. PICK i \in 1 .. k, w \in there : Stays(stack, i, w)
    BY <1>3, <1>12 DEF Stuck
  <2>2. Stays(s, i, w)
    <3>1. i < k => i + 1 \in 1 .. k
      BY <1>3
    <3> QED
      BY <2>1, <3>1, <1>3, <1>6 DEF Stays
  <2>3. CASE i = k
    <3>1. w # e
      BY <1>4, <2>1, <2>3 DEF Stays
    <3> QED
      BY <1>3, <2>2, <3>1 DEF StuckBut
  <2>4. CASE i < k /\ w # e
    BY <1>3, <2>2, <2>4 DEF StuckBut
  <2>5. CASE i < k /\ w = e
    BY <1>3, <1>5, <1>6, <1>11, <2>1, <2>5 DEF Stays
  <2> QED
    BY <1>7, <2>3, <2>4, <2>5
<1>13. ASSUME Missing(s, names) PROVE Missing(stack, there) \/ StuckBut(s, names, e)
  <2> PICK i \in 1 .. k : ~(s[i].left \subseteq names)
    BY <1>3, <1>13 DEF Missing
  <2>1. PICK m \in s[i].left : m \notin names
    OBVIOUS
  <2>2. CASE m \notin there
    BY <1>3, <1>6, <2>1, <2>2 DEF Missing
  <2>3. CASE m = e
    BY <1>3, <1>6, <1>8, <1>11, <2>1, <2>3
  <2> QED
    BY <2>1, <2>2, <2>3
<1>14. ASSUME e \in names PROVE Stuck(s, names)
  <2>1. Stays(s, k, e)
    <3>1. Parent[e] = Resolve(s[k].at) /\ e \notin s[k].left /\ ~(k < k)
      BY <1>3, <1>5, <1>6, <1>7
    <3> QED
      BY <3>1, <1>3 DEF Stays
  <2> QED
    BY <2>1, <1>3, <1>14 DEF Stuck
<1>15. e \in there \/ Missing(stack, there)
  BY <1>3, <1>4 DEF Missing
<1> QED
  BY <1>2, <1>3, <1>5, <1>6, <1>7, <1>10, <1>12, <1>13, <1>14, <1>15 DEF s

\* The walk goes into e.
LEMMA EntryOpened ==
    ASSUME TypeOK, url \in Nodes, NEW s \in Seq(Frame), s # <<>>, Framed(s, there),
           NEW e \in there, Parent[e] = Resolve(s[Len(s)].at), e \notin s[Len(s)].left,
           IsDir(e, there)
    PROVE  LET t == Append(s, [at |-> e, left |-> Entries(Resolve(e))])
           IN  /\ t \in Seq(Frame) /\ t # <<>> /\ t[1] = s[1]
               /\ Framed(t, there)
               /\ StuckBut(s, there, e) => Stuck(t, there)
               /\ Missing(t, there) => Missing(s, there)
<1> DEFINE x == [at |-> e, left |-> Entries(Resolve(e))]
           t == Append(s, x)
           k == Len(s)
<1>1. e \in Nodes /\ there \in SUBSET Nodes
  BY DEF TypeOK
<1>2. x \in Frame /\ x.at = e /\ x.left = Entries(Resolve(e)) /\ x.left \subseteq there
  BY <1>1 DEF Frame, Entries
<1> HIDE DEF x
<1>3. k \in Nat \ {0} /\ k = Len(s)
  BY EmptySeq
<1>4. /\ t \in Seq(Frame) /\ t # <<>> /\ Len(t) = k + 1 /\ t[k + 1] = x
      /\ \A i \in 1 .. k : t[i] = s[i]
  BY <1>2, Pushed
<1> HIDE DEF t, k
<1>5. Framed(t, there)
  <2> SUFFICES ASSUME NEW i \in 1 .. k + 1
               PROVE  /\ IsDir(t[i].at, there)
                      /\ \A n \in t[i].left : Parent[n] = Resolve(t[i].at)
                      /\ i > 1 => Parent[t[i].at] = Resolve(t[i - 1].at)
                                  /\ t[i].at \notin t[i - 1].left
                      /\ LinkFree => t[i].left \subseteq there
                                     /\ Depth[t[i].at] = Depth[url] + i - 1
    BY <1>3, <1>4 DEF Framed
  <2>1. CASE i \in 1 .. k
    <3>1. /\ IsDir(s[i].at, there)
          /\ \A n \in s[i].left : Parent[n] = Resolve(s[i].at)
          /\ i > 1 => Parent[s[i].at] = Resolve(s[i - 1].at) /\ s[i].at \notin s[i - 1].left
          /\ LinkFree => s[i].left \subseteq there /\ Depth[s[i].at] = Depth[url] + i - 1
      BY <1>3, <2>1 DEF Framed
    <3>2. i > 1 => i - 1 \in 1 .. k
      BY <1>3, <2>1
    <3> QED
      BY <1>4, <2>1, <3>1, <3>2
  <2>2. CASE i = k + 1
    <3>1. t[i].at = e /\ t[i].left = Entries(Resolve(e))
      BY <1>2, <1>4, <2>2
    <3>2. k \in 1 .. k /\ i - 1 = k /\ t[i - 1] = s[k]
      BY <1>3, <1>4, <2>2
    <3>3. ASSUME LinkFree PROVE Depth[e] = Depth[url] + i - 1
      <4>1. s[k].at \in Nodes /\ Depth[s[k].at] = Depth[url] + k - 1
        BY <1>1, <1>3, <3>2, <3>3 DEF Framed, IsDir
      <4>2. Parent[e] = s[k].at
        BY <1>3, <3>3, <4>1 DEF LinkFree, Resolve
      <4>3. Depth[e] = Depth[s[k].at] + 1 /\ Depth[url] \in Nat
        BY <1>1, <4>2, DeleteAssumption DEF Dirs
      <4> QED
        BY <1>3, <2>2, <4>1, <4>3
    <3> QED
      BY <1>3, <3>1, <3>2, <3>3 DEF Entries
  <2> QED
    BY <1>3, <2>1, <2>2
<1>6. ASSUME StuckBut(s, there, e) PROVE Stuck(t, there)
  <2>1. PICK i \in 1 .. k, w \in there : Stays(s, i, w) /\ (i = k => w # e)
    BY <1>3, <1>6 DEF StuckBut
  <2>2. Stays(t, i, w)
    <3>1. t[i] = s[i] /\ (i + 1 \in 1 .. k \/ i + 1 = k + 1) /\ i \in 1 .. k + 1
      BY <1>3, <1>4
    <3>2. CASE i + 1 \in 1 .. k
      <4>1. t[i + 1] = s[i + 1] /\ i < k
        BY <1>3, <1>4, <3>2
      <4> QED
        BY <2>1, <3>1, <4>1, <1>3 DEF Stays
    <3>3. CASE i + 1 = k + 1
      <4>1. t[i + 1].at = e /\ i = k
        BY <1>2, <1>3, <1>4, <3>3
      <4> QED
        BY <2>1, <3>1, <4>1 DEF Stays
    <3> QED
      BY <3>1, <3>2, <3>3
  <2>3. i \in 1 .. k + 1
    BY <1>3
  <2> QED
    BY <2>1, <2>2, <2>3, <1>4 DEF Stuck
<1>7. t[1] = s[1]
  BY <1>3, <1>4
<1>8. ASSUME Missing(t, there) PROVE Missing(s, there)
  <2>1. PICK i \in 1 .. k + 1 : ~(t[i].left \subseteq there)
    BY <1>4, <1>8 DEF Missing
  <2>2. i # k + 1
    BY <1>2, <1>4, <2>1
  <2>3. i \in 1 .. k
    BY <1>3, <2>2
  <2> QED
    BY <1>3, <1>4, <2>1, <2>3 DEF Missing
<1> QED
  BY <1>4, <1>5, <1>6, <1>7, <1>8 DEF t, x

(***************************************************************************)
(* The walk comes back from a directory below the first one, and has       *)
(* removed it or not.                                                      *)
(***************************************************************************)
LEMMA DirLeft ==
    ASSUME TypeOK, Len(stack) > 1, Framed(stack, there),
           NEW names \in {there, there \ {Top.at}},
           names # there => tree.kind[Top.at] = "dir" /\ Entries(Top.at) = {}
    PROVE  LET s == Front(stack)
           IN  /\ s # <<>> /\ s[1] = stack[1] /\ Framed(s, names)
               /\ Top.at \in names => Stuck(s, names)
               /\ Stuck(stack, there) => Stuck(s, names)
               /\ Missing(s, names) => Missing(stack, there) \/ Stuck(s, names)
<1> DEFINE s == Front(stack)
           k == Len(stack) - 1
           d == stack[k + 1].at
<1>1. stack \in Seq(Frame) /\ there \in SUBSET Nodes
  BY DEF TypeOK, Frame
<1>2. stack # <<>> /\ Len(stack) \in Nat
  BY <1>1, EmptySeq, LenProperties
<1>3. Len(stack) - 1 \in Nat \ {0} /\ Len(stack) = (Len(stack) - 1) + 1
  <2>1. \A n \in Nat : n > 1 => n - 1 \in Nat \ {0} /\ n = (n - 1) + 1
    OBVIOUS
  <2> QED
    BY <1>2, <2>1, Zenon
<1>4. /\ s \in Seq(Frame) /\ Len(s) = k
      /\ \A i \in 1 .. k : s[i] = stack[i]
  BY <1>1, <1>2, Popped
<1>5. k \in Nat \ {0} /\ Len(stack) = k + 1
  BY <1>3
<1> HIDE DEF s, k
<1>6. /\ k \in Nat \ {0} /\ Len(stack) = k + 1 /\ k \in 1 .. k /\ k + 1 \in 1 .. k + 1
      /\ 1 .. k \subseteq 1 .. k + 1 /\ k # k + 1
      /\ \A i \in 1 .. k : i + 1 \in 1 .. k + 1 /\ i + 1 > 1 /\ (i + 1) - 1 = i
                           /\ (i = k \/ (i < k /\ i + 1 \in 1 .. k))
  BY <1>5
<1>7. Top.at = d
  BY <1>6 DEF Top
<1>8. s # <<>> /\ s[1] = stack[1]
  BY <1>6, <1>4, EmptySeq
<1>9. d \in there /\ Parent[d] = Resolve(stack[k].at) /\ d \notin stack[k].left
  <2>1. k + 1 > 1 /\ k + 1 - 1 = k
    BY <1>6
  <2> QED
    BY <1>6, <2>1 DEF Framed, IsDir
<1>10. \A i \in 1 .. k : stack[i + 1].at \in there /\ Parent[stack[i + 1].at] = Resolve(stack[i].at)
  BY <1>6 DEF Framed, IsDir
<1>11. ASSUME names # there
       PROVE  names = there \ {d} /\ tree.kind[d] = "dir" /\ Resolve(d) = d /\ Entries(d) = {}
  BY <1>7, <1>11 DEF Resolve
<1>12. ASSUME NEW i \in 1 .. k PROVE IsDir(stack[i].at, names)
  <2>1. IsDir(stack[i].at, there)
    BY <1>6 DEF Framed
  <2>2. CASE names # there
    <3>1. Resolve(stack[i].at) # d
      BY <1>10, <1>11, <2>2 DEF Entries
    <3>2. stack[i].at # d
      BY <1>11, <2>2, <3>1
    <3> QED
      BY <1>11, <2>1, <2>2, <3>1, <3>2 DEF IsDir
  <2> QED
    BY <2>1, <2>2
<1>13. \A i \in 1 .. k : d \in stack[i].left => i < k /\ Resolve(stack[i].at) = Resolve(stack[k].at)
  BY <1>6, <1>9 DEF Framed
<1> HIDE DEF d
<1>14. Framed(s, names)
  <2> SUFFICES ASSUME NEW i \in 1 .. k
               PROVE  /\ IsDir(s[i].at, names)
                      /\ \A n \in s[i].left : Parent[n] = Resolve(s[i].at)
                      /\ i > 1 => Parent[s[i].at] = Resolve(s[i - 1].at)
                                  /\ s[i].at \notin s[i - 1].left
                      /\ LinkFree => s[i].left \subseteq names
                                     /\ Depth[s[i].at] = Depth[url] + i - 1
    BY <1>4 DEF Framed
  <2>1. /\ \A n \in stack[i].left : Parent[n] = Resolve(stack[i].at)
        /\ i > 1 => Parent[stack[i].at] = Resolve(stack[i - 1].at)
                    /\ stack[i].at \notin stack[i - 1].left
        /\ LinkFree => stack[i].left \subseteq there /\ Depth[stack[i].at] = Depth[url] + i - 1
    BY <1>6 DEF Framed
  <2>2. i > 1 => i - 1 \in 1 .. k
    BY <1>6
  <2>3. LinkFree => d \notin stack[i].left
    <3> SUFFICES ASSUME LinkFree, d \in stack[i].left PROVE FALSE
      OBVIOUS
    <3>1. i < k /\ Resolve(stack[i].at) = Resolve(stack[k].at)
      BY <1>13
    <3>2. i \in 1 .. Len(stack) /\ k \in 1 .. Len(stack)
      BY <1>6
    <3>3. \E m \in 1 .. Len(stack) : tree.kind[stack[m].at] = "link" /\ stack[m].at \in there
      BY <1>1, <3>1, <3>2, LinkBetween
    <3> QED
      BY <1>1, <3>3 DEF LinkFree
  <2> QED
    BY <1>4, <1>7, <1>12, <2>1, <2>2, <2>3
<1>15. ASSUME NEW i \in 1 .. k, i < k, Resolve(stack[i].at) = Resolve(stack[k].at)
       PROVE  Stuck(s, names)
  <2>1. names \in SUBSET Nodes /\ Resolve(s[i].at) = Resolve(s[k].at)
    BY <1>1, <1>4, <1>6, <1>15
  <2>2. PICK m \in i .. k - 1 : m \in 1 .. Len(s) /\ s[m + 1].at \in names /\ Stays(s, m, s[m + 1].at)
    BY <1>4, <1>6, <1>14, <1>15, <2>1, LinkBetween
  <2> QED
    BY <2>2 DEF Stuck
<1>16. ASSUME d \in names PROVE Stuck(s, names)
  <2>1. Stays(s, k, d)
    <3>1. Parent[d] = Resolve(s[k].at) /\ d \notin s[k].left /\ ~(k < k)
      BY <1>6, <1>4, <1>9
    <3> QED
      BY <3>1, <1>4 DEF Stays
  <2> QED
    BY <2>1, <1>6, <1>4, <1>16 DEF Stuck
<1>17. ASSUME Stuck(stack, there), d \notin names PROVE Stuck(s, names)
  <2>1. PICK i \in 1 .. k + 1, w \in there : Stays(stack, i, w)
    BY <1>6, <1>17 DEF Stuck
  <2>2. names = there \ {d} /\ tree.kind[d] = "dir" /\ Resolve(d) = d /\ Entries(d) = {}
    BY <1>9, <1>11, <1>17
  <2>3. i \in 1 .. k
    <3>1. i = k + 1 => Parent[w] = d
      BY <2>1, <2>2 DEF Stays, d
    <3>2. i # k + 1
      BY <2>2, <3>1 DEF Entries
    <3> QED
      BY <3>2, <1>6
  <2>4. /\ Parent[w] = Resolve(stack[i].at) /\ w \notin stack[i].left
        /\ w = stack[i + 1].at => tree.kind[w] = "link"
    BY <1>6, <2>1, <2>3 DEF Stays
  <2>5. CASE w = d
    <3>1. i # k
      BY <2>2, <2>4, <2>5 DEF d
    <3> QED
      BY <1>6, <1>9, <1>15, <2>3, <2>4, <2>5, <3>1
  <2>6. CASE w # d
    <3>1. Stays(s, i, w)
      BY <1>4, <1>6, <2>3, <2>4 DEF Stays
    <3> QED
      BY <1>4, <2>2, <2>3, <2>6, <3>1 DEF Stuck
  <2> QED
    BY <2>5, <2>6
<1>18. ASSUME Missing(s, names) PROVE Missing(stack, there) \/ Stuck(s, names)
  <2> PICK i \in 1 .. k : ~(stack[i].left \subseteq names)
    BY <1>4, <1>18 DEF Missing
  <2>1. PICK m \in stack[i].left : m \notin names
    OBVIOUS
  <2>2. CASE m \notin there
    BY <1>6, <2>1, <2>2 DEF Missing
  <2>3. CASE m = d
    BY <1>13, <1>15, <2>1, <2>3
  <2> QED
    BY <1>7, <2>1, <2>2, <2>3
<1> QED
  BY <1>7, <1>8, <1>14, <1>16, <1>17, <1>18 DEF s

LEMMA OneOrMore == \A k \in Nat \ {0} : k = 1 \/ k > 1
  OBVIOUS
-------------------------------------------------------------------------------
\* What a call of del_dir does with a name, whether it exists or not.
LEMMA DelDirForms ==
    ASSUME TypeOK, NEW n \in Nodes, NEW slash \in BOOLEAN, slash => IsDir(n, there),
           NEW below, DelDir(n, slash, below)
    PROVE  \/ /\ IsDir(n, there)
              /\ stack' = Append(below, [at |-> n, left |-> Entries(Resolve(n))])
              /\ there' = there /\ failed' = failed /\ status' = status
           \/ /\ ~IsDir(n, there) /\ stack' = below /\ there' = there \ {n}
              /\ failed' = failed /\ status' = status
           \/ /\ ~slash /\ stack' = below /\ there' = there
              /\ failed' = failed \cup {n} /\ status' = status
           \/ /\ stack' = below /\ there' = there
              /\ failed' = failed /\ status' = 500
<1>1. IsDir(n, there) <=> Stats(n, TRUE)
  BY DEF IsDir, Stats
<1>2. IsDir(n, there) => Mode(n, slash) = {"dir"}
  BY DEF IsDir, Stats, Mode
<1>3. PICK mode \in Mode(n, slash) :
        \/ /\ mode = "dir" /\ Lists(n)
           /\ stack' = Append(below, [at |-> n, left |-> Entries(Resolve(n))])
           /\ UNCHANGED <<there, failed, status>>
        \/ /\ mode = "file"
           /\ Try(CanRemove(n, slash), n)
           /\ stack' = below /\ UNCHANGED status
        \/ /\ mode = "other" \/ (mode = "dir" /\ ~Lists(n))
           /\ status' = 500 /\ stack' = below
           /\ UNCHANGED <<there, failed>>
  BY DEF DelDir
<1>4. Lists(n) => IsDir(n, there)
  BY <1>1 DEF Lists
<1>5. mode = "file" => ~IsDir(n, there) /\ ~slash
  BY <1>2
<1> QED
  BY <1>3, <1>4, <1>5 DEF Try

\* The first call of a walk.
LEMMA WalkStarts == ASSUME Inv, Call PROVE Walk'
<1> SUFFICES ASSUME known PROVE Walk'
  BY DEF Call, request, Walk
<1>1. /\ TypeOK /\ IsDir(url, there) /\ url \in there /\ url \in Nodes
      /\ status = 204 /\ UNCHANGED <<tree, url>>
  BY DEF Inv, TypeOK, Started, IsDir, Call, request
<1>2. CASE stack' = Append(<<>>, [at |-> url, left |-> Entries(Resolve(url))])
           /\ there' = there /\ status' = status
  <2> DEFINE x == [at |-> url, left |-> Entries(Resolve(url))]
  <2>1. /\ x \in Frame /\ x.at = url /\ x.left = Entries(Resolve(url))
        /\ x.left \subseteq there /\ \A n \in x.left : Parent[n] = Resolve(url)
    BY <1>1 DEF Frame, Entries, TypeOK
  <2> HIDE DEF x
  <2>2. Len(stack') = 1 /\ stack'[1] = x /\ stack' # <<>>
    BY <1>2, <2>1, EmptySeq, Pushed DEF x
  <2>3. Depth[url] \in Nat
    BY <1>1, DeleteAssumption DEF Dirs
  <2>4. Framed(stack', there)
    BY <1>1, <2>1, <2>2, <2>3 DEF Framed
  <2>5. Framed(stack, there)'
    BY <1>1, <1>2, <2>4 DEF Framed, IsDir, Resolve, LinkFree
  <2>6. ~Missing(stack, there)'
    BY <1>2, <2>1, <2>2 DEF Missing
  <2> QED
    BY <1>1, <1>2, <2>1, <2>2, <2>5, <2>6 DEF Walk
<1>3. CASE stack' = <<>> /\ there' = there /\ status' = 500
  <2>1. Framed(stack, there)' /\ ~Missing(stack, there)'
    BY <1>3, EmptySeq DEF Framed, Missing
  <2> QED
    BY <1>1, <1>3, <2>1 DEF Walk
<1> QED
  <2>1. DelDir(url, TRUE, <<>>) /\ TRUE \in BOOLEAN
    BY DEF Call
  <2>2. \/ /\ IsDir(url, there)
           /\ stack' = Append(<<>>, [at |-> url, left |-> Entries(Resolve(url))])
           /\ there' = there /\ failed' = failed /\ status' = status
        \/ /\ ~IsDir(url, there) /\ stack' = <<>> /\ there' = there \ {url}
           /\ failed' = failed /\ status' = status
        \/ /\ ~TRUE /\ stack' = <<>> /\ there' = there
           /\ failed' = failed \cup {url} /\ status' = status
        \/ /\ stack' = <<>> /\ there' = there
           /\ failed' = failed /\ status' = 500
    BY <1>1, <2>1, DelDirForms, Zenon
  <2> QED
    BY <1>1, <1>2, <1>3, <2>2

\* What is said of the stack does not change with a step that keeps the tree.
LEMMA WalkSame ==
    ASSUME UNCHANGED <<tree, url>>
    PROVE  /\ Framed(stack', there') => Framed(stack, there)'
           /\ Stuck(stack', there') => Stuck(stack, there)'
           /\ Missing(stack, there)' => Missing(stack', there')
  BY DEF Framed, IsDir, Resolve, LinkFree, Stuck, Stays, Missing

\* readdir gives another entry, or the rights stop the walk of a directory.
LEMMA WalkReads == ASSUME Inv, ReadEntry PROVE Walk'
<1> SUFFICES ASSUME known PROVE Walk'
  BY DEF ReadEntry, request, Walk
<1>1. /\ TypeOK /\ url \in Nodes /\ status \in {204, 500} /\ UNCHANGED <<tree, url>>
      /\ Framed(stack, there) /\ stack # <<>> /\ stack[1].at = url
      /\ status = 500 => Stuck(stack, there)
      /\ Missing(stack, there) => Stuck(stack, there)
      /\ Top.left # {} /\ stack \in Seq(Frame)
  BY DEF Inv, TypeOK, Frame, Walk, ReadEntry, request
<1>2. CASE Passes(Resolve(Top.at))
  <2>1. PICK e \in Top.left : DelDir(e, FALSE, [stack EXCEPT ![Len(stack)].left = @ \ {e}])
    BY <1>2 DEF ReadEntry
  <2> DEFINE s == [stack EXCEPT ![Len(stack)].left = @ \ {e}]
             t == Append(s, [at |-> e, left |-> Entries(Resolve(e))])
  <2>2. /\ s \in Seq(Frame) /\ s # <<>> /\ s[1].at = stack[1].at
        /\ e \in Nodes /\ Parent[e] = Resolve(s[Len(s)].at) /\ e \notin s[Len(s)].left
        /\ Framed(s, there)
        /\ Stuck(stack, there) => StuckBut(s, there, e)
        /\ Missing(s, there) => Missing(stack, there) \/ StuckBut(s, there, e)
        /\ e \in there => Stuck(s, there)
        /\ e \in there \/ Missing(stack, there)
    <3>1. /\ TypeOK /\ stack # <<>> /\ Framed(stack, there) /\ e \in Top.left
          /\ there \in {there, there \ {e}} /\ (there # there => ~IsDir(e, there))
      BY <1>1
    <3> QED
      BY <3>1, EntryGiven, Zenon
  <2>3. ASSUME ~IsDir(e, there)
        PROVE  /\ Framed(s, there \ {e})
               /\ Stuck(stack, there) => StuckBut(s, there \ {e}, e)
               /\ Missing(s, there \ {e}) => Missing(stack, there) \/ StuckBut(s, there \ {e}, e)
    <3>1. /\ TypeOK /\ stack # <<>> /\ Framed(stack, there) /\ e \in Top.left
          /\ there \ {e} \in {there, there \ {e}}
          /\ (there \ {e} # there => ~IsDir(e, there))
      BY <1>1, <2>3
    <3> QED
      BY <3>1, EntryGiven, Zenon
  <2>4. DelDir(e, FALSE, s)
    BY <2>1
  <2> HIDE DEF s
  <2>5. \A names : StuckBut(s, names, e) => Stuck(s, names)
    BY DEF StuckBut, Stuck
  <2>6. ASSUME IsDir(e, there)
        PROVE  /\ t # <<>> /\ t[1] = s[1] /\ Framed(t, there)
               /\ StuckBut(s, there, e) => Stuck(t, there)
               /\ Missing(t, there) => Missing(s, there)
    <3>1. e \in there
      BY <2>6 DEF IsDir
    <3> QED
      BY <1>1, <2>2, <2>6, <3>1, EntryOpened
  <2>7. \/ IsDir(e, there) /\ stack' = t /\ there' = there /\ status' = status
        \/ ~IsDir(e, there) /\ stack' = s /\ there' = there \ {e} /\ status' = status
        \/ stack' = s /\ there' = there /\ status' \in {status, 500}
    <3>1. FALSE \in BOOLEAN /\ (FALSE => IsDir(e, there)) /\ e \in Nodes /\ TypeOK
      BY <1>1, <2>2
    <3>2. \/ /\ IsDir(e, there) /\ stack' = t
             /\ there' = there /\ failed' = failed /\ status' = status
          \/ /\ ~IsDir(e, there) /\ stack' = s /\ there' = there \ {e}
             /\ failed' = failed /\ status' = status
          \/ /\ ~FALSE /\ stack' = s /\ there' = there
             /\ failed' = failed \cup {e} /\ status' = status
          \/ /\ stack' = s /\ there' = there
             /\ failed' = failed /\ status' = 500
      BY <2>4, <3>1, DelDirForms, ZenonT(40)
    <3> QED
      BY <3>2
  <2> HIDE DEF t
  <2>8. /\ Framed(stack', there') /\ stack' # <<>> /\ stack'[1].at = url
        /\ status' \in {204, 500}
        /\ status' = 500 \/ Missing(stack', there') => Stuck(stack', there')
    <3>1. CASE IsDir(e, there) /\ stack' = t /\ there' = there /\ status' = status
      BY <3>1, <1>1, <2>2, <2>6
    <3>2. CASE ~IsDir(e, there) /\ stack' = s /\ there' = there \ {e} /\ status' = status
      BY <3>2, <1>1, <2>2, <2>3, <2>5
    <3>3. CASE stack' = s /\ there' = there /\ status' \in {status, 500}
      <4>1. Stuck(s, there)
        BY <1>1, <2>2, <2>5
      <4> QED
        BY <3>3, <4>1, <1>1, <2>2
    <3> QED
      BY <2>7, <3>1, <3>2, <3>3
  <2> QED
    BY <1>1, <2>8, WalkSame DEF Walk
<1>3. CASE ~Passes(Resolve(Top.at))
  <2>1. status' = 500 /\ stack' = Front(stack) /\ there' = there
    BY <1>3 DEF ReadEntry
  <2>2. Len(stack) \in Nat \ {0} /\ Len(stack) \in 1 .. Len(stack)
    BY <1>1, EmptySeq
  <2>3. CASE Len(stack) = 1
    <3>1. stack' = <<>> /\ url \in there
      BY <1>1, <2>1, <2>3, Popped DEF Framed, IsDir
    <3>2. Framed(stack, there)' /\ ~Missing(stack, there)'
      BY <3>1, EmptySeq DEF Framed, Missing
    <3> QED
      BY <1>1, <2>1, <3>1, <3>2 DEF Walk
  <2>4. CASE Len(stack) > 1
    <3>1. Top.at \in there
      BY <1>1, <2>2 DEF Framed, IsDir, Top
    <3>2. /\ stack' # <<>> /\ stack'[1] = stack[1] /\ Framed(stack', there')
          /\ Stuck(stack', there')
      BY <1>1, <2>1, <2>4, <3>1, DirLeft
    <3> QED
      BY <1>1, <2>1, <3>2, WalkSame DEF Walk
  <2>5. Len(stack) = 1 \/ Len(stack) > 1
    BY <2>2, OneOrMore
  <2> QED
    BY <2>3, <2>4, <2>5
<1> QED
  BY <1>2, <1>3

\* readdir has given everything; the directory is removed or not.
LEMMA WalkReturns == ASSUME Inv, DirDone PROVE Walk'
<1> SUFFICES ASSUME known PROVE Walk'
  BY DEF DirDone, request, Walk
<1>1. /\ TypeOK /\ url \in Nodes /\ status \in {204, 500} /\ UNCHANGED <<tree, url>>
      /\ Framed(stack, there) /\ stack # <<>> /\ stack[1].at = url
      /\ status = 500 => Stuck(stack, there)
      /\ Missing(stack, there) => Stuck(stack, there)
      /\ stack \in Seq(Frame) /\ there \in SUBSET Nodes /\ failed \in SUBSET Nodes
  BY DEF Inv, TypeOK, Frame, Walk, DirDone, request
<1>2. Len(stack) \in Nat \ {0} /\ Len(stack) \in 1 .. Len(stack)
  BY <1>1, EmptySeq
<1>3. Top.at \in there
  BY <1>1, <1>2 DEF Framed, IsDir, Top
<1>4. /\ stack' = Front(stack) /\ status' \in {status, 500}
      /\ there' \in {there, there \ {Top.at}}
      /\ there' # there => tree.kind[Top.at] = "dir" /\ Entries(Top.at) = {} /\ status' = status
      /\ status' = 204 /\ failed' = {} => there' # there
      /\ status' # status => Top.at \in there'
  <2>1. stack' = Front(stack)
    BY DEF DirDone
  <2>2. CASE tree.rights[Resolve(Top.at)].roth
    <3>1. Try(CanRmdir(Top.at), Top.at) /\ status' = status
      BY <2>2 DEF DirDone
    <3>2. CanRmdir(Top.at) => tree.kind[Top.at] = "dir" /\ Entries(Top.at) = {}
      BY DEF CanRmdir
    <3>3. failed' = {} => there' = there \ {Top.at}
      BY <3>1 DEF Try
    <3>4. there' \in {there, there \ {Top.at}} /\ (there' # there => CanRmdir(Top.at))
      BY <3>1 DEF Try
    <3> QED
      BY <1>3, <2>1, <3>1, <3>2, <3>3, <3>4
  <2>3. CASE ~tree.rights[Resolve(Top.at)].roth
    BY <1>3, <2>1, <2>3 DEF DirDone
  <2> QED
    BY <2>2, <2>3
<1>5. CASE Len(stack) = 1
  <2>1. stack' = <<>> /\ Top.at = url
    BY <1>1, <1>4, <1>5, Popped DEF Top
  <2>2. Framed(stack, there)' /\ ~Missing(stack, there)'
    BY <2>1, EmptySeq DEF Framed, Missing
  <2>3. ASSUME status' = 500 PROVE there' = there
    <3> SUFFICES ASSUME there' # there PROVE FALSE
      OBVIOUS
    <3>1. Stuck(stack, there) /\ Entries(url) = {} /\ Resolve(url) = url
      BY <1>1, <1>4, <2>1, <2>3 DEF Resolve
    <3>2. PICK i \in 1 .. 1, w \in there : Stays(stack, i, w)
      BY <1>5, <3>1 DEF Stuck
    <3>3. Parent[w] = url
      BY <1>1, <3>1, <3>2 DEF Stays
    <3> QED
      BY <3>1, <3>3 DEF Entries
  <2> QED
    BY <1>1, <1>3, <1>4, <2>1, <2>2, <2>3 DEF Walk
<1>6. CASE Len(stack) > 1
  <2>1. /\ stack' # <<>> /\ stack'[1] = stack[1] /\ Framed(stack', there')
        /\ Top.at \in there' => Stuck(stack', there')
        /\ Stuck(stack, there) => Stuck(stack', there')
        /\ Missing(stack', there') => Missing(stack, there) \/ Stuck(stack', there')
    <3>1. ASSUME NEW names \in {there, there \ {Top.at}},
                 names # there => tree.kind[Top.at] = "dir" /\ Entries(Top.at) = {}
          PROVE  /\ Front(stack) # <<>> /\ Front(stack)[1] = stack[1]
                 /\ Framed(Front(stack), names)
                 /\ Top.at \in names => Stuck(Front(stack), names)
                 /\ Stuck(stack, there) => Stuck(Front(stack), names)
                 /\ Missing(Front(stack), names) =>
                       Missing(stack, there) \/ Stuck(Front(stack), names)
      <4>1. TypeOK /\ Framed(stack, there)
        BY <1>1
      <4> QED
        BY <3>1, <4>1, <1>6, DirLeft, Zenon
    <3>2. /\ there' \in {there, there \ {Top.at}}
          /\ there' # there => tree.kind[Top.at] = "dir" /\ Entries(Top.at) = {}
          /\ stack' = Front(stack)
      BY <1>4
    <3> QED
      BY <3>1, <3>2
  <2>2. status' = 500 \/ Missing(stack', there') => Stuck(stack', there')
    BY <1>1, <1>4, <2>1
  <2> QED
    BY <1>1, <1>4, <2>1, <2>2, WalkSame DEF Walk
<1>7. Len(stack) = 1 \/ Len(stack) > 1
  BY <1>2, OneOrMore
<1> QED
  BY <1>5, <1>6, <1>7

\* Every step keeps the invariant.
LEMMA InvStep == ASSUME Inv, [Next]_vars PROVE Inv'
<1>1. TypeOK' /\ TypeOK
  BY TypeStep DEF Inv
<1> SUFFICES (Started /\ Walk /\ AnswerTells)'
  BY <1>1 DEF Inv
<1>2. Started /\ Walk /\ AnswerTells
  BY DEF Inv
<1>3. CASE DeleteRequest
  <2>1. PICK n \in Nodes, slash \in BOOLEAN, mode \in {"refused", "dir", "file", "other"} :
          /\ url' = n
          /\ mode # "refused" => mode \in Mode(n, slash)
          /\ known' = (mode # "refused" /\ Stats(n, slash))
          /\ failed' = IF mode = "file" /\ ~CanRemove(n, slash) THEN {n} ELSE {}
          /\ \/ /\ mode = "refused" /\ answer' \in {404, 405}
                /\ pc' = "idle" /\ UNCHANGED there
             \/ /\ mode = "dir" /\ ~slash /\ answer' = 409
                /\ pc' = "idle" /\ UNCHANGED there
             \/ /\ mode = "dir" /\ slash
                /\ pc' = "call" /\ UNCHANGED <<there, answer>>
             \/ /\ mode = "file"
                /\ there' = IF CanRemove(n, slash) THEN there \ {n} ELSE there
                /\ answer' = status'
                /\ pc' = "idle"
             \/ /\ mode = "other" /\ answer' = 404
                /\ pc' = "idle" /\ UNCHANGED there
    BY <1>3 DEF DeleteRequest
  <2>2. status' = 204 /\ tree' = tree
    BY <1>3 DEF DeleteRequest, InitStatus
  <2>3. known' => n \in there
    BY <2>1 DEF Stats
  <2>4. known' /\ slash => IsDir(n, there)
    BY <2>1 DEF Stats, IsDir
  <2>5. Walk'
    BY <2>1 DEF Walk
  <2>6. Started'
    BY <2>1, <2>2, <2>4 DEF Started, IsDir, Resolve
  <2>7. AnswerTells'
    BY <2>1, <2>2, <2>3 DEF AnswerTells
  <2> QED
    BY <2>5, <2>6, <2>7
<1>4. CASE Call
  BY <1>4, WalkStarts DEF Started, AnswerTells, Call
<1>5. CASE ReadEntry
  BY <1>5, WalkReads DEF Started, AnswerTells, ReadEntry
<1>6. CASE DirDone
  BY <1>6, WalkReturns DEF Started, AnswerTells, DirDone
<1>7. CASE Throw
  BY <1>2, <1>7 DEF Started, Walk, AnswerTells, Throw, request
<1>8. CASE UNCHANGED vars
  BY <1>2, <1>8 DEF Started, Walk, AnswerTells, vars, Framed, IsDir, Resolve, LinkFree,
                    Stuck, Stays, Missing
<1> QED
  BY <1>3, <1>4, <1>5, <1>6, <1>7, <1>8 DEF Next

(***************************************************************************)
(* In every tree, with or without symbolic links, the answer to DELETE     *)
(* tells what became of the path, whatever the rights are, whatever order  *)
(* readdir chooses, by how many ways the walk comes to a directory, what   *)
(* stat leaves behind when it fails, and whatever the request before left  *)
(* in the global status (delete.cpp:18-84, 87-120).                        *)
(***************************************************************************)
THEOREM AnswersTell == Spec => []AnswerTells
<1>1. Init => Inv
  BY TypeInit DEF Init, Inv, Started, Walk, AnswerTells
<1>2. Inv /\ [Next]_vars => Inv'
  BY InvStep
<1>3. Inv => AnswerTells
  BY DEF Inv
<1> QED
  BY <1>1, <1>2, <1>3, PTL DEF Spec
-------------------------------------------------------------------------------
(***************************************************************************)
(* Where the walk is, in any tree: each open directory is below the one    *)
(* before it, or below what that one, a link, points to, and its name was  *)
(* given by a directory with the rights the code asks for.                 *)
(***************************************************************************)
Admitted(n) ==
    \/ n = url
    \/ n \in Below[url] /\ Below[n] \subseteq Below[url] /\ tree.rights[Parent[n]].checked

FrameInside(x) ==
    Admitted(x.at) /\ x.left \subseteq {n \in Nodes : Parent[n] = Resolve(x.at)}

AllInside(s) == \A i \in 1 .. Len(s) : FrameInside(s[i])

Inside == AllInside(stack) /\ (pc # "del" => stack = <<>>)

\* The equation of Below.
LEMMA BelowDef ==
    ASSUME TypeOK
    PROVE  \A n \in Nodes :
             Below[n] = UNION {{e} \cup Below[e] : e \in {e \in Nodes : Parent[e] = Resolve(n)}}
<1> DEFINE F(f) == [n \in Nodes |->
                       UNION {{e} \cup f[e] : e \in {e \in Nodes : Parent[e] = Resolve(n)}}]
           Closed == {f \in [Nodes -> SUBSET Nodes] :
                        \A n, e \in Nodes : Parent[e] = Resolve(n) => e \in f[n] /\ f[e] \subseteq f[n]}
           Least == [n \in Nodes |-> {m \in Nodes : \A f \in Closed : m \in f[n]}]
<1>1. F(Least) \in Closed
  <2>1. ASSUME NEW f \in Closed, NEW n \in Nodes PROVE F(Least)[n] \subseteq f[n]
    BY <2>1
  <2>2. \A n \in Nodes : F(Least)[n] \subseteq Least[n]
    BY <2>1
  <2>3. \A n \in Nodes : F(Least)[n] \subseteq Nodes
    OBVIOUS
  <2>4. ASSUME NEW n \in Nodes, NEW e \in Nodes, Parent[e] = Resolve(n)
        PROVE  e \in F(Least)[n] /\ Least[e] \subseteq F(Least)[n]
    BY <2>4
  <2> HIDE DEF Least
  <2>5. F(Least) \in [Nodes -> SUBSET Nodes]
    BY <2>3
  <2> QED
    BY <2>2, <2>4, <2>5
<1>2. F(Least) = Least
  <2>1. ASSUME NEW f \in Closed, NEW n \in Nodes PROVE F(Least)[n] \subseteq f[n]
    BY <2>1
  <2>2. ASSUME NEW n \in Nodes PROVE F(Least)[n] = Least[n]
    BY <1>1, <2>1
  <2> QED
    BY <2>2
<1>3. Below = F(Below)
  <2> HIDE DEF Least
  <2> QED
    BY <1>2 DEF Below
<1> QED
  BY <1>3

\* It changes with the tree only.
LEMMA BelowSame == tree' = tree => Below' = Below
  BY DEF Below, Resolve

LEMMA InsideSame ==
    ASSUME UNCHANGED <<tree, url>>, NEW s, AllInside(s), s = stack'
    PROVE  AllInside(stack)'
<1>1. Below' = Below
  BY BelowSame
<1>2. \A x : FrameInside(x) => FrameInside(x)'
  BY <1>1 DEF FrameInside, Admitted, Resolve
<1> QED
  BY <1>2 DEF AllInside

\* What a directory that is open gives may be removed or opened.
LEMMA GivenAdmitted ==
    ASSUME TypeOK, NEW x \in Frame, FrameInside(x), tree.rights[Resolve(x.at)].checked,
           NEW e \in x.left
    PROVE  e \in Nodes /\ Admitted(e)
<1>1. e \in Nodes /\ x.at \in Nodes /\ Parent[e] = Resolve(x.at)
  BY DEF FrameInside, Frame
<1>2. e \in Below[x.at] /\ Below[e] \subseteq Below[x.at]
  <2>1. Below[x.at] =
          UNION {{d} \cup Below[d] : d \in {d \in Nodes : Parent[d] = Resolve(x.at)}}
    BY <1>1, BelowDef
  <2> QED
    BY <1>1, <2>1
<1> QED
  BY <1>1, <1>2 DEF FrameInside, Admitted

\* A call of del_dir removes nothing but its argument, or opens it.
LEMMA DelDirInside ==
    ASSUME TypeOK, NEW n \in Nodes, NEW slash, NEW below \in Seq(Frame),
           DelDir(n, slash, below), Admitted(n), AllInside(below), UNCHANGED <<tree, url>>
    PROVE  there \ there' \subseteq {n} /\ AllInside(stack)'
<1>1. there \ there' \subseteq {n}
  BY DEF DelDir, Try
<1>2. AllInside(below)'
  <2>1. Below' = Below
    BY BelowSame
  <2> QED
    BY <2>1 DEF AllInside, FrameInside, Admitted, Resolve
<1>3. CASE stack' = below
  BY <1>1, <1>2, <1>3 DEF AllInside
<1>4. CASE stack' = Append(below, [at |-> n, left |-> Entries(Resolve(n))])
  <2> DEFINE x == [at |-> n, left |-> Entries(Resolve(n))]
  <2>1. x \in Frame /\ x.at = n /\ x.left = Entries(Resolve(n))
    BY DEF Frame, Entries, TypeOK
  <2>2. FrameInside(x)
    BY <2>1 DEF FrameInside, Entries, TypeOK
  <2> HIDE DEF x
  <2>3. /\ Append(below, x)[Len(below) + 1] = x /\ Len(Append(below, x)) = Len(below) + 1
        /\ Len(below) \in Nat /\ \A i \in 1 .. Len(below) : Append(below, x)[i] = below[i]
    BY <2>1, Pushed
  <2>4. AllInside(Append(below, x))
    BY <2>2, <2>3 DEF AllInside
  <2>5. stack' = Append(below, x)
    BY <1>4 DEF x
  <2>6. \A z : AllInside(z) /\ z = stack' => AllInside(stack)'
    BY InsideSame
  <2> QED
    BY <1>1, <2>4, <2>5, <2>6
<1> QED
  BY <1>1, <1>3, <1>4 DEF DelDir

\* Of the directories that are open, the last one.
LEMMA TopInside ==
    ASSUME TypeOK, Inside, stack # <<>>
    PROVE  /\ Top \in Frame /\ FrameInside(Top)
           /\ Front(stack) \in Seq(Frame) /\ AllInside(Front(stack))
<1>1. stack \in Seq(Frame)
  BY DEF TypeOK, Frame
<1>2. Len(stack) \in 1 .. Len(stack)
  BY <1>1, EmptySeq
<1>3. Top \in Frame /\ FrameInside(Top)
  BY <1>1, <1>2, ElementOfSeq DEF Top, Inside, AllInside
<1>4. /\ Front(stack) \in Seq(Frame) /\ Len(Front(stack)) = Len(stack) - 1
      /\ Len(stack) \in Nat \ {0}
      /\ \A i \in 1 .. Len(stack) - 1 : Front(stack)[i] = stack[i]
  BY <1>1, Popped
<1> QED
  BY <1>3, <1>4 DEF Inside, AllInside

\* What a step removes, and that the walk stays where it may be.
LEMMA InsideStep ==
    ASSUME TypeOK, Inside, [Next]_vars
    PROVE  /\ Inside'
           /\ \A n \in there \ there' :
                 \/ n = url'
                 \/ n \in Below[url] /\ tree.rights[Parent[n]].checked
<1> DEFINE Removes == \A n \in there \ there' :
                         n = url' \/ (n \in Below[url] /\ tree.rights[Parent[n]].checked)
<1>1. ASSUME DeleteRequest PROVE Inside' /\ Removes
  <2>1. stack = <<>> /\ stack' = stack
    BY <1>1 DEF DeleteRequest, Inside
  <2>2. Inside'
    BY <2>1, EmptySeq DEF Inside, AllInside
  <2> QED
    BY <1>1, <2>2 DEF DeleteRequest
<1>2. ASSUME Call PROVE Inside' /\ Removes
  <2>1. url \in Nodes /\ <<>> \in Seq(Frame) /\ UNCHANGED <<tree, url>> /\ pc' = "del"
    BY <1>2, EmptySeq DEF Call, TypeOK, request
  <2>2. Admitted(url) /\ AllInside(<<>>)
    BY DEF Admitted, AllInside
  <2>3. DelDir(url, TRUE, <<>>)
    BY <1>2 DEF Call
  <2> QED
    BY <2>1, <2>2, <2>3, DelDirInside DEF Inside
<1>3. ASSUME ReadEntry PROVE Inside' /\ Removes
  <2>1. stack # <<>> /\ UNCHANGED <<tree, url>> /\ pc' = "del"
    BY <1>3 DEF ReadEntry, request
  <2>2. /\ Top \in Frame /\ FrameInside(Top)
        /\ Front(stack) \in Seq(Frame) /\ AllInside(Front(stack))
    BY <2>1, TopInside
  <2>3. CASE Passes(Resolve(Top.at))
    <3>1. PICK e \in Top.left : DelDir(e, FALSE, [stack EXCEPT ![Len(stack)].left = @ \ {e}])
      BY <1>3, <2>3 DEF ReadEntry
    <3> DEFINE s == [stack EXCEPT ![Len(stack)].left = @ \ {e}]
    <3>2. stack \in Seq(Frame)
      BY DEF TypeOK, Frame
    <3>3. /\ s \in Seq(Frame) /\ Len(s) = Len(stack) /\ Len(stack) \in Nat \ {0}
          /\ \A i \in 1 .. Len(stack) : s[i].at = stack[i].at
          /\ \A i \in 1 .. Len(stack) - 1 : s[i] = stack[i]
          /\ s[Len(stack)].left = stack[Len(stack)].left \ {e}
      BY <2>1, <3>2, Taken, ZenonT(30)
    <3>4. DelDir(e, FALSE, s)
      BY <3>1
    <3> HIDE DEF s
    <3>5. AllInside(s)
      <4>1. AllInside(stack)
        BY DEF Inside
      <4>2. \A i \in 1 .. Len(stack) : s[i].left \subseteq stack[i].left
        BY <3>3
      <4> QED
        BY <3>3, <4>1, <4>2 DEF AllInside, FrameInside
    <3>6. e \in Nodes /\ Admitted(e)
      BY <2>2, <2>3, GivenAdmitted DEF Passes
    <3>7. there \ there' \subseteq {e} /\ AllInside(stack)'
      BY <2>1, <3>3, <3>4, <3>5, <3>6, DelDirInside
    <3> QED
      BY <2>1, <3>6, <3>7 DEF Inside, Admitted
  <2>4. CASE ~Passes(Resolve(Top.at))
    <3>1. stack' = Front(stack) /\ there' = there
      BY <1>3, <2>4 DEF ReadEntry
    <3> QED
      BY <2>1, <2>2, <3>1, InsideSame DEF Inside
  <2> QED
    BY <2>3, <2>4
<1>4. ASSUME DirDone PROVE Inside' /\ Removes
  <2>1. /\ stack # <<>> /\ UNCHANGED <<tree, url>> /\ pc' = "del"
        /\ stack' = Front(stack) /\ there \ there' \subseteq {Top.at}
    BY <1>4 DEF DirDone, request, Try
  <2>2. FrameInside(Top) /\ AllInside(Front(stack))
    BY <2>1, TopInside
  <2> QED
    BY <2>1, <2>2, InsideSame DEF Inside, FrameInside, Admitted
<1>5. ASSUME Throw PROVE Inside' /\ Removes
  <2>1. stack = <<>> /\ stack' = <<>> /\ there' = there
    BY <1>5 DEF Throw
  <2> QED
    BY <2>1, EmptySeq DEF Inside, AllInside
<1>6. ASSUME UNCHANGED vars PROVE Inside' /\ Removes
  <2>1. UNCHANGED <<tree, url>> /\ stack' = stack /\ pc' = pc /\ there' = there
    BY <1>6 DEF vars
  <2> QED
    BY <2>1, InsideSame DEF Inside
<1> QED
  BY <1>1, <1>2, <1>3, <1>4, <1>5, <1>6 DEF Next

(***************************************************************************)
(* In every tree, with or without symbolic links, DELETE removes nothing   *)
(* but what its request names and what lies below that, through links too, *)
(* in a directory that has the rights del_dir asks for (delete.cpp:18-84,  *)
(* 87-120).                                                                *)
(***************************************************************************)
THEOREM RemovesOnlyWhatPasses == Spec => OnlyWhatPasses
<1>1. Init => TypeOK /\ Inside
  BY TypeInit, EmptySeq DEF Init, Inside, AllInside
<1>2. TypeOK /\ Inside /\ [Next]_vars => (TypeOK /\ Inside)'
  BY TypeStep, InsideStep
<1>3. TypeOK /\ Inside /\ [Next]_vars =>
        [\A n \in there \ there' :
            \/ n = url'
            \/ n \in Below[url] /\ tree.rights[Parent[n]].checked]_vars
  BY InsideStep
<1> QED
  BY <1>1, <1>2, <1>3, PTL DEF Spec, OnlyWhatPasses

-------------------------------------------------------------------------------
\* The equations of Reached and Gone.
LEMMA ReachedDef ==
    ASSUME TypeOK
    PROVE  \A n \in Nodes :
             Reached[n] <=>
               \/ n = url
               \/ /\ Parent[n] # Base /\ Reached[Parent[n]]
                  /\ tree.rights[Parent[n]].list /\ tree.rights[Parent[n]].checked
<1> DEFINE Goes(n) == tree.rights[Parent[n]].list /\ tree.rights[Parent[n]].checked
           F(f) == [n \in Nodes |->
                      \/ n = url
                      \/ LET d == Parent[n]
                         IN  d # Base /\ f[d] /\ tree.rights[d].list /\ tree.rights[d].checked]
           Step(S) == {n \in Nodes : n = url \/ (Parent[n] # Base /\ Parent[n] \in S /\ Goes(n))}
           Closed == {S \in SUBSET Nodes : Step(S) \subseteq S}
           Least == {n \in Nodes : \A S \in Closed : n \in S}
           f0 == [n \in Nodes |-> n \in Least]
<1>1. Step(Least) \subseteq Least
  OBVIOUS
<1>2. Step(Step(Least)) \subseteq Step(Least)
  BY <1>1
<1>3. Step(Least) = Least
  <2>1. Step(Least) \subseteq Nodes
    OBVIOUS
  <2> HIDE DEF Step
  <2>2. Least \subseteq Step(Least)
    BY <1>2, <2>1
  <2> QED
    BY <1>1, <2>2
<1>4. F(f0) = f0
  <2>1. \A n \in Nodes : Parent[n] # Base => Parent[n] \in Nodes
    BY DeleteAssumption DEF Dirs
  <2> HIDE DEF Least
  <2>2. ASSUME NEW n \in Nodes PROVE F(f0)[n] = f0[n]
    <3>1. f0[n] = (n \in Step(Least))
      BY <1>3
    <3>2. Parent[n] # Base => f0[Parent[n]] = (Parent[n] \in Least)
      BY <2>1
    <3>3. F(f0)[n] = (n = url \/ (Parent[n] # Base /\ f0[Parent[n]] /\ Goes(n)))
      <4> HIDE DEF f0
      <4> QED
        OBVIOUS
    <3>4. F(f0)[n] <=> n \in Step(Least)
      <4> HIDE DEF f0, F
      <4> QED
        BY <3>2, <3>3
    <3>5. F(f0)[n] \in BOOLEAN
      BY <3>3
    <3> HIDE DEF F, f0
    <3> QED
      BY <3>1, <3>4, <3>5
  <2> QED
    BY <2>2
<1>5. Reached = F(Reached)
  <2> HIDE DEF f0
  <2> QED
    BY <1>4 DEF Reached
<1> QED
  BY <1>5

LEMMA GoneDef ==
    ASSUME TypeOK
    PROVE  \A n \in Nodes :
             Gone[n] <=>
               /\ tree.rights[Parent[n]].alter
               /\ \/ tree.kind[n] = "file"
                  \/ /\ tree.kind[n] = "dir" /\ tree.rights[n].list /\ tree.rights[n].roth
                     /\ {e \in before : Parent[e] = n} # {} => tree.rights[n].checked
                     /\ \A e \in before : Parent[e] = n => Gone[e]
<1> DEFINE In(n) == {e \in before : Parent[e] = n}
           F(f) == [n \in Nodes |->
                      LET inside == {e \in before : Parent[e] = n}
                      IN  /\ tree.rights[Parent[n]].alter
                          /\ \/ tree.kind[n] = "file"
                             \/ /\ tree.kind[n] = "dir" /\ tree.rights[n].list /\ tree.rights[n].roth
                                /\ inside # {} => tree.rights[n].checked
                                /\ \A e \in inside : f[e]]
           Step(S) == {n \in Nodes :
                         /\ tree.rights[Parent[n]].alter
                         /\ \/ tree.kind[n] = "file"
                            \/ /\ tree.kind[n] = "dir" /\ tree.rights[n].list /\ tree.rights[n].roth
                               /\ In(n) # {} => tree.rights[n].checked
                               /\ \A e \in In(n) : e \in S}
           Closed == {S \in SUBSET Nodes : Step(S) \subseteq S}
           Least == {n \in Nodes : \A S \in Closed : n \in S}
           f0 == [n \in Nodes |-> n \in Least]
<1>1. Step(Least) \subseteq Least
  OBVIOUS
<1>2. Step(Step(Least)) \subseteq Step(Least)
  BY <1>1
<1>3. Step(Least) = Least
  <2>1. Step(Least) \subseteq Nodes
    OBVIOUS
  <2> HIDE DEF Step
  <2>2. Least \subseteq Step(Least)
    BY <1>2, <2>1
  <2> QED
    BY <1>1, <2>2
<1>4. F(f0) = f0
  <2>1. before \subseteq Nodes
    BY DEF TypeOK
  <2> HIDE DEF Least
  <2>2. ASSUME NEW n \in Nodes PROVE F(f0)[n] = f0[n]
    <3>1. f0[n] = (n \in Step(Least))
      BY <1>3
    <3>2. \A e \in In(n) : f0[e] = (e \in Least)
      BY <2>1
    <3>3. F(f0)[n] =
            (/\ tree.rights[Parent[n]].alter
             /\ \/ tree.kind[n] = "file"
                \/ /\ tree.kind[n] = "dir" /\ tree.rights[n].list /\ tree.rights[n].roth
                   /\ In(n) # {} => tree.rights[n].checked
                   /\ \A e \in In(n) : f0[e])
      <4> HIDE DEF f0
      <4> QED
        OBVIOUS
    <3>4. F(f0)[n] <=> n \in Step(Least)
      <4> HIDE DEF f0, F
      <4> QED
        BY <3>2, <3>3
    <3>5. F(f0)[n] \in BOOLEAN
      BY <3>3
    <3> HIDE DEF F, f0
    <3> QED
      BY <3>1, <3>4, <3>5
  <2> QED
    BY <2>2
<1>5. Gone = F(Gone)
  <2> HIDE DEF f0
  <2> QED
    BY <1>4 DEF Gone
<1> QED
  BY <1>5, ZenonT(40)

LEMMA ReachedSame == UNCHANGED <<tree, url>> => Reached' = Reached
  BY DEF Reached

LEMMA GoneSame == UNCHANGED <<tree, before>> => Gone' = Gone
  BY DEF Gone

-------------------------------------------------------------------------------
(***************************************************************************)
(* What the open directories s have still to give, with all that is below: *)
(* the least set with these names that has what its members hold.          *)
(***************************************************************************)
HoldsAll(S) == \A m \in Nodes : Parent[m] \in S => m \in S

Pending(s) ==
    {n \in Nodes : \A S \in SUBSET Nodes :
        (\A i \in 1 .. Len(s) : s[i].left \subseteq S) /\ HoldsAll(S) => n \in S}

Open(s) == {s[i].at : i \in 1 .. Len(s)}

LEMMA PendingHolds ==
    ASSUME NEW s \in Seq(Frame)
    PROVE  /\ \A i \in 1 .. Len(s) : s[i].left \subseteq Pending(s)
           /\ HoldsAll(Pending(s))
<1>1. ASSUME NEW i \in 1 .. Len(s) PROVE s[i].left \subseteq Nodes
  <2>1. s[i] \in Frame
    BY ElementOfSeq
  <2> QED
    BY <2>1 DEF Frame
<1>2. \A i \in 1 .. Len(s) : s[i].left \subseteq Pending(s)
  BY <1>1 DEF Pending
<1>3. HoldsAll(Pending(s))
  BY DEF Pending, HoldsAll
<1> QED
  BY <1>2, <1>3

LEMMA PendingLeast ==
    ASSUME NEW s, NEW S \in SUBSET Nodes, HoldsAll(S),
           \A i \in 1 .. Len(s) : s[i].left \subseteq S
    PROVE  Pending(s) \subseteq S
  BY DEF Pending

\* A directory is only removed when nothing is in it.
Rooted == \A n \in there : Parent[n] = Base \/ Parent[n] \in there

\* Below a name that is given, all that the walk comes to is still pending.
LEMMA StillPending ==
    ASSUME TypeOK, Rooted, LinkFree, url \in Nodes, Framed(stack, there),
           NEW t \in Seq(Frame), NEW e,
           \A i \in 1 .. Len(stack) : \A m \in stack[i].left :
               Reached[m] => m = e \/ m \in Pending(t),
           \A m \in there : Parent[m] = e /\ m # url /\ Reached[m] => m \in Pending(t)
    PROVE  \A n \in there : n \in Pending(stack) /\ Reached[n] => n = e \/ n \in Pending(t)
<1> DEFINE S == {m \in Nodes : /\ Depth[m] > Depth[url]
                               /\ m \in there /\ Reached[m] => m = e \/ m \in Pending(t)}
<1>1. Depth[url] \in Nat /\ \A m \in Nodes : Depth[m] \in Nat /\ Depth[Parent[m]] \in Nat
                                             /\ Depth[m] = Depth[Parent[m]] + 1
  BY DeleteAssumption DEF Dirs
<1>2. stack \in Seq(Frame) /\ there \subseteq Nodes
  BY DEF TypeOK, Frame
<1>3. ASSUME NEW i \in 1 .. Len(stack) PROVE stack[i].left \subseteq S
  <2> SUFFICES ASSUME NEW m \in stack[i].left PROVE m \in S
    OBVIOUS
  <2>1. m \in Nodes /\ Parent[m] = stack[i].at /\ Depth[stack[i].at] = Depth[url] + i - 1
    <3>1. /\ stack[i].at \in Nodes /\ m \in Nodes /\ Parent[m] = Resolve(stack[i].at)
          /\ Depth[stack[i].at] = Depth[url] + i - 1
      BY <1>2 DEF Framed, IsDir
    <3> QED
      BY <3>1 DEF LinkFree, Resolve
  <2>2. i \in Nat /\ i >= 1
    BY <1>2, LenProperties
  <2>3. Depth[m] > Depth[url]
    BY <1>1, <2>1, <2>2
  <2> QED
    BY <2>1, <2>3
<1>4. HoldsAll(S)
  <2> SUFFICES ASSUME NEW m \in Nodes, Parent[m] \in S PROVE m \in S
    BY DEF HoldsAll
  <2>1. Depth[m] > Depth[url] + 1 /\ Parent[m] \in Nodes
    BY <1>1
  <2>2. Depth[m] > Depth[url] /\ m # url /\ Parent[m] # Base
    BY <1>1, <2>1, DeleteAssumption
  <2>3. ASSUME m \in there, Reached[m] PROVE m \in Pending(t)
    <3>1. Parent[m] \in there /\ Reached[Parent[m]]
      BY <2>2, <2>3, ReachedDef DEF Rooted
    <3>2. CASE Parent[m] = e
      BY <2>2, <2>3, <3>2
    <3>3. CASE Parent[m] \in Pending(t)
      BY <3>3, PendingHolds DEF HoldsAll
    <3> QED
      BY <3>1, <3>2, <3>3
  <2> QED
    BY <2>2, <2>3
<1>5. Pending(stack) \subseteq S
  <2> HIDE DEF S
  <2> S \subseteq Nodes
    BY DEF S
  <2> QED
    BY <1>3, <1>4, PendingLeast
<1> QED
  BY <1>5

\* A directory that has given everything holds nothing that is pending or open.
LEMMA NotPending ==
    ASSUME TypeOK, LinkFree, url \in Nodes, Framed(stack, there), stack # <<>>, Top.left = {},
           NEW e \in Nodes, Parent[e] = Top.at
    PROVE  e \notin Pending(stack) /\ e \notin Open(stack)
<1> DEFINE k == Len(stack)
           S == {m \in Nodes : /\ Depth[m] > Depth[url] /\ m \notin Open(stack)
                               /\ Parent[m] # Top.at}
<1>1. Depth[url] \in Nat /\ \A m \in Nodes : Depth[m] \in Nat /\ Depth[Parent[m]] \in Nat
                                             /\ Depth[m] = Depth[Parent[m]] + 1
  BY DeleteAssumption DEF Dirs
<1>2. stack \in Seq(Frame) /\ there \in SUBSET Nodes
  BY DEF TypeOK, Frame
<1>3. k \in Nat \ {0} /\ k \in 1 .. k
  BY <1>2, EmptySeq
<1>4. /\ \A i \in 1 .. k : /\ stack[i].at \in Nodes /\ stack[i].left \subseteq Nodes
                           /\ \A m \in stack[i].left : Parent[m] = stack[i].at
                           /\ Depth[stack[i].at] = Depth[url] + i - 1
                           /\ i > 1 => Parent[stack[i].at] = stack[i - 1].at
                                       /\ stack[i].at \notin stack[i - 1].left
      /\ Top = stack[k]
  BY <1>2 DEF Framed, IsDir, LinkFree, Resolve, Top
<1>5. Depth[e] = Depth[url] + k
  <2>1. Depth[e] = Depth[stack[k].at] + 1 /\ Depth[stack[k].at] = Depth[url] + k - 1
    BY <1>1, <1>3, <1>4
  <2> QED
    BY <1>1, <1>3, <2>1
<1>6. e \notin Open(stack)
  <2> SUFFICES ASSUME NEW j \in 1 .. k, e = stack[j].at PROVE FALSE
    BY DEF Open
  <2> QED
    BY <1>1, <1>3, <1>4, <1>5
<1>7. ASSUME NEW i \in 1 .. k, NEW m \in stack[i].left PROVE m \in S
  <2>1. m \in Nodes /\ Parent[m] = stack[i].at /\ Depth[m] = Depth[url] + i
    <3>1. m \in Nodes /\ Parent[m] = stack[i].at /\ Depth[stack[i].at] = Depth[url] + i - 1
      BY <1>4
    <3>2. Depth[m] = Depth[stack[i].at] + 1 /\ i \in Int
      BY <1>1, <3>1
    <3> QED
      BY <1>1, <3>1, <3>2
  <2>2. m \notin Open(stack)
    <3> SUFFICES ASSUME NEW j \in 1 .. k, m = stack[j].at PROVE FALSE
      BY DEF Open
    <3>1. j = i + 1
      BY <1>1, <1>3, <1>4, <2>1
    <3>2. j > 1 /\ j - 1 = i
      BY <3>1, <1>3
    <3> QED
      BY <1>4, <3>2
  <2>3. Parent[m] # Top.at
    <3> SUFFICES ASSUME Parent[m] = Top.at PROVE FALSE
      OBVIOUS
    <3>1. i = k
      BY <1>1, <1>3, <1>4, <2>1, SMTT(30)
    <3> QED
      BY <3>1, <1>4
  <2> QED
    BY <1>1, <1>3, <2>1, <2>2, <2>3
<1>8. HoldsAll(S)
  <2> SUFFICES ASSUME NEW m \in Nodes, Parent[m] \in S PROVE m \in S
    BY DEF HoldsAll
  <2>1. Depth[Parent[m]] > Depth[url] /\ Parent[m] \in Nodes /\ Parent[m] \notin Open(stack)
    OBVIOUS
  <2>2. Depth[m] > Depth[url] + 1
    BY <1>1, <2>1
  <2>3. Top.at \in Open(stack)
    BY <1>3, <1>4 DEF Open
  <2>4. m \notin Open(stack)
    <3> SUFFICES ASSUME NEW j \in 1 .. k, m = stack[j].at PROVE FALSE
      BY DEF Open
    <3>1. j > 1
      BY <1>1, <1>3, <1>4, <2>2
    <3>2. j - 1 \in 1 .. k
      BY <1>3, <3>1
    <3> QED
      BY <1>4, <2>1, <3>1, <3>2 DEF Open
  <2> QED
    BY <1>1, <2>1, <2>2, <2>3, <2>4
<1>9. Pending(stack) \subseteq S
  <2> HIDE DEF S
  <2> S \subseteq Nodes
    BY DEF S
  <2> QED
    BY <1>7, <1>8, PendingLeast
<1> QED
  BY <1>6, <1>9

-------------------------------------------------------------------------------
\* Only a directory holds something.
LEMMA HoldsNothing ==
    ASSUME TypeOK, NEW n \in Nodes, tree.kind[n] # "dir", NEW m \in Nodes
    PROVE  Parent[m] # n
  BY DeleteAssumption DEF TypeOK

\* A name that is removed holds nothing any more.
LEMMA Removed ==
    ASSUME TypeOK, [Next]_vars
    PROVE  /\ there' \subseteq there
           /\ \A n \in there \ there' : tree.kind[n] # "dir" \/ Entries(n) = {}
<1>1. there \subseteq Nodes
  BY DEF TypeOK
<1>2. ASSUME NEW n, NEW slash, NEW below, DelDir(n, slash, below)
      PROVE  /\ there' \subseteq there
             /\ \A m \in there \ there' : tree.kind[m] # "dir"
  BY <1>2 DEF DelDir, Try, CanRemove
<1>3. CASE DeleteRequest
  BY <1>3 DEF DeleteRequest, CanRemove
<1>4. CASE Call
  BY <1>2, <1>4 DEF Call
<1>5. CASE ReadEntry
  <2>1. CASE Passes(Resolve(Top.at))
    <3>1. PICK e \in Top.left : DelDir(e, FALSE, [stack EXCEPT ![Len(stack)].left = @ \ {e}])
      BY <1>5, <2>1 DEF ReadEntry
    <3> QED
      BY <1>2, <3>1
  <2>2. CASE ~Passes(Resolve(Top.at))
    BY <1>5, <2>2 DEF ReadEntry
  <2> QED
    BY <2>1, <2>2
<1>6. CASE DirDone
  BY <1>6 DEF DirDone, Try, CanRmdir
<1>7. CASE Throw
  BY <1>7 DEF Throw
<1>8. CASE UNCHANGED vars
  BY <1>8 DEF vars
<1> QED
  BY <1>3, <1>4, <1>5, <1>6, <1>7, <1>8 DEF Next

LEMMA RootedStep == ASSUME TypeOK, Rooted, [Next]_vars PROVE Rooted'
<1> SUFFICES ASSUME NEW m \in there', Parent[m] # Base PROVE Parent[m] \in there'
  BY DEF Rooted
<1>1. m \in there /\ m \in Nodes /\ Parent[m] \in there /\ there \subseteq Nodes
  BY Removed DEF Rooted, TypeOK
<1>2. m \in Entries(Parent[m])
  BY <1>1 DEF Entries
<1>3. tree.kind[Parent[m]] = "dir"
  BY <1>1, HoldsNothing
<1> QED
  BY <1>1, <1>2, <1>3, Removed

(***************************************************************************)
(* Whatever the walk comes to beside url is below an entry of url, which   *)
(* then is a directory that can be listed and has the rights.              *)
(***************************************************************************)
LEMMA ReachedBelow ==
    ASSUME TypeOK, url \in Nodes, NEW N \in SUBSET Nodes,
           \A n \in N : Parent[n] = Base \/ Parent[n] \in N,
           NEW S \in SUBSET Nodes, HoldsAll(S), {n \in N : Parent[n] = url} \subseteq S
    PROVE  \A n \in N : Reached[n] /\ n # url =>
             n \in S /\ tree.rights[url].list /\ tree.kind[url] = "dir"
<1> DEFINE Good(n) == n \in S /\ tree.rights[url].list /\ tree.kind[url] = "dir"
           B == {n \in N : Reached[n] /\ n # url /\ ~Good(n)}
<1> SUFFICES ASSUME B # {} PROVE FALSE
  OBVIOUS
<1>1. B \subseteq Nodes
  OBVIOUS
<1>2. PICK n \in B : \A m \in B : Depth[n] <= Depth[m]
  <2> HIDE DEF B
  <2> QED
    BY <1>1, Nearest
<1>3. n \in N /\ n \in Nodes /\ n # url /\ Reached[n] /\ ~Good(n)
  BY <1>1, <1>2
<1>4. /\ Parent[n] # Base /\ Reached[Parent[n]] /\ tree.rights[Parent[n]].list
      /\ Parent[n] \in N /\ Parent[n] \in Nodes
  BY <1>3, ReachedDef
<1>5. CASE Parent[n] = url
  <2>1. n \in S
    BY <1>3, <1>5
  <2>2. tree.kind[url] = "dir"
    BY <1>3, <1>5, HoldsNothing
  <2> QED
    BY <1>3, <1>4, <1>5, <2>1, <2>2
<1>6. CASE Parent[n] # url
  <2>1. Parent[n] \notin B
    <3>1. Depth[Parent[n]] \in Nat /\ Depth[n] = Depth[Parent[n]] + 1
      BY <1>3, <1>4, DeleteAssumption DEF Dirs
    <3> QED
      BY <1>2, <3>1
  <2>2. Good(Parent[n])
    BY <1>4, <1>6, <2>1
  <2> QED
    BY <1>3, <2>2 DEF HoldsAll
<1> QED
  BY <1>5, <1>6

\* What a call of del_dir does with a name that exists and is no link, and why.
LEMMA DelDirOutcome ==
    ASSUME TypeOK, LinkFree, NEW n \in there, NEW slash \in BOOLEAN,
           slash => tree.kind[n] = "dir", NEW below, DelDir(n, slash, below)
    PROVE  \/ /\ tree.kind[n] = "dir" /\ tree.rights[n].list
              /\ stack' = Append(below, [at |-> n, left |-> Entries(n)]) /\ there' = there
           \/ /\ tree.kind[n] = "file" /\ stack' = below
              /\ there' = IF tree.rights[Parent[n]].alter THEN there \ {n} ELSE there
           \/ /\ tree.kind[n] = "other" \/ (tree.kind[n] = "dir" /\ ~tree.rights[n].list)
              /\ stack' = below /\ there' = there
<1>1. n \in Nodes /\ Resolve(n) = n
  BY DEF TypeOK, LinkFree, Resolve
<1>2. Stats(n, slash) /\ Mode(n, slash) = {tree.kind[n]}
  BY <1>1 DEF Stats, Mode
<1>3. tree.kind[n] = "dir" => (Lists(n) <=> tree.rights[n].list)
  BY <1>1 DEF Lists, Stats
<1>4. tree.kind[n] = "file" => (CanRemove(n, slash) <=> tree.rights[Parent[n]].alter)
  BY DEF CanRemove, CanUnlink
<1> QED
  BY <1>1, <1>2, <1>3, <1>4 DEF DelDir, Try

-------------------------------------------------------------------------------
\* What a request removes: the walk comes to it, and all in it may go.
Going(n) == Reached[n] /\ Gone[n]

(***************************************************************************)
(* What was removed is what goes; of the rest, what goes is open or still  *)
(* pending; and the walk is in directories that it comes to and can list.  *)
(***************************************************************************)
SweptOf(s, names) ==
    /\ names \subseteq before
    /\ \A n \in before \ names : Going(n)
    /\ \A n \in names : Going(n) => n \in Open(s) \/ n \in Pending(s)
    /\ \A i \in 1 .. Len(s) :
         Reached[s[i].at] /\ tree.kind[s[i].at] = "dir" /\ tree.rights[s[i].at].list

Swept ==
    /\ pc = "call" => there = before
    /\ pc = "del" /\ known => SweptOf(stack, there)

LEMMA SweptSame ==
    ASSUME UNCHANGED <<tree, url, before>>, SweptOf(stack', there')
    PROVE  SweptOf(stack, there)'
<1>1. Reached' = Reached /\ Gone' = Gone
  BY ReachedSame, GoneSame
<1> QED
  BY <1>1 DEF SweptOf, Going, Open, Pending, HoldsAll

\* The walk has come to an end.
LEMMA SweptAll ==
    ASSUME SweptOf(<<>>, there)
    PROVE  before \ there = {n \in before : Going(n)}
<1>1. Open(<<>>) = {}
  BY DEF Open
<1>2. Pending(<<>>) = {}
  <2>1. HoldsAll({})
    BY DEF HoldsAll
  <2> QED
    BY <2>1, PendingLeast
<1> QED
  BY <1>1, <1>2 DEF SweptOf

\* A request for a file.
OnlyFile ==
    \A n \in Nodes : Going(n) <=> n = url /\ tree.rights[Parent[url]].alter

LEMMA FileAlone == TypeOK /\ url \in Nodes /\ tree.kind[url] = "file" => OnlyFile
<1> SUFFICES ASSUME TypeOK, url \in Nodes, tree.kind[url] = "file", NEW n \in Nodes
             PROVE  Going(n) <=> n = url /\ tree.rights[Parent[url]].alter
  BY DEF OnlyFile
<1>1. \A m \in Nodes : Parent[m] = Base \/ Parent[m] \in Nodes
  BY DeleteAssumption DEF Dirs
<1>2. HoldsAll(Nodes)
  BY DEF HoldsAll
<1>3. \A m \in Nodes : Reached[m] /\ m # url => tree.kind[url] = "dir"
  BY <1>1, <1>2, ReachedBelow
<1>4. Reached[url]
  BY ReachedDef
<1>5. Gone[url] <=> tree.rights[Parent[url]].alter
  BY GoneDef
<1> QED
  BY <1>3, <1>4, <1>5 DEF Going

\* The first call of a walk.
LEMMA SweepStarts ==
    ASSUME TypeOK, Rooted, LinkFree, Started, Swept, Call PROVE Swept'
<1> SUFFICES ASSUME known PROVE SweptOf(stack', there')
  BY SweptSame DEF Call, request, Swept
<1>1. /\ url \in there /\ url \in Nodes /\ there \subseteq Nodes /\ tree.kind[url] = "dir"
      /\ there = before /\ DelDir(url, TRUE, <<>>)
  BY DEF TypeOK, Started, IsDir, LinkFree, Resolve, Call, Swept
<1>2. Reached[url]
  BY <1>1, ReachedDef
<1>3. ASSUME NEW S \in SUBSET Nodes, HoldsAll(S), Entries(url) \subseteq S
      PROVE  \A n \in there : Reached[n] /\ n # url => n \in S /\ tree.rights[url].list
  BY <1>1, <1>3, ReachedBelow DEF Rooted, Entries
<1>4. CASE /\ tree.rights[url].list /\ there' = there
           /\ stack' = Append(<<>>, [at |-> url, left |-> Entries(url)])
  <2> DEFINE x == [at |-> url, left |-> Entries(url)]
  <2>1. x \in Frame /\ x.at = url /\ x.left = Entries(url)
    BY <1>1 DEF Frame, Entries
  <2> HIDE DEF x
  <2>2. stack' \in Seq(Frame) /\ Len(stack') = 1 /\ stack'[1] = x
    BY <1>4, <2>1, EmptySeq, Pushed DEF x
  <2>3. HoldsAll(Pending(stack')) /\ Entries(url) \subseteq Pending(stack')
    BY <2>1, <2>2, PendingHolds
  <2>4. Pending(stack') \in SUBSET Nodes
    BY DEF Pending
  <2>5. url \in Open(stack')
    BY <2>1, <2>2 DEF Open
  <2>6. \A n \in there : Reached[n] => n \in Open(stack') \/ n \in Pending(stack')
    BY <1>3, <2>3, <2>4, <2>5
  <2> QED
    BY <1>1, <1>2, <1>4, <2>1, <2>2, <2>6 DEF SweptOf, Going
<1>5. CASE ~tree.rights[url].list /\ stack' = <<>> /\ there' = there
  <2>1. HoldsAll(Nodes) /\ Entries(url) \subseteq Nodes
    BY <1>1 DEF HoldsAll, Entries
  <2>2. \A n \in there : ~Going(n)
    BY <1>1, <1>3, <1>5, <2>1, GoneDef DEF Going
  <2> QED
    BY <1>1, <1>5, <2>2 DEF SweptOf
<1>6. \/ /\ tree.kind[url] = "dir" /\ tree.rights[url].list
         /\ stack' = Append(<<>>, [at |-> url, left |-> Entries(url)]) /\ there' = there
      \/ /\ tree.kind[url] = "file" /\ stack' = <<>>
         /\ there' = IF tree.rights[Parent[url]].alter THEN there \ {url} ELSE there
      \/ /\ tree.kind[url] = "other" \/ (tree.kind[url] = "dir" /\ ~tree.rights[url].list)
         /\ stack' = <<>> /\ there' = there
  BY <1>1, DelDirOutcome, Zenon
<1> QED
  BY <1>1, <1>4, <1>5, <1>6

\* Before readdir gives another entry or nothing more.
LEMMA SweepAt ==
    ASSUME TypeOK, Walk, LinkFree, Swept, pc = "del", known, stack # <<>>
    PROVE  /\ url \in Nodes /\ Framed(stack, there) /\ SweptOf(stack, there)
           /\ stack \in Seq(Frame) /\ there \in SUBSET Nodes /\ before \in SUBSET Nodes
           /\ Len(stack) \in Nat \ {0} /\ Len(stack) \in 1 .. Len(stack) /\ Top = stack[Len(stack)]
           /\ Top.at \in Nodes /\ Top.at \in there /\ Top.at # Base /\ Resolve(Top.at) = Top.at
           /\ Reached[Top.at] /\ tree.kind[Top.at] = "dir" /\ tree.rights[Top.at].list
           /\ \A e \in Nodes : Parent[e] = Top.at =>
                 e # url /\ (Reached[e] <=> tree.rights[Top.at].checked)
<1>1. /\ url \in Nodes /\ Framed(stack, there) /\ SweptOf(stack, there)
      /\ stack \in Seq(Frame) /\ there \in SUBSET Nodes /\ before \in SUBSET Nodes
  BY DEF TypeOK, Frame, Walk, Swept
<1>2. Len(stack) \in Nat \ {0} /\ Len(stack) \in 1 .. Len(stack) /\ Top = stack[Len(stack)]
  BY <1>1, EmptySeq DEF Top
<1>3. Top.at \in there /\ Depth[Top.at] = Depth[url] + Len(stack) - 1
  BY <1>1, <1>2 DEF Framed, IsDir
<1>4. Top.at \in Nodes /\ Top.at # Base /\ Resolve(Top.at) = Top.at
  BY <1>1, <1>3, DeleteAssumption DEF LinkFree, Resolve
<1>5. Reached[Top.at] /\ tree.kind[Top.at] = "dir" /\ tree.rights[Top.at].list
  BY <1>1, <1>2 DEF SweptOf
<1>6. ASSUME NEW e \in Nodes, Parent[e] = Top.at
      PROVE  e # url /\ (Reached[e] <=> tree.rights[Top.at].checked)
  <2>1. Depth[e] = Depth[Top.at] + 1 /\ Depth[url] \in Nat
    BY <1>1, <1>6, DeleteAssumption DEF Dirs
  <2>2. e # url
    BY <1>2, <1>3, <2>1
  <2> QED
    BY <1>4, <1>5, <1>6, <2>2, ReachedDef
<1> QED
  BY <1>1, <1>2, <1>3, <1>4, <1>5, <1>6

\* readdir gives another entry, or the rights stop the walk of a directory.
LEMMA SweepReads ==
    ASSUME TypeOK, Rooted, LinkFree, Walk, Swept, ReadEntry PROVE Swept'
<1> SUFFICES ASSUME known PROVE SweptOf(stack', there')
  BY SweptSame DEF ReadEntry, request, Swept
<1>1. /\ url \in Nodes /\ Framed(stack, there) /\ SweptOf(stack, there)
      /\ stack \in Seq(Frame) /\ there \in SUBSET Nodes /\ before \in SUBSET Nodes
      /\ Len(stack) \in Nat \ {0} /\ Len(stack) \in 1 .. Len(stack) /\ Top = stack[Len(stack)]
      /\ Top.at \in Nodes /\ Top.at \in there /\ Top.at # Base /\ Resolve(Top.at) = Top.at
      /\ Reached[Top.at] /\ tree.kind[Top.at] = "dir" /\ tree.rights[Top.at].list
      /\ \A e \in Nodes : Parent[e] = Top.at =>
            e # url /\ (Reached[e] <=> tree.rights[Top.at].checked)
  BY SweepAt DEF ReadEntry
<1>2. stack # <<>> /\ Top.left # {}
  BY DEF ReadEntry
<1>3. CASE Passes(Resolve(Top.at))
  <2>1. PICK e \in Top.left : DelDir(e, FALSE, [stack EXCEPT ![Len(stack)].left = @ \ {e}])
    BY <1>3 DEF ReadEntry
  <2> DEFINE s == [stack EXCEPT ![Len(stack)].left = @ \ {e}]
             t == Append(s, [at |-> e, left |-> Entries(e)])
  <2>2. /\ s \in Seq(Frame) /\ Len(s) = Len(stack)
        /\ \A i \in 1 .. Len(stack) : s[i].at = stack[i].at
        /\ \A i \in 1 .. Len(stack) - 1 : s[i] = stack[i]
        /\ s[Len(stack)].left = stack[Len(stack)].left \ {e}
    <3>1. stack \in Seq(Frame) /\ stack # <<>>
      BY <1>1, <1>2
    <3> QED
      BY <3>1, Taken, ZenonT(30)
  <2>3. DelDir(e, FALSE, s)
    BY <2>1
  <2> HIDE DEF s
  <2>4. e \in there /\ e \in Nodes /\ Parent[e] = Top.at
    BY <1>1 DEF Framed, LinkFree
  <2>5. Reached[e] /\ e # url
    BY <1>1, <1>3, <2>4 DEF Passes
  <2>6. \A i \in 1 .. Len(stack) : stack[i].left \ {e} \subseteq s[i].left
    <3>1. \A i \in 1 .. Len(stack) : i \in 1 .. Len(stack) - 1 \/ i = Len(stack)
      BY <1>1
    <3> QED
      BY <2>2, <3>1
  <2>7. /\ t \in Seq(Frame) /\ Len(t) = Len(stack) + 1
        /\ t[Len(stack) + 1] = [at |-> e, left |-> Entries(e)]
        /\ \A i \in 1 .. Len(stack) : t[i] = s[i]
    <3>1. [at |-> e, left |-> Entries(e)] \in Frame
      BY <1>1, <2>4 DEF Frame, Entries
    <3> QED
      BY <2>2, <3>1, Pushed
  <2>8. \/ /\ tree.kind[e] = "dir" /\ tree.rights[e].list /\ stack' = t /\ there' = there
        \/ /\ tree.kind[e] = "file" /\ stack' = s
           /\ there' = IF tree.rights[Parent[e]].alter THEN there \ {e} ELSE there
        \/ /\ tree.kind[e] = "other" \/ (tree.kind[e] = "dir" /\ ~tree.rights[e].list)
           /\ stack' = s /\ there' = there
    <3>1. FALSE \in BOOLEAN /\ (FALSE => tree.kind[e] = "dir")
      OBVIOUS
    <3> QED
      BY <2>3, <2>4, <3>1, DelDirOutcome, Zenon
  <2> HIDE DEF t
  <2>9. stack' \in Seq(Frame)
    BY <2>2, <2>7, <2>8
  <2>10. /\ Len(stack) <= Len(stack') /\ Len(stack') \in Nat
         /\ \A i \in 1 .. Len(stack) :
              /\ i \in 1 .. Len(stack') /\ stack'[i].at = stack[i].at
              /\ stack[i].left \ {e} \subseteq stack'[i].left
    BY <1>1, <2>2, <2>6, <2>7, <2>8
  <2>11. \A i \in 1 .. Len(stack) : stack[i].left \ {e} \subseteq Pending(stack')
    BY <2>9, <2>10, PendingHolds
  <2>12. ASSUME NEW m \in there, Parent[m] = e, m # url, Reached[m] PROVE m \in Pending(stack')
    <3>1. tree.kind[e] = "dir"
      BY <1>1, <2>4, <2>12, HoldsNothing
    <3>2. m \in Nodes /\ tree.rights[e].list
      BY <1>1, <2>4, <2>12, ReachedDef
    <3>3. stack' = t
      BY <2>8, <3>1, <3>2
    <3>4. m \in t[Len(stack) + 1].left
      BY <2>7, <2>12 DEF Entries
    <3>5. Len(stack) + 1 \in 1 .. Len(stack')
      BY <1>1, <2>7, <3>3
    <3> QED
      BY <2>9, <3>3, <3>4, <3>5, PendingHolds
  <2>13. \A n \in there : n \in Pending(stack) /\ Reached[n] => n = e \/ n \in Pending(stack')
    BY <1>1, <2>9, <2>11, <2>12, StillPending
  <2>14. \A n \in there : n \in Open(stack) => n \in Open(stack')
    BY <2>10 DEF Open
  <2>15. ASSUME e \in there', Going(e) PROVE e \in Open(stack')
    <3>1. tree.kind[e] \in {"file", "dir"} /\ tree.rights[Parent[e]].alter
          /\ (tree.kind[e] = "dir" => tree.rights[e].list)
      BY <2>4, <2>15, GoneDef DEF Going
    <3>2. stack' = t
      BY <2>8, <2>15, <3>1
    <3>3. stack'[Len(stack) + 1].at = e /\ Len(stack) + 1 \in 1 .. Len(stack')
      BY <1>1, <2>7, <3>2
    <3> QED
      BY <3>3 DEF Open
  <2>16. /\ there' \subseteq there
         /\ e \notin there' => Going(e)
         /\ there \ {e} \subseteq there'
    <3>1. tree.kind[e] = "file" /\ tree.rights[Parent[e]].alter => Going(e)
      BY <2>4, <2>5, GoneDef DEF Going
    <3> QED
      BY <2>4, <2>8, <3>1
  <2>17. \A n \in there' : Going(n) => n \in Open(stack') \/ n \in Pending(stack')
    BY <1>1, <2>13, <2>14, <2>15, <2>16 DEF SweptOf, Going
  <2>18. \A i \in 1 .. Len(stack') :
           /\ Reached[stack'[i].at] /\ tree.kind[stack'[i].at] = "dir"
           /\ tree.rights[stack'[i].at].list
    <3> SUFFICES ASSUME NEW i \in 1 .. Len(stack')
                 PROVE  /\ Reached[stack'[i].at] /\ tree.kind[stack'[i].at] = "dir"
                        /\ tree.rights[stack'[i].at].list
      OBVIOUS
    <3>1. CASE i \in 1 .. Len(stack)
      BY <1>1, <2>10, <3>1 DEF SweptOf
    <3>2. CASE i \notin 1 .. Len(stack)
      <4>1. stack' = t
        BY <2>2, <2>8, <3>2
      <4>2. i = Len(stack) + 1
        BY <1>1, <2>7, <3>2, <4>1
      <4>3. tree.kind[e] = "dir" /\ tree.rights[e].list /\ stack'[i].at = e
        <5>1. stack' # s
          BY <1>1, <2>2, <2>7, <4>1
        <5> QED
          BY <2>7, <2>8, <4>1, <4>2, <5>1
      <4> QED
        BY <2>5, <4>3
    <3> QED
      BY <3>1, <3>2
  <2> QED
    BY <1>1, <2>16, <2>17, <2>18 DEF SweptOf
<1>4. CASE ~Passes(Resolve(Top.at))
  <2>1. stack' = Front(stack) /\ there' = there /\ ~tree.rights[Top.at].checked
    BY <1>1, <1>4 DEF ReadEntry, Passes
  <2>2. /\ stack' \in Seq(Frame) /\ Len(stack') = Len(stack) - 1
        /\ \A i \in 1 .. Len(stack) - 1 : stack'[i] = stack[i]
    BY <1>1, <1>2, <2>1, Popped
  <2>3. \A i \in 1 .. Len(stack) : i \in 1 .. Len(stack') \/ i = Len(stack)
    BY <1>1, <2>2
  <2>4. \A m \in Nodes : Parent[m] = Top.at => ~Reached[m]
    BY <1>1, <2>1
  <2>5. ASSUME NEW i \in 1 .. Len(stack), NEW m \in stack[i].left, Reached[m]
        PROVE  m = Top.at \/ m \in Pending(stack')
    <3>1. i # Len(stack)
      BY <1>1, <2>4, <2>5 DEF Framed
    <3>2. i \in 1 .. Len(stack') /\ stack'[i] = stack[i]
      BY <2>2, <2>3, <3>1
    <3> QED
      BY <2>2, <2>5, <3>2, PendingHolds
  <2>6. \A n \in there : n \in Pending(stack) /\ Reached[n] => n = Top.at \/ n \in Pending(stack')
    BY <1>1, <2>2, <2>4, <2>5, StillPending
  <2>7. \A n \in there : n \in Open(stack) => n = Top.at \/ n \in Open(stack')
    BY <1>1, <2>2, <2>3 DEF Open
  <2>8. ~Going(Top.at)
    <3>1. PICK e \in Top.left : TRUE
      BY <1>2
    <3>2. e \in before /\ Parent[e] = Top.at
      BY <1>1 DEF Framed, SweptOf
    <3> QED
      BY <1>1, <2>1, <3>2, GoneDef DEF Going
  <2>9. \A n \in there' : Going(n) => n \in Open(stack') \/ n \in Pending(stack')
    BY <1>1, <2>1, <2>6, <2>7, <2>8 DEF SweptOf, Going
  <2> QED
    BY <1>1, <2>1, <2>2, <2>9 DEF SweptOf
<1> QED
  BY <1>3, <1>4

\* readdir has given everything; the directory is removed or not.
LEMMA SweepReturns ==
    ASSUME TypeOK, Rooted, LinkFree, Walk, Swept, DirDone PROVE Swept'
<1> SUFFICES ASSUME known PROVE SweptOf(stack', there')
  BY SweptSame DEF DirDone, request, Swept
<1> DEFINE d == Top.at
<1>1. /\ url \in Nodes /\ Framed(stack, there) /\ SweptOf(stack, there)
      /\ stack \in Seq(Frame) /\ there \in SUBSET Nodes /\ before \in SUBSET Nodes
      /\ Len(stack) \in Nat \ {0} /\ Len(stack) \in 1 .. Len(stack) /\ Top = stack[Len(stack)]
      /\ d \in Nodes /\ d \in there /\ d # Base /\ Resolve(d) = d
      /\ Reached[d] /\ tree.kind[d] = "dir" /\ tree.rights[d].list
      /\ \A e \in Nodes : Parent[e] = d =>
            e # url /\ (Reached[e] <=> tree.rights[d].checked)
  BY SweepAt DEF DirDone
<1>2. stack # <<>> /\ Top.left = {} /\ stack' = Front(stack)
  BY DEF DirDone
<1>3. \/ /\ tree.rights[d].roth
         /\ there' = IF CanRmdir(d) THEN there \ {d} ELSE there
      \/ ~tree.rights[d].roth /\ there' = there
  BY <1>1 DEF DirDone, Try
<1>4. CanRmdir(d) <=> tree.rights[Parent[d]].alter /\ Entries(d) = {}
  BY <1>1 DEF CanRmdir, CanUnlink
<1>5. /\ stack' \in Seq(Frame) /\ Len(stack') = Len(stack) - 1
      /\ \A i \in 1 .. Len(stack) - 1 : stack'[i] = stack[i]
  BY <1>1, <1>2, Popped
<1>6. \A i \in 1 .. Len(stack) : i \in 1 .. Len(stack') \/ i = Len(stack)
  BY <1>1, <1>5
<1>7. \A n \in Pending(stack) : n \in Pending(stack')
  <2>1. HoldsAll(Pending(stack')) /\ Pending(stack') \in SUBSET Nodes
    BY <1>5, PendingHolds DEF Pending
  <2>2. ASSUME NEW i \in 1 .. Len(stack) PROVE stack[i].left \subseteq Pending(stack')
    <3>1. CASE i = Len(stack)
      BY <1>1, <1>2, <3>1
    <3>2. CASE i \in 1 .. Len(stack')
      BY <1>1, <1>5, <3>2, PendingHolds
    <3> QED
      BY <1>6, <3>1, <3>2
  <2> QED
    BY <2>1, <2>2, PendingLeast
<1>8. \A n \in there : n \in Open(stack) => n = d \/ n \in Open(stack')
  BY <1>1, <1>5, <1>6 DEF Open
<1> HIDE DEF d
\* What d held was reached, if anything was in it.
<1>9. ASSUME NEW e \in before, Parent[e] = d, tree.rights[d].checked, Gone[e] PROVE Going(e)
  BY <1>1, <1>9 DEF Going
<1>10. ASSUME d \in there', Gone[d] PROVE FALSE
  <2>1. /\ tree.rights[Parent[d]].alter /\ tree.rights[d].roth
        /\ {e \in before : Parent[e] = d} # {} => tree.rights[d].checked
        /\ \A e \in before : Parent[e] = d => Gone[e]
    BY <1>1, <1>10, GoneDef
  <2>2. Entries(d) # {}
    BY <1>1, <1>3, <1>4, <1>10, <2>1
  <2>3. PICK e \in there : Parent[e] = d
    BY <2>2 DEF Entries
  <2>4. e \in Nodes /\ e \in before
    BY <1>1 DEF SweptOf
  <2>5. Going(e)
    BY <1>9, <2>1, <2>3, <2>4
  <2>6. e \notin Pending(stack) /\ e \notin Open(stack)
    BY <1>1, <1>2, <2>3, <2>4, NotPending DEF d
  <2> QED
    BY <1>1, <2>5, <2>6 DEF SweptOf
<1>11. ASSUME d \notin there' PROVE Going(d)
  <2>1. /\ tree.rights[d].roth /\ tree.rights[Parent[d]].alter
        /\ \A e \in before : Parent[e] = d => e \notin there
    BY <1>1, <1>3, <1>4, <1>11 DEF Entries
  <2>2. \A e \in before : Parent[e] = d => Going(e)
    BY <1>1, <2>1 DEF SweptOf
  <2>3. \A e \in before : Parent[e] = d => Gone[e] /\ tree.rights[d].checked
    BY <1>1, <2>2 DEF Going
  <2> QED
    BY <1>1, <2>1, <2>3, GoneDef DEF Going
<1>12. there' \subseteq there /\ there \ {d} \subseteq there'
  BY <1>3
<1>13. \A n \in there' : Going(n) => n \in Open(stack') \/ n \in Pending(stack')
  BY <1>1, <1>7, <1>8, <1>10, <1>12 DEF SweptOf, Going
<1>14. \A n \in before \ there' : Going(n)
  BY <1>1, <1>11, <1>12 DEF SweptOf
<1> QED
  BY <1>1, <1>5, <1>6, <1>12, <1>13, <1>14 DEF SweptOf

SweepInv == Rooted /\ (LinkFree => Swept /\ SameInAnyOrder)

\* Every step keeps it.
LEMMA SweepStep == ASSUME Inv, SweepInv, [Next]_vars PROVE SweepInv'
<1>1. TypeOK /\ TypeOK' /\ Rooted /\ Rooted'
  BY TypeStep, RootedStep DEF Inv, SweepInv
<1>2. LinkFree' <=> LinkFree
  BY DEF LinkFree, Next, DeleteRequest, Call, ReadEntry, DirDone, Throw, request, vars
<1> SUFFICES ASSUME LinkFree PROVE (Swept /\ SameInAnyOrder)'
  BY <1>1, <1>2 DEF SweepInv
<1>3. Started /\ Walk /\ Swept /\ SameInAnyOrder
  BY DEF Inv, SweepInv
<1>4. CASE DeleteRequest
  <2>1. PICK n \in Nodes, slash \in BOOLEAN, mode \in {"refused", "dir", "file", "other"} :
          /\ url' = n
          /\ mode # "refused" => mode \in Mode(n, slash)
          /\ known' = (mode # "refused" /\ Stats(n, slash))
          /\ failed' = IF mode = "file" /\ ~CanRemove(n, slash) THEN {n} ELSE {}
          /\ \/ /\ mode = "refused" /\ answer' \in {404, 405}
                /\ pc' = "idle" /\ UNCHANGED there
             \/ /\ mode = "dir" /\ ~slash /\ answer' = 409
                /\ pc' = "idle" /\ UNCHANGED there
             \/ /\ mode = "dir" /\ slash
                /\ pc' = "call" /\ UNCHANGED <<there, answer>>
             \/ /\ mode = "file"
                /\ there' = IF CanRemove(n, slash) THEN there \ {n} ELSE there
                /\ answer' = status'
                /\ pc' = "idle"
             \/ /\ mode = "other" /\ answer' = 404
                /\ pc' = "idle" /\ UNCHANGED there
    BY <1>4 DEF DeleteRequest
  <2>2. Resolve(n) = n /\ tree' = tree /\ before' = there
    BY <1>4 DEF LinkFree, Resolve, DeleteRequest
  <2>3. pc' # "del" /\ (pc' = "call" => there' = before')
    BY <2>1, <2>2
  <2>4. Swept'
    BY <2>3 DEF Swept
  <2>5. ASSUME (pc = "idle" /\ known /\ LinkFree /\ answer \in {204, 500})'
        PROVE  (before \ there)' = {m \in before' : (Reached[m] /\ Gone[m])'}
    <3>1. mode = "file" /\ Stats(n, slash) /\ mode = tree.kind[n] /\ n \in there
      <4>1. mode # "refused" /\ Stats(n, slash)
        BY <2>1, <2>5
      <4>2. mode = "file"
        BY <2>1, <2>5, <4>1
      <4>3. mode \in Mode(n, slash)
        BY <2>1, <4>1
      <4> QED
        BY <2>2, <4>1, <4>2, <4>3 DEF Stats, Mode
    <3>2. (TypeOK /\ url \in Nodes /\ tree.kind[url] = "file" => OnlyFile)'
      BY FileAlone, PTL
    <3>3. OnlyFile'
      BY <1>1, <2>1, <2>2, <3>1, <3>2
    <3>4. CanRemove(n, slash) <=> tree.rights[Parent[n]].alter
      BY <2>2, <3>1 DEF CanRemove, CanUnlink, Stats
    <3>5. there \subseteq Nodes
      BY <1>1 DEF TypeOK
    <3>6. \A m \in there : (Reached[m] /\ Gone[m])' <=> m = n /\ tree.rights[Parent[n]].alter
      BY <2>1, <2>2, <3>3, <3>5 DEF OnlyFile, Going
    <3> QED
      BY <2>1, <2>2, <3>1, <3>4, <3>6
  <2> QED
    BY <2>4, <2>5 DEF SameInAnyOrder
<1>5. CASE Call
  BY <1>1, <1>3, <1>5, SweepStarts DEF SameInAnyOrder, Call
<1>6. CASE ReadEntry
  BY <1>1, <1>3, <1>6, SweepReads DEF SameInAnyOrder, ReadEntry
<1>7. CASE DirDone
  BY <1>1, <1>3, <1>7, SweepReturns DEF SameInAnyOrder, DirDone
<1>8. CASE Throw
  <2>1. /\ pc = "del" /\ pc' = "idle" /\ known' = known /\ stack = <<>>
        /\ UNCHANGED <<tree, url, before, there>>
    BY <1>8 DEF Throw, request
  <2>2. Reached' = Reached /\ Gone' = Gone
    BY <2>1, ReachedSame, GoneSame
  <2>3. known => before \ there = {m \in before : Reached[m] /\ Gone[m]}
    BY <1>3, <2>1, SweptAll DEF Swept, Going
  <2> QED
    BY <2>1, <2>2, <2>3 DEF Swept, SameInAnyOrder
<1>9. CASE UNCHANGED vars
  <2>1. Reached' = Reached /\ Gone' = Gone
    BY <1>9, ReachedSame, GoneSame DEF vars
  <2>2. SweptOf(stack, there) => SweptOf(stack, there)'
    BY <1>9, SweptSame DEF vars
  <2> QED
    BY <1>2, <1>3, <1>9, <2>1, <2>2 DEF Swept, SameInAnyOrder, vars
<1> QED
  BY <1>4, <1>5, <1>6, <1>7, <1>8, <1>9 DEF Next

(***************************************************************************)
(* In every tree without symbolic links, what DELETE removes does not      *)
(* depend on the order of readdir: it is all that the walk may come to and *)
(* that may go with all that is in it, however many entries failed before  *)
(* (delete.cpp:18-84, 87-120).                                             *)
(***************************************************************************)
THEOREM SameWhateverOrder == Spec => []SameInAnyOrder
<1>1. Init => Inv /\ SweepInv
  <2>1. Init => Rooted
    BY DeleteAssumption DEF Init, Rooted, Dirs
  <2> QED
    BY <2>1, TypeInit DEF Init, Inv, Started, Walk, AnswerTells, SweepInv, Swept, SameInAnyOrder
<1>2. Inv /\ SweepInv /\ [Next]_vars => (Inv /\ SweepInv)'
  BY InvStep, SweepStep
<1>3. SweepInv => SameInAnyOrder
  BY DEF SweepInv, SameInAnyOrder
<1> QED
  BY <1>1, <1>2, <1>3, PTL DEF Spec

===============================================================================
