-------------------------------- MODULE Delete --------------------------------
(***************************************************************************)
(* DELETE: delete_request and del_dir of req_res_post/delete.cpp on a tree *)
(* of files.  Requests come one after another; the recursion of del_dir is *)
(* a stack of open directories, and each step reads one entry, in the      *)
(* order readdir happens to give.  The status is a global variable that    *)
(* outlives a request.                                                     *)
(*                                                                         *)
(* A node is a name in the file system: the root of a location, which is   *)
(* what the name of the location alone stands for, a name below it, or one *)
(* that links lead to.  Requests may name any of them, the root too, and   *)
(* del_dir then removes it like any other directory.  A link is a symbolic *)
(* link to another node: stat looks through it, remove and rmdir do not.   *)
(* What stat leaves in its buffer when it fails is whatever was there:     *)
(* such a node may be taken for anything.  That the system follows only    *)
(* some forty links in one path is left out: it ends the walk of a loop of *)
(* links, which here goes on for ever.                                     *)
(***************************************************************************)
EXTENDS Integers, Sequences, FiniteSets, SequencesExt

CONSTANTS
    Nodes,          \* what requests come to: the root of a location and all below
    Base,           \* the directory in which that root lies
    Parent,         \* the directory of each name
    Depth,          \* how far a name is below Base
    Trees,          \* the trees considered, see Tree
    MaxRequests     \* bound: requests in a row

Dirs == Nodes \cup {Base}

(***************************************************************************)
(* The rights of a directory: checked, the six bits del_dir asks for       *)
(* before it goes into it; roth, the bit it asks for before rmdir; and     *)
(* what the system will really do: list, opendir succeeds, and alter,      *)
(* entries can be removed.                                                 *)
(***************************************************************************)
Rights == [checked : BOOLEAN, roth : BOOLEAN, list : BOOLEAN, alter : BOOLEAN]
Tree == [kind   : [Nodes -> {"dir", "file", "other", "link"}],
         target : [Nodes -> Nodes],         \* of a link, what it finally leads to
         rights : [Dirs -> Rights]]

ASSUME DeleteAssumption ==
    /\ Base \notin Nodes
    /\ Parent \in [Nodes -> Dirs]
    /\ Depth \in [Dirs -> Nat]
    /\ \A n \in Nodes : Depth[n] = Depth[Parent[n]] + 1
    /\ Trees \subseteq Tree
    /\ \A t \in Trees : \A d \in Dirs : t.rights[d].checked => t.rights[d].roth
    /\ \A t \in Trees : \A n \in Nodes : Parent[n] # Base => t.kind[Parent[n]] = "dir"
    /\ \A t \in Trees : \A n \in Nodes : t.kind[t.target[n]] # "link"
    /\ MaxRequests \in Nat

VARIABLES
    tree,               \* the tree at the beginning
    there,              \* the names that exist
    status,             \* the global status
    pc, stack,          \* "idle", "call" or "del"; the directories that are open
    url, answer,        \* the last request (Base: none) and its answer
    known,              \* history: its path existed, and stat did not fail
    before,             \* history: what existed when it came
    failed,             \* history: its calls of remove and rmdir that failed
    requests            \* how many there were

vars == <<tree, there, status, pc, stack, url, answer, known, before, failed, requests>>
-------------------------------------------------------------------------------
Resolve(n) == IF tree.kind[n] = "link" THEN tree.target[n] ELSE n

\* Mutant of Entries: ".." is not left out.
EntriesWithParent(d) == {n \in there : Parent[n] = d \/ n = Parent[d]}
Entries(d) == {n \in there : Parent[n] = d}

\* stat succeeds; with a slash at the end, only for a directory.
Stats(n, slash) ==
    {n, Resolve(n)} \subseteq there /\ (slash => tree.kind[Resolve(n)] = "dir")

\* What st_mode may say.
Mode(n, slash) ==
    IF Stats(n, slash) THEN {tree.kind[Resolve(n)]} ELSE {"dir", "file", "other"}

\* opendir succeeds.
Lists(n) == Stats(n, TRUE) /\ tree.rights[Resolve(n)].list

\* remove and rmdir work on the name itself; nobody looks at what they return.
CanUnlink(n) == n \in there /\ tree.rights[Parent[n]].alter
CanRemove(n, slash) == CanUnlink(n) /\ ~slash /\ tree.kind[n] # "dir"
CanRmdir(n) == CanUnlink(n) /\ tree.kind[n] = "dir" /\ Entries(n) = {}

Try(can, n) ==
    /\ there' = IF can THEN there \ {n} ELSE there
    /\ failed' = IF can THEN failed ELSE failed \cup {n}

\* Mutant of Passes: the rights are not looked at.
PassesAlways(d) == TRUE
Passes(d) == tree.rights[d].checked

-------------------------------------------------------------------------------
\* del_dir up to its loop; below is the stack of the calls under it.
DelDir(n, slash, below) ==
    \E mode \in Mode(n, slash) :
        \/ /\ mode = "dir" /\ Lists(n)
           /\ stack' = Append(below, [at |-> n, left |-> Entries(Resolve(n))])
           /\ UNCHANGED <<there, failed, status>>
        \/ /\ mode = "file"
           /\ Try(CanRemove(n, slash), n)
           /\ stack' = below /\ UNCHANGED status
        \/ /\ mode = "other" \/ (mode = "dir" /\ ~Lists(n))
           /\ status' = 500 /\ stack' = below
           /\ UNCHANGED <<there, failed>>

Top == stack[Len(stack)]
request == <<tree, url, known, before, requests>>

\* The first call, from delete_request.
Call ==
    /\ pc = "call" /\ pc' = "del"
    /\ DelDir(url, TRUE, <<>>)
    /\ UNCHANGED <<request, answer>>

\* readdir gives another entry of the innermost directory.
ReadEntry ==
    /\ pc = "del" /\ stack # <<>> /\ Top.left # {}
    /\ IF Passes(Resolve(Top.at))
       THEN \E e \in Top.left :
              DelDir(e, FALSE, [stack EXCEPT ![Len(stack)].left = @ \ {e}])
       ELSE status' = 500 /\ stack' = Front(stack) /\ UNCHANGED <<there, failed>>
    /\ UNCHANGED <<request, pc, answer>>

\* readdir gives no more.
DirDone ==
    /\ pc = "del" /\ stack # <<>> /\ Top.left = {}
    /\ stack' = Front(stack)
    /\ IF tree.rights[Resolve(Top.at)].roth
       THEN Try(CanRmdir(Top.at), Top.at) /\ UNCHANGED status
       ELSE status' = 500 /\ UNCHANGED <<there, failed>>
    /\ UNCHANGED <<request, pc, answer>>

\* The outermost call has returned; the status is thrown to the driver.
Throw ==
    /\ pc = "del" /\ stack = <<>>
    /\ answer' = status /\ pc' = "idle"
    /\ UNCHANGED <<request, there, failed, status, stack>>

\* Mutant of InitStatus: the status of the request before is kept.
OldStatus == status
InitStatus == 204

(***************************************************************************)
(* delete_request, up to the call of del_dir or to an answer, for a path   *)
(* with or without a slash at its end; the path of a root has one, unless  *)
(* it was named through "..".  "refused" is what routing throws: no        *)
(* location, or one without DELETE.                                        *)
(***************************************************************************)
DeleteRequest ==
    /\ pc = "idle" /\ requests < MaxRequests
    /\ requests' = requests + 1 /\ before' = there
    /\ status' = InitStatus /\ UNCHANGED <<tree, stack>>
    /\ \E n \in Nodes, slash \in BOOLEAN, mode \in {"refused", "dir", "file", "other"} :
        /\ url' = n
        /\ mode # "refused" => mode \in Mode(n, slash)
        /\ known' = (mode # "refused" /\ Stats(n, slash))
        /\ failed' = IF mode = "file" /\ ~CanRemove(n, slash) THEN {n} ELSE {}
        /\ \/ /\ mode = "refused" /\ answer' \in {404, 405}
              /\ pc' = "idle" /\ UNCHANGED there
           \/ /\ mode = "dir" /\ ~slash /\ answer' = 409
              /\ pc' = "idle" /\ UNCHANGED there
           \/ /\ mode = "dir" /\ slash
              /\ pc' = "call" /\ UNCHANGED <<there, answer>>
           \/ /\ mode = "file"
              /\ there' = IF CanRemove(n, slash) THEN there \ {n} ELSE there
              /\ answer' = status'
              /\ pc' = "idle"
           \/ /\ mode = "other" /\ answer' = 404
              /\ pc' = "idle" /\ UNCHANGED there

Init ==
    /\ tree \in Trees /\ there = Nodes
    /\ status = 0 /\ pc = "idle" /\ stack = <<>>
    /\ url = Base /\ answer = 0 /\ known = FALSE
    /\ before = Nodes /\ failed = {} /\ requests = 0

Next == DeleteRequest \/ Call \/ ReadEntry \/ DirDone \/ Throw

Spec == Init /\ [][Next]_vars
-------------------------------------------------------------------------------
Statuses == {0, 204, 404, 405, 409, 500}

TypeOK ==
    /\ tree \in Trees /\ there \subseteq Nodes
    /\ status \in Statuses /\ answer \in Statuses
    /\ pc \in {"idle", "call", "del"}
    /\ stack \in Seq([at : Nodes, left : SUBSET Nodes])
    /\ url \in Dirs /\ (pc # "idle" => url \in Nodes) /\ known \in BOOLEAN
    /\ before \subseteq Nodes /\ failed \subseteq Nodes
    /\ requests \in 0 .. MaxRequests

(***************************************************************************)
(* The answer tells what became of a path that existed, as far as the code *)
(* knows it: after 500 it is still there, after 204 it is gone unless a    *)
(* call of remove or rmdir failed, whatever the request before it left in  *)
(* the global status.                                                      *)
(***************************************************************************)
AnswerTells ==
    pc = "idle" /\ known =>
        /\ answer # 204 => url \in there
        /\ answer = 204 /\ failed = {} => url \notin there

LinkFree == \A n \in Nodes : tree.kind[n] # "link"

\* What del_dir of a node leaves nothing of, when nothing is a link.
Gone[n \in Nodes] ==
    LET inside == {e \in before : Parent[e] = n}
    IN  /\ tree.rights[Parent[n]].alter
        /\ \/ tree.kind[n] = "file"
           \/ /\ tree.kind[n] = "dir" /\ tree.rights[n].list /\ tree.rights[n].roth
              /\ inside # {} => tree.rights[n].checked
              /\ \A e \in inside : Gone[e]

\* The nodes that del_dir of url comes to.
Reached[n \in Nodes] ==
    n = url \/ LET d == Parent[n]
               IN  d # Base /\ Reached[d] /\ tree.rights[d].list /\ tree.rights[d].checked

(***************************************************************************)
(* When nothing is a link, what a request removes does not depend on the   *)
(* order in which readdir gives the entries, nor on an entry that failed   *)
(* before them: every node the walk may go to goes, if all that is below   *)
(* it may go.                                                              *)
(***************************************************************************)
SameInAnyOrder ==
    pc = "idle" /\ known /\ LinkFree /\ answer \in {204, 500} =>
        before \ there = {n \in before : Reached[n] /\ Gone[n]}

\* What is below a node, through links too.
Below[n \in Nodes] ==
    UNION {{e} \cup Below[e] : e \in {e \in Nodes : Parent[e] = Resolve(n)}}

(***************************************************************************)
(* Whatever is removed is what the request names, or lies below it, or     *)
(* below what a symbolic link below it points to (which may be outside of  *)
(* every location), in a directory with the six rights the code asks for.  *)
(***************************************************************************)
OnlyWhatPasses ==
    [][\A n \in there \ there' :
          \/ n = url'
          \/ n \in Below[url] /\ tree.rights[Parent[n]].checked]_vars
===============================================================================
