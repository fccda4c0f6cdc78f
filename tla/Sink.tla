--------------------------------- MODULE Sink ---------------------------------
(***************************************************************************)
(* What an upload promises: the files of the body appear one after the     *)
(* other, each grows at its end only and only with what the sender means,  *)
(* and the answer 201 comes when the last one is complete.  An upload may  *)
(* be refused, or stop, at any time.                                       *)
(***************************************************************************)
EXTENDS Sequences, SequencesExt

VARIABLES
    parts,      \* the contents the sender means, a sequence of sequences
    files,      \* the contents of the files so far
    status      \* "more", or the answer

Grows(old, new) ==
    /\ Len(old) <= Len(new)
    /\ \A i \in DOMAIN old : IsPrefix(old[i], new[i])

OnTheWay(fs) ==
    /\ Len(fs) <= Len(parts)
    /\ \A i \in DOMAIN fs :
          /\ IsPrefix(fs[i], parts[i])
          /\ i < Len(fs) => fs[i] = parts[i]

Init == files = <<>> /\ status = "more"

Store ==
    /\ status = "more" /\ UNCHANGED <<parts, status>>
    /\ Grows(files, files') /\ OnTheWay(files')

Created ==
    /\ status = "more" /\ status' = "201" /\ UNCHANGED parts
    /\ Grows(files, files') /\ files' = parts

Refuse ==
    /\ status = "more" /\ status' \notin {"more", "201"}
    /\ UNCHANGED <<parts, files>>

Next == Store \/ Created \/ Refuse

Spec == Init /\ [][Next]_<<parts, files, status>>
===============================================================================
