------------------------------- MODULE Service --------------------------------
(***************************************************************************)
(* What the server promises to those who connect: a connection is taken,   *)
(* is sent the pieces of one response, its own and in order, and is closed *)
(* with the last piece and not before, unless its peer hangs up.  Nothing  *)
(* is promised to a connection that is spoiled; but only one that is taken *)
(* after another was closed in disorder is ever spoiled: after somebody    *)
(* has hung up, or has sent a request on which the server throws something *)
(* else than a status: one whose request line cannot be read, or an upload *)
(* to a location that has no path for it.                                  *)
(***************************************************************************)
EXTENDS Naturals, Sequences, SequencesExt

CONSTANTS
    Conns,      \* the connections, each one used once
    NBlocks,    \* how many blocks follow the head of a response
    NoConn      \* no connection

VARIABLES
    state,      \* "new", "pending", "open", "closed" or "aborted"
    gone,       \* whether the peer has hung up
    odd,        \* the connections whose request throws something else
    spoiled,    \* the connections nothing is promised to
    reply       \* the pieces that were sent

serviceVars == <<state, gone, odd, spoiled, reply>>

Piece == [by : Conns \cup {NoConn}, what : {"head", "body", "whole"}]

Send(c, m) == reply' = [reply EXCEPT ![c] = Append(@, m)]
Close(c) == state' = [state EXCEPT ![c] = "closed"]

Complete(r) ==
    r # <<>> /\ (Last(r).what = "whole" \/ Len(r) = NBlocks + 1)

Disorder ==
    \E c \in Conns :
        state[c] = "closed" /\ (gone[c] \/ c \in odd \/ c \in spoiled)
-------------------------------------------------------------------------------
Init ==
    /\ state = [c \in Conns |-> "new"]
    /\ gone = [c \in Conns |-> FALSE]
    /\ odd = {}
    /\ spoiled = {}
    /\ reply = [c \in Conns |-> <<>>]

Arrive(c) ==
    /\ state[c] = "new"
    /\ state' = [state EXCEPT ![c] = "pending"]
    /\ odd' \in {odd, odd \cup {c}}
    /\ UNCHANGED <<gone, spoiled, reply>>

Drop(c) ==
    /\ state[c] = "pending"
    /\ state' = [state EXCEPT ![c] = "aborted"]
    /\ UNCHANGED <<gone, odd, spoiled, reply>>

Take(c) ==
    /\ state[c] = "pending"
    /\ state' = [state EXCEPT ![c] = "open"]
    /\ \/ UNCHANGED spoiled
       \/ Disorder /\ spoiled' = spoiled \cup {c}
    /\ UNCHANGED <<gone, odd, reply>>

HangUp(c) ==
    /\ state[c] \in {"pending", "open"} /\ ~gone[c]
    /\ gone' = [gone EXCEPT ![c] = TRUE]
    /\ UNCHANGED <<state, odd, spoiled, reply>>

Leave(c) ==
    /\ state[c] = "open" /\ gone[c]
    /\ Close(c)
    /\ UNCHANGED <<gone, odd, spoiled, reply>>

Reply(c) ==
    /\ state[c] = "open" /\ ~gone[c] /\ c \notin spoiled
    /\ \E what \in {"whole", IF reply[c] = <<>> THEN "head" ELSE "body"} :
          Send(c, [by |-> c, what |-> what])
    /\ IF Complete(reply'[c]) THEN Close(c) ELSE UNCHANGED state
    /\ UNCHANGED <<gone, odd, spoiled>>

Anything(c) ==
    /\ state[c] = "open" /\ c \in spoiled
    /\ UNCHANGED reply \/ \E m \in Piece : Send(c, m)
    /\ UNCHANGED state \/ Close(c)
    /\ UNCHANGED <<gone, odd, spoiled>>

Next ==
    \E c \in Conns :
        \/ Arrive(c) \/ Drop(c) \/ Take(c) \/ HangUp(c)
        \/ Leave(c) \/ Reply(c) \/ Anything(c)

Spec == Init /\ [][Next]_serviceVars
===============================================================================
