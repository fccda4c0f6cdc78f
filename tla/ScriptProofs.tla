----------------------------- MODULE ScriptProofs ------------------------------
(***************************************************************************)
(* Proofs about scripts, for any number of clients and uploads, any time   *)
(* limit, and whatever a script writes and however it ends.                *)
(***************************************************************************)
EXTENDS Script, SequenceTheorems, TLAPS

(***************************************************************************)
(* Between two requests nobody waits for a script; the server waits for    *)
(* the script of the client at.                                            *)
(***************************************************************************)
Turns == \A c \in Clients : conn[c] = "run" <=> pc # "idle" /\ at = c

\* How far a process is, and how it ended.
Processes ==
    \A c \in Clients :
        /\ end[c] = "none" <=> process[c] \in {"none", "forked", "running"}
        /\ process[c] = "reaped" => end[c] # "killed"
        /\ conn[c] = "new" => process[c] = "none"

\* What the wait loop has found out when it stands at pc.
Waiting ==
    /\ pc \in {"idle", "fork"} => status = "none"
    /\ pc = "fork" => process[at] = "none"
    /\ pc \in {"poll", "clock"} =>
         process[at] # "none" /\ end[at] # "killed"
         /\ status = IF process[at] = "reaped" THEN end[at] ELSE "none"
    /\ pc = "answer" =>
         \/ status = "one" /\ process[at] = "none"
         \/ status = end[at] /\ process[at] = "reaped"
         \/ status = "minusOne" /\ process[at] \in {"zombie", "reaped"}

\* What has become of a client that was answered.
Answered ==
    \A c \in Clients :
        /\ answer[c] # 0 => conn[c] \in {"lines", "closed"} /\ ~input[c]
        /\ conn[c] = "lines" => answer[c] = 200
        /\ conn[c] \in {"new", "run"} => sent[c] = 0
        /\ conn[c] = "lines" /\ reads[c] => sent[c] <= output[c].lines

\* AnswerMatchesEnd, also while the server waits.
Ended ==
    \A c \in Clients :
        /\ answer[c] = 200 =>
             process[c] = "none" \/ (process[c] = "reaped" /\ end[c] \in {"zero", "signal"})
        /\ answer[c] = 500 => process[c] = "reaped" /\ end[c] = "code"
        /\ answer[c] = 504 => process[c] \in {"zombie", "reaped"}
        /\ end[c] = "killed" =>
             answer[c] = 504 \/ (pc = "answer" /\ at = c /\ status = "minusOne")

\* LeftBehind, also while the server waits.
Remains ==
    \A c \in Clients :
        /\ process[c] \in {"forked", "running", "zombie"} =>
             answer[c] = 504 \/ (pc # "idle" /\ at = c)
        /\ conn[c] = "closed" /\ output[c].exists =>
             answer[c] # 200 \/ ~reads[c] \/ sent[c] <= output[c].lines
        /\ conn[c] = "closed" /\ input[c] => answer[c] = 0

Inv == TypeOK /\ Turns /\ Processes /\ Waiting /\ Answered /\ Ended /\ Remains
-------------------------------------------------------------------------------
\* The three things a stream may do with a piece.
LEMMA SpilledForms ==
    ASSUME NEW u, NEW piece, NEW s \in Spilled(u, piece)
    PROVE  \/ s.file = file[u] /\ s.buffer = buffer[u] \o piece
           \/ s.file = file[u] \o buffer[u] /\ s.buffer = piece
           \/ s.file = (file[u] \o buffer[u]) \o piece /\ s.buffer = <<>>
<1> DEFINE held == buffer[u] \o piece
           old  == file[u] \o buffer[u]
           all  == (file[u] \o buffer[u]) \o piece
           none == <<>>
<1>1. \/ s = [file |-> file[u], buffer |-> held]
      \/ s = [file |-> old, buffer |-> piece]
      \/ s = [file |-> all, buffer |-> none]
  BY DEF Spilled
<1> HIDE DEF held, old, all, none
<1>2. \/ s.file = file[u] /\ s.buffer = held
      \/ s.file = old /\ s.buffer = piece
      \/ s.file = all /\ s.buffer = none
  BY <1>1
<1> QED
  BY <1>2 DEF held, old, all, none

\* Every step keeps the types.
LEMMA TypeStep == ASSUME TypeOK, [Next]_vars PROVE TypeOK'
<1>1. process \in [Clients -> {"none", "forked", "running", "zombie", "reaped"}] /\ at \in Clients
  BY DEF TypeOK
<1>2. output \in [Clients -> [exists : BOOLEAN, lines : Nat]]
  BY DEF TypeOK
<1>3. reads \in [Clients -> BOOLEAN]
  BY DEF TypeOK
<1>4. /\ received \in [Uploads -> Seq(Nat)] /\ file \in [Uploads -> Seq(Nat)]
      /\ buffer \in [Uploads -> Seq(Nat)]
  BY DEF TypeOK
<1>5. ASSUME Fork PROVE TypeOK'
  <2>1. process' \in [Clients -> {"none", "forked", "running", "zombie", "reaped"}]
    BY <1>1, <1>5 DEF Fork, childVars
  <2>2. status' \in Ends \cup {"one", "minusOne"} /\ pc' \in {"poll", "answer"}
    BY <1>5 DEF Fork, TypeOK, Ends
  <2>3. UNCHANGED <<at, elapsed, end, output, clientVars, uploadVars>> /\ now' \in {now, 0, elapsed}
    BY <1>5 DEF Fork, timeVars, childVars
  <2> QED
    BY <2>1, <2>2, <2>3, ScriptAssumption, SMTT(30) DEF TypeOK, clientVars, uploadVars
<1>6. ASSUME Poll PROVE TypeOK'
  <2>1. process' \in [Clients -> {"none", "forked", "running", "zombie", "reaped"}]
    BY <1>1, <1>6 DEF Poll
  <2> QED
    BY <1>6, <2>1, ScriptAssumption, SMTT(30) DEF TypeOK, Ends, Poll, timeVars, childVars, clientVars, uploadVars
<1>7. ASSUME ReadClock PROVE TypeOK'
  BY <1>7, ScriptAssumption DEF TypeOK, Ends, ReadClock, Reading, timeVars, childVars, clientVars, uploadVars
<1>8. ASSUME TimeOut PROVE TypeOK'
  BY <1>8, ScriptAssumption DEF TypeOK, Ends, TimeOut, Alive, timeVars, childVars, clientVars, uploadVars
<1>9. ASSUME Respond PROVE TypeOK'
  <2>1. reads' \in [Clients -> BOOLEAN]
    BY <1>1, <1>2, <1>3, <1>9 DEF Respond
  <2>2. answer' \in [Clients -> {0, 200, 500, 504}]
    BY <1>1, <1>9 DEF Respond, Verdict, TypeOK
  <2>3. conn' \in [Clients -> {"new", "run", "lines", "closed"}]
    BY <1>1, <1>9 DEF Respond, TypeOK
  <2>4. input' \in [Clients -> BOOLEAN]
    BY <1>1, <1>9 DEF Respond, TypeOK
  <2>5. /\ pc' = "idle" /\ at' = at /\ elapsed' = 0 /\ now' = 0 /\ status' = "none"
        /\ UNCHANGED <<childVars, sent, uploadVars>>
    BY <1>9 DEF Respond
  <2>6. elapsed' \in 0 .. Limit /\ now' \in 0 .. Limit
    BY <2>5, ScriptAssumption
  <2> QED
    BY <2>1, <2>2, <2>3, <2>4, <2>5, <2>6 DEF TypeOK, Ends, childVars, uploadVars
<1>10. ASSUME Tick PROVE TypeOK'
  BY <1>10, ScriptAssumption DEF TypeOK, Ends, Tick, timeVars, childVars, clientVars, uploadVars
<1>11. ASSUME NEW c \in Clients, CgiInit(c) PROVE TypeOK'
  <2>1. output' \in [Clients -> [exists : BOOLEAN, lines : Nat]]
    BY <1>2, <1>11 DEF CgiInit
  <2> QED
    BY <1>11, <2>1, ScriptAssumption DEF TypeOK, Ends, CgiInit, timeVars, childVars, clientVars, uploadVars
<1>12. ASSUME NEW c \in Clients, NextLine(c) PROVE TypeOK'
  <2>1. output' \in [Clients -> [exists : BOOLEAN, lines : Nat]]
    BY <1>2, <1>12 DEF NextLine, OutputAfter
  <2> QED
    BY <1>12, <2>1, ScriptAssumption, SMTT(30) DEF TypeOK, Ends, NextLine, OutputAfter, AtEnd, timeVars, childVars, clientVars, uploadVars
<1>13. ASSUME NEW c \in Clients, HangUp(c) PROVE TypeOK'
  BY <1>13, ScriptAssumption DEF TypeOK, Ends, HangUp, timeVars, childVars, clientVars, uploadVars
<1>14. ASSUME NEW c \in Clients, Exec(c) PROVE TypeOK'
  BY <1>14, ScriptAssumption DEF TypeOK, Ends, Exec, timeVars, childVars, clientVars, uploadVars
<1>15. ASSUME NEW c \in Clients, ExecFails(c) PROVE TypeOK'
  BY <1>15, ScriptAssumption DEF TypeOK, Ends, ExecFails, timeVars, childVars, clientVars, uploadVars
<1>16. ASSUME NEW c \in Clients, PutLine(c) PROVE TypeOK'
  <2>1. output' \in [Clients -> [exists : BOOLEAN, lines : Nat]]
    BY <1>2, <1>16 DEF PutLine
  <2> QED
    BY <1>16, <2>1, ScriptAssumption DEF TypeOK, Ends, PutLine, timeVars, childVars, clientVars, uploadVars
<1>17. ASSUME NEW c \in Clients, Exit(c) PROVE TypeOK'
  BY <1>17, ScriptAssumption DEF TypeOK, Ends, Exit, timeVars, childVars, clientVars, uploadVars
<1>18. ASSUME NEW u \in Uploads, Store(u) PROVE TypeOK'
  <2> DEFINE piece == <<Len(received[u]) + 1>>
  <2>1. piece \in Seq(Nat) /\ received[u] \in Seq(Nat) /\ file[u] \in Seq(Nat) /\ buffer[u] \in Seq(Nat)
    BY <1>4, <1>18
  <2> HIDE DEF piece
  <2>2. /\ received[u] \o piece \in Seq(Nat) /\ buffer[u] \o piece \in Seq(Nat)
        /\ file[u] \o buffer[u] \in Seq(Nat) /\ (file[u] \o buffer[u]) \o piece \in Seq(Nat)
        /\ <<>> \in Seq(Nat)
    BY <2>1, ConcatProperties, EmptySeq
  <2>3. \A s \in Spilled(u, piece) : s.file \in Seq(Nat) /\ s.buffer \in Seq(Nat)
    <3> SUFFICES ASSUME NEW s \in Spilled(u, piece) PROVE s.file \in Seq(Nat) /\ s.buffer \in Seq(Nat)
      OBVIOUS
    <3> QED
      BY <2>1, <2>2, SpilledForms
  <2>4. /\ received' \in [Uploads -> Seq(Nat)] /\ file' \in [Uploads -> Seq(Nat)]
        /\ buffer' \in [Uploads -> Seq(Nat)]
    BY <1>4, <1>18, <2>2, <2>3 DEF Store, piece
  <2> QED
    BY <1>18, <2>4, ScriptAssumption DEF TypeOK, Ends, Store, timeVars, childVars, clientVars, uploadVars
<1>19. ASSUME NEW u \in Uploads, Finish(u) PROVE TypeOK'
  <2>1. file' \in [Uploads -> Seq(Nat)] /\ buffer' \in [Uploads -> Seq(Nat)]
    BY <1>4, <1>19 DEF Finish
  <2> QED
    BY <1>19, <2>1, ScriptAssumption DEF TypeOK, Ends, Finish, timeVars, childVars, clientVars, uploadVars
<1>20. CASE UNCHANGED vars
  BY <1>20 DEF TypeOK, vars, timeVars, childVars, clientVars, uploadVars
<1> QED
  BY <1>5, <1>6, <1>7, <1>8, <1>9, <1>10, <1>11, <1>12, <1>13, <1>14, <1>15, <1>16, <1>17, <1>18, <1>19, <1>20 DEF Next, Wait, Serve, Child

\* The initial states satisfy the invariant.
LEMMA InvInit == Init => Inv
<1> SUFFICES ASSUME Init PROVE Inv
  OBVIOUS
<1>1. at \in Clients
  BY ScriptAssumption DEF Init
<1>2. TypeOK
  BY <1>1, ScriptAssumption DEF Init, TypeOK, Ends
<1> QED
  BY <1>2 DEF Init, Inv, Turns, Processes, Waiting, Answered, Ended, Remains

\* Every step keeps the invariant.
LEMMA InvStep == ASSUME Inv, [Next]_vars PROVE Inv'
<1> USE ScriptAssumption DEF Inv
<1>1. TypeOK /\ TypeOK'
  BY TypeStep
<1>2. ASSUME Fork PROVE Inv'
  <2>1. Turns'
    BY <1>1, <1>2 DEF TypeOK, Ends, Turns, Fork, timeVars, childVars, clientVars, uploadVars
  <2>2. Processes'
    BY <1>1, <1>2 DEF TypeOK, Ends, Turns, Processes, Waiting, Fork, timeVars, childVars, clientVars, uploadVars
  <2>3. Waiting'
    BY <1>1, <1>2 DEF TypeOK, Ends, Turns, Processes, Waiting, Fork, timeVars, childVars, clientVars, uploadVars
  <2>4. Answered'
    BY <1>1, <1>2 DEF TypeOK, Ends, Turns, Answered, Fork, timeVars, childVars, clientVars, uploadVars
  <2>5. Ended'
    <3>1. conn[at] = "run" /\ answer[at] = 0 /\ end[at] = "none"
      BY <1>1, <1>2, ZenonT(30) DEF TypeOK, Turns, Answered, Processes, Waiting, Fork
    <3> QED
      BY <1>1, <1>2, <3>1 DEF TypeOK, Ended, Fork, timeVars, childVars, clientVars, uploadVars
  <2>6. Remains'
    BY <1>1, <1>2 DEF TypeOK, Ends, Turns, Processes, Waiting, Answered, Ended, Remains, Fork, timeVars, childVars, clientVars, uploadVars
  <2> QED
    BY <1>1, <2>1, <2>2, <2>3, <2>4, <2>5, <2>6
<1>3. ASSUME Poll PROVE Inv'
  <2>1. Turns'
    BY <1>1, <1>3 DEF TypeOK, Ends, Turns, Poll, timeVars, childVars, clientVars, uploadVars
  <2>2. Processes'
    BY <1>1, <1>3 DEF TypeOK, Ends, Turns, Processes, Waiting, Poll, timeVars, childVars, clientVars, uploadVars
  <2>3. Waiting'
    BY <1>1, <1>3 DEF TypeOK, Ends, Turns, Processes, Waiting, Poll, timeVars, childVars, clientVars, uploadVars
  <2>4. Answered'
    BY <1>1, <1>3 DEF TypeOK, Ends, Turns, Answered, Poll, timeVars, childVars, clientVars, uploadVars
  <2>5. Ended'
    BY <1>1, <1>3 DEF TypeOK, Ends, Turns, Processes, Waiting, Answered, Ended, Poll, timeVars, childVars, clientVars, uploadVars
  <2>6. Remains'
    BY <1>1, <1>3 DEF TypeOK, Ends, Turns, Processes, Waiting, Answered, Ended, Remains, Poll, timeVars, childVars, clientVars, uploadVars
  <2> QED
    BY <1>1, <2>1, <2>2, <2>3, <2>4, <2>5, <2>6
<1>4. ASSUME ReadClock PROVE Inv'
  <2>1. Turns'
    BY <1>1, <1>4 DEF TypeOK, Ends, Turns, ReadClock, Reading, timeVars, childVars, clientVars, uploadVars
  <2>2. Processes'
    BY <1>1, <1>4 DEF TypeOK, Ends, Turns, Processes, Waiting, ReadClock, Reading, timeVars, childVars, clientVars, uploadVars
  <2>3. Waiting'
    BY <1>1, <1>4 DEF TypeOK, Ends, Turns, Processes, Waiting, ReadClock, Reading, timeVars, childVars, clientVars, uploadVars
  <2>4. Answered'
    BY <1>1, <1>4 DEF TypeOK, Ends, Turns, Answered, ReadClock, Reading, timeVars, childVars, clientVars, uploadVars
  <2>5. Ended'
    BY <1>1, <1>4 DEF TypeOK, Ends, Turns, Processes, Waiting, Answered, Ended, ReadClock, Reading, timeVars, childVars, clientVars, uploadVars
  <2>6. Remains'
    BY <1>1, <1>4 DEF TypeOK, Ends, Turns, Processes, Waiting, Answered, Ended, Remains, ReadClock, Reading, timeVars, childVars, clientVars, uploadVars
  <2> QED
    BY <1>1, <2>1, <2>2, <2>3, <2>4, <2>5, <2>6
<1>5. ASSUME TimeOut PROVE Inv'
  <2>1. Turns'
    BY <1>1, <1>5 DEF TypeOK, Ends, Turns, TimeOut, Alive, timeVars, childVars, clientVars, uploadVars
  <2>2. Processes'
    BY <1>1, <1>5 DEF TypeOK, Ends, Turns, Processes, Waiting, TimeOut, Alive, timeVars, childVars, clientVars, uploadVars
  <2>3. Waiting'
    BY <1>1, <1>5 DEF TypeOK, Ends, Turns, Processes, Waiting, TimeOut, Alive, timeVars, childVars, clientVars, uploadVars
  <2>4. Answered'
    BY <1>1, <1>5 DEF TypeOK, Ends, Turns, Answered, TimeOut, Alive, timeVars, childVars, clientVars, uploadVars
  <2>5. Ended'
    BY <1>1, <1>5 DEF TypeOK, Ends, Turns, Processes, Waiting, Answered, Ended, TimeOut, Alive, timeVars, childVars, clientVars, uploadVars
  <2>6. Remains'
    BY <1>1, <1>5 DEF TypeOK, Ends, Turns, Processes, Waiting, Answered, Ended, Remains, TimeOut, Alive, timeVars, childVars, clientVars, uploadVars
  <2> QED
    BY <1>1, <2>1, <2>2, <2>3, <2>4, <2>5, <2>6
<1>6. ASSUME Respond PROVE Inv'
  <2>1. Turns'
    BY <1>1, <1>6 DEF TypeOK, Ends, Turns, Respond, Verdict, timeVars, childVars, clientVars, uploadVars
  <2>2. Processes'
    BY <1>1, <1>6 DEF TypeOK, Ends, Turns, Processes, Waiting, Respond, Verdict, timeVars, childVars, clientVars, uploadVars
  <2>3. Waiting'
    BY <1>1, <1>6 DEF TypeOK, Ends, Turns, Processes, Waiting, Respond, Verdict, timeVars, childVars, clientVars, uploadVars
  <2>4. Answered'
    BY <1>1, <1>6 DEF TypeOK, Ends, Turns, Answered, Respond, Verdict, timeVars, childVars, clientVars, uploadVars
  <2>5. Ended'
    BY <1>1, <1>6 DEF TypeOK, Ends, Turns, Processes, Waiting, Answered, Ended, Respond, Verdict, timeVars, childVars, clientVars, uploadVars
  <2>6. Remains'
    BY <1>1, <1>6 DEF TypeOK, Ends, Turns, Processes, Waiting, Answered, Ended, Remains, Respond, Verdict, timeVars, childVars, clientVars, uploadVars
  <2> QED
    BY <1>1, <2>1, <2>2, <2>3, <2>4, <2>5, <2>6
<1>7. ASSUME Tick PROVE Inv'
  <2>1. Turns'
    BY <1>1, <1>7 DEF TypeOK, Ends, Turns, Tick, timeVars, childVars, clientVars, uploadVars
  <2>2. Processes'
    BY <1>1, <1>7 DEF TypeOK, Ends, Turns, Processes, Waiting, Tick, timeVars, childVars, clientVars, uploadVars
  <2>3. Waiting'
    BY <1>1, <1>7 DEF TypeOK, Ends, Turns, Processes, Waiting, Tick, timeVars, childVars, clientVars, uploadVars
  <2>4. Answered'
    BY <1>1, <1>7 DEF TypeOK, Ends, Turns, Answered, Tick, timeVars, childVars, clientVars, uploadVars
  <2>5. Ended'
    BY <1>1, <1>7 DEF TypeOK, Ends, Turns, Processes, Waiting, Answered, Ended, Tick, timeVars, childVars, clientVars, uploadVars
  <2>6. Remains'
    BY <1>1, <1>7 DEF TypeOK, Ends, Turns, Processes, Waiting, Answered, Ended, Remains, Tick, timeVars, childVars, clientVars, uploadVars
  <2> QED
    BY <1>1, <2>1, <2>2, <2>3, <2>4, <2>5, <2>6
<1>8. ASSUME NEW c \in Clients, CgiInit(c) PROVE Inv'
  <2>1. Turns'
    BY <1>1, <1>8 DEF TypeOK, Ends, Turns, CgiInit, timeVars, childVars, clientVars, uploadVars
  <2>2. Processes'
    BY <1>1, <1>8 DEF TypeOK, Ends, Turns, Processes, Waiting, CgiInit, timeVars, childVars, clientVars, uploadVars
  <2>3. Waiting'
    BY <1>1, <1>8 DEF TypeOK, Ends, Turns, Processes, Waiting, CgiInit, timeVars, childVars, clientVars, uploadVars
  <2>4. Answered'
    BY <1>1, <1>8 DEF TypeOK, Ends, Turns, Answered, CgiInit, timeVars, childVars, clientVars, uploadVars
  <2>5. Ended'
    BY <1>1, <1>8 DEF TypeOK, Ends, Turns, Processes, Waiting, Answered, Ended, CgiInit, timeVars, childVars, clientVars, uploadVars
  <2>6. Remains'
    BY <1>1, <1>8 DEF TypeOK, Ends, Turns, Processes, Waiting, Answered, Ended, Remains, CgiInit, timeVars, childVars, clientVars, uploadVars
  <2> QED
    BY <1>1, <2>1, <2>2, <2>3, <2>4, <2>5, <2>6
<1>9. ASSUME NEW c \in Clients, NextLine(c) PROVE Inv'
  <2>1. Turns'
    BY <1>1, <1>9 DEF TypeOK, Ends, Turns, NextLine, OutputAfter, AtEnd, timeVars, childVars, clientVars, uploadVars
  <2>2. Processes'
    BY <1>1, <1>9 DEF TypeOK, Ends, Turns, Processes, Waiting, NextLine, OutputAfter, AtEnd, timeVars, childVars, clientVars, uploadVars
  <2>3. Waiting'
    BY <1>1, <1>9 DEF TypeOK, Ends, Turns, Processes, Waiting, NextLine, OutputAfter, AtEnd, timeVars, childVars, clientVars, uploadVars
  <2>4. Answered'
    BY <1>1, <1>9, SMTT(30) DEF TypeOK, Ends, Turns, Answered, NextLine, OutputAfter, AtEnd, timeVars, childVars, clientVars, uploadVars
  <2>5. Ended'
    BY <1>1, <1>9 DEF TypeOK, Ends, Turns, Processes, Waiting, Answered, Ended, NextLine, OutputAfter, AtEnd, timeVars, childVars, clientVars, uploadVars
  <2>6. Remains'
    BY <1>1, <1>9, SMTT(30) DEF TypeOK, Ends, Turns, Processes, Waiting, Answered, Ended, Remains, NextLine, OutputAfter, AtEnd, timeVars, childVars, clientVars, uploadVars
  <2> QED
    BY <1>1, <2>1, <2>2, <2>3, <2>4, <2>5, <2>6
<1>10. ASSUME NEW c \in Clients, HangUp(c) PROVE Inv'
  <2>1. Turns'
    BY <1>1, <1>10 DEF TypeOK, Ends, Turns, HangUp, timeVars, childVars, clientVars, uploadVars
  <2>2. Processes'
    BY <1>1, <1>10 DEF TypeOK, Ends, Turns, Processes, Waiting, HangUp, timeVars, childVars, clientVars, uploadVars
  <2>3. Waiting'
    BY <1>1, <1>10 DEF TypeOK, Ends, Turns, Processes, Waiting, HangUp, timeVars, childVars, clientVars, uploadVars
  <2>4. Answered'
    BY <1>1, <1>10 DEF TypeOK, Ends, Turns, Answered, HangUp, timeVars, childVars, clientVars, uploadVars
  <2>5. Ended'
    BY <1>1, <1>10 DEF TypeOK, Ends, Turns, Processes, Waiting, Answered, Ended, HangUp, timeVars, childVars, clientVars, uploadVars
  <2>6. Remains'
    BY <1>1, <1>10 DEF TypeOK, Ends, Turns, Processes, Waiting, Answered, Ended, Remains, HangUp, timeVars, childVars, clientVars, uploadVars
  <2> QED
    BY <1>1, <2>1, <2>2, <2>3, <2>4, <2>5, <2>6
<1>11. ASSUME NEW c \in Clients, Exec(c) PROVE Inv'
  <2>1. Turns'
    BY <1>1, <1>11 DEF TypeOK, Ends, Turns, Exec, timeVars, childVars, clientVars, uploadVars
  <2>2. Processes'
    BY <1>1, <1>11 DEF TypeOK, Ends, Turns, Processes, Waiting, Exec, timeVars, childVars, clientVars, uploadVars
  <2>3. Waiting'
    BY <1>1, <1>11 DEF TypeOK, Ends, Turns, Processes, Waiting, Exec, timeVars, childVars, clientVars, uploadVars
  <2>4. Answered'
    BY <1>1, <1>11 DEF TypeOK, Ends, Turns, Answered, Exec, timeVars, childVars, clientVars, uploadVars
  <2>5. Ended'
    BY <1>1, <1>11 DEF TypeOK, Ends, Turns, Processes, Waiting, Answered, Ended, Exec, timeVars, childVars, clientVars, uploadVars
  <2>6. Remains'
    BY <1>1, <1>11 DEF TypeOK, Ends, Turns, Processes, Waiting, Answered, Ended, Remains, Exec, timeVars, childVars, clientVars, uploadVars
  <2> QED
    BY <1>1, <2>1, <2>2, <2>3, <2>4, <2>5, <2>6
<1>12. ASSUME NEW c \in Clients, ExecFails(c) PROVE Inv'
  <2>1. Turns'
    BY <1>1, <1>12 DEF TypeOK, Ends, Turns, ExecFails, timeVars, childVars, clientVars, uploadVars
  <2>2. Processes'
    BY <1>1, <1>12 DEF TypeOK, Ends, Turns, Processes, Waiting, ExecFails, timeVars, childVars, clientVars, uploadVars
  <2>3. Waiting'
    BY <1>1, <1>12 DEF TypeOK, Ends, Turns, Processes, Waiting, ExecFails, timeVars, childVars, clientVars, uploadVars
  <2>4. Answered'
    BY <1>1, <1>12 DEF TypeOK, Ends, Turns, Answered, ExecFails, timeVars, childVars, clientVars, uploadVars
  <2>5. Ended'
    BY <1>1, <1>12 DEF TypeOK, Ends, Turns, Processes, Waiting, Answered, Ended, ExecFails, timeVars, childVars, clientVars, uploadVars
  <2>6. Remains'
    BY <1>1, <1>12 DEF TypeOK, Ends, Turns, Processes, Waiting, Answered, Ended, Remains, ExecFails, timeVars, childVars, clientVars, uploadVars
  <2> QED
    BY <1>1, <2>1, <2>2, <2>3, <2>4, <2>5, <2>6
<1>13. ASSUME NEW c \in Clients, PutLine(c) PROVE Inv'
  <2>1. Turns'
    BY <1>1, <1>13, SMTT(30) DEF TypeOK, Ends, Turns, PutLine, timeVars, childVars, clientVars, uploadVars
  <2>2. Processes'
    BY <1>1, <1>13 DEF TypeOK, Ends, Turns, Processes, Waiting, PutLine, timeVars, childVars, clientVars, uploadVars
  <2>3. Waiting'
    BY <1>1, <1>13 DEF TypeOK, Ends, Turns, Processes, Waiting, PutLine, timeVars, childVars, clientVars, uploadVars
  <2>4. Answered'
    BY <1>1, <1>13 DEF TypeOK, Ends, Turns, Answered, PutLine, timeVars, childVars, clientVars, uploadVars
  <2>5. Ended'
    BY <1>1, <1>13 DEF TypeOK, Ends, Turns, Processes, Waiting, Answered, Ended, PutLine, timeVars, childVars, clientVars, uploadVars
  <2>6. Remains'
    BY <1>1, <1>13, SMTT(30) DEF TypeOK, Ends, Turns, Processes, Waiting, Answered, Ended, Remains, PutLine, timeVars, childVars, clientVars, uploadVars
  <2> QED
    BY <1>1, <2>1, <2>2, <2>3, <2>4, <2>5, <2>6
<1>14. ASSUME NEW c \in Clients, Exit(c) PROVE Inv'
  <2>1. Turns'
    BY <1>1, <1>14 DEF TypeOK, Ends, Turns, Exit, timeVars, childVars, clientVars, uploadVars
  <2>2. Processes'
    BY <1>1, <1>14 DEF TypeOK, Ends, Turns, Processes, Waiting, Exit, timeVars, childVars, clientVars, uploadVars
  <2>3. Waiting'
    BY <1>1, <1>14 DEF TypeOK, Ends, Turns, Processes, Waiting, Exit, timeVars, childVars, clientVars, uploadVars
  <2>4. Answered'
    BY <1>1, <1>14 DEF TypeOK, Ends, Turns, Answered, Exit, timeVars, childVars, clientVars, uploadVars
  <2>5. Ended'
    BY <1>1, <1>14 DEF TypeOK, Ends, Turns, Processes, Waiting, Answered, Ended, Exit, timeVars, childVars, clientVars, uploadVars
  <2>6. Remains'
    BY <1>1, <1>14 DEF TypeOK, Ends, Turns, Processes, Waiting, Answered, Ended, Remains, Exit, timeVars, childVars, clientVars, uploadVars
  <2> QED
    BY <1>1, <2>1, <2>2, <2>3, <2>4, <2>5, <2>6
<1>15. ASSUME NEW u \in Uploads, Store(u) PROVE Inv'
  <2>1. Turns'
    BY <1>1, <1>15 DEF TypeOK, Ends, Turns, Store, timeVars, childVars, clientVars, uploadVars
  <2>2. Processes'
    BY <1>1, <1>15 DEF TypeOK, Ends, Turns, Processes, Waiting, Store, timeVars, childVars, clientVars, uploadVars
  <2>3. Waiting'
    BY <1>1, <1>15 DEF TypeOK, Ends, Turns, Processes, Waiting, Store, timeVars, childVars, clientVars, uploadVars
  <2>4. Answered'
    BY <1>1, <1>15 DEF TypeOK, Ends, Turns, Answered, Store, timeVars, childVars, clientVars, uploadVars
  <2>5. Ended'
    BY <1>1, <1>15 DEF TypeOK, Ends, Turns, Processes, Waiting, Answered, Ended, Store, timeVars, childVars, clientVars, uploadVars
  <2>6. Remains'
    BY <1>1, <1>15 DEF TypeOK, Ends, Turns, Processes, Waiting, Answered, Ended, Remains, Store, timeVars, childVars, clientVars, uploadVars
  <2> QED
    BY <1>1, <2>1, <2>2, <2>3, <2>4, <2>5, <2>6
<1>16. ASSUME NEW u \in Uploads, Finish(u) PROVE Inv'
  <2>1. Turns'
    BY <1>1, <1>16 DEF TypeOK, Ends, Turns, Finish, timeVars, childVars, clientVars, uploadVars
  <2>2. Processes'
    BY <1>1, <1>16 DEF TypeOK, Ends, Turns, Processes, Waiting, Finish, timeVars, childVars, clientVars, uploadVars
  <2>3. Waiting'
    BY <1>1, <1>16 DEF TypeOK, Ends, Turns, Processes, Waiting, Finish, timeVars, childVars, clientVars, uploadVars
  <2>4. Answered'
    BY <1>1, <1>16 DEF TypeOK, Ends, Turns, Answered, Finish, timeVars, childVars, clientVars, uploadVars
  <2>5. Ended'
    BY <1>1, <1>16 DEF TypeOK, Ends, Turns, Processes, Waiting, Answered, Ended, Finish, timeVars, childVars, clientVars, uploadVars
  <2>6. Remains'
    BY <1>1, <1>16 DEF TypeOK, Ends, Turns, Processes, Waiting, Answered, Ended, Remains, Finish, timeVars, childVars, clientVars, uploadVars
  <2> QED
    BY <1>1, <2>1, <2>2, <2>3, <2>4, <2>5, <2>6
<1>17. CASE UNCHANGED vars
  BY <1>17 DEF vars, timeVars, childVars, clientVars, uploadVars, TypeOK, Turns, Processes, Waiting, Answered, Ended, Remains
<1> QED
  BY <1>2, <1>3, <1>4, <1>5, <1>6, <1>7, <1>8, <1>9, <1>10, <1>11, <1>12, <1>13, <1>14, <1>15, <1>16, <1>17 DEF Next, Wait, Serve, Child
-------------------------------------------------------------------------------
\* A script that has ended with a code has done so for good.
LEMMA CodeStays ==
    ASSUME Inv, [Next]_vars, NEW c \in Clients, end[c] = "code"
    PROVE  end'[c] = "code"
<1>1. ~Alive(c) /\ process[c] \notin {"forked", "running"}
  BY DEF Inv, TypeOK, Ends, Processes, Alive
<1>2. CASE TimeOut
  BY <1>1, <1>2 DEF Inv, TypeOK, TimeOut
<1>3. ASSUME NEW d \in Clients, ExecFails(d) PROVE end'[c] = "code"
  BY <1>1, <1>3 DEF Inv, TypeOK, ExecFails
<1>4. ASSUME NEW d \in Clients, Exit(d) PROVE end'[c] = "code"
  BY <1>1, <1>4 DEF Inv, TypeOK, Exit
<1>5. CASE UNCHANGED end
  BY <1>5
<1> QED
  BY <1>2, <1>3, <1>4, <1>5 DEF Next, Wait, Serve, Child, Fork, Poll, ReadClock, Respond, Tick,
     CgiInit, NextLine, HangUp, Exec, PutLine, Store, Finish, vars, childVars

\* What a stream does with a piece loses nothing of it.
LEMMA InOrder ==
    ASSUME NEW f \in Seq(Nat), NEW b \in Seq(Nat), NEW p \in Seq(Nat)
    PROVE  (f \o b) \o p = f \o (b \o p)
<1> DEFINE N == Nat
<1>1. f \in Seq(N) /\ b \in Seq(N) /\ p \in Seq(N)
  OBVIOUS
<1> HIDE DEF N
<1> QED
  BY <1>1, ConcatAssociative, SMTT(30)

LEMMA SpilledKeeps ==
    ASSUME TypeOK, NEW u \in Uploads, NEW piece \in Seq(Nat), NEW s \in Spilled(u, piece)
    PROVE  s.file \o s.buffer = (file[u] \o buffer[u]) \o piece
<1>1. file[u] \in Seq(Nat) /\ buffer[u] \in Seq(Nat)
  BY DEF TypeOK
<1>2. (file[u] \o buffer[u]) \o piece = file[u] \o (buffer[u] \o piece)
  <2> DEFINE f == file[u]
             b == buffer[u]
  <2>1. f \in Seq(Nat) /\ b \in Seq(Nat)
    BY <1>1
  <2> HIDE DEF f, b
  <2>2. (f \o b) \o piece = f \o (b \o piece)
    BY <2>1, InOrder
  <2> QED
    BY <2>2 DEF f, b
<1>3. ((file[u] \o buffer[u]) \o piece) \o <<>> = (file[u] \o buffer[u]) \o piece
  BY <1>1, ConcatProperties, ConcatEmptySeq
<1> QED
  BY <1>2, <1>3, SpilledForms, Zenon

\* Every step keeps uploads intact.
LEMMA UploadsStep == ASSUME Inv, UploadsIntact, [Next]_vars PROVE UploadsIntact'
<1> SUFFICES ASSUME NEW u \in Uploads
             PROVE  \/ file'[u] \o buffer'[u] = received'[u]
                    \/ \E c \in Clients : <<c, u>> \in copies' /\ end'[c] = "code"
  BY DEF UploadsIntact
<1>1. TypeOK /\ file[u] \in Seq(Nat) /\ buffer[u] \in Seq(Nat) /\ received[u] \in Seq(Nat)
  BY DEF Inv, TypeOK
<1>2. copies \subseteq copies'
  BY DEF Next, Wait, Serve, Child, Fork, Poll, ReadClock, TimeOut, Respond, Tick,
       CgiInit, NextLine, HangUp, Exec, ExecFails, PutLine, Exit, Store, Finish,
       vars, timeVars, childVars, clientVars, uploadVars
<1>3. CASE \E c \in Clients : <<c, u>> \in copies /\ end[c] = "code"
  BY <1>2, <1>3, CodeStays
<1>4. CASE file[u] \o buffer[u] = received[u]
  <2>1. CASE UNCHANGED uploadVars
    BY <1>4, <2>1 DEF uploadVars
  <2>2. ASSUME NEW c \in Clients, ExecFails(c)
        PROVE  \/ file'[u] \o buffer'[u] = received'[u]
               \/ \E d \in Clients : <<d, u>> \in copies' /\ end'[d] = "code"
    <3>1. CASE buffer[u] = <<>>
      <4>1. file'[u] = file[u] /\ buffer'[u] = <<>> /\ received' = received
        BY <1>1, <2>2, <3>1, ConcatEmptySeq DEF ExecFails
      <4> QED
        BY <1>4, <3>1, <4>1
    <3>2. CASE buffer[u] # <<>>
      <4>1. <<c, u>> \in copies' /\ end'[c] = "code"
        BY <1>1, <2>2, <3>2 DEF ExecFails, TypeOK
      <4> QED
        BY <4>1
    <3> QED
      BY <3>1, <3>2
  <2>3. ASSUME NEW v \in Uploads, Store(v)
        PROVE  file'[u] \o buffer'[u] = received'[u]
    <3>1. CASE v = u
      <4> DEFINE piece == <<Len(received[u]) + 1>>
      <4>1. piece \in Seq(Nat)
        BY <1>1
      <4> HIDE DEF piece
      <4>2. PICK s \in Spilled(u, piece) :
               file' = [file EXCEPT ![u] = s.file] /\ buffer' = [buffer EXCEPT ![u] = s.buffer]
        BY <2>3, <3>1 DEF Store, piece
      <4>3. received'[u] = received[u] \o piece
        BY <1>1, <2>3, <3>1 DEF Store, TypeOK, piece
      <4>4. file'[u] = s.file /\ buffer'[u] = s.buffer
        BY <1>1, <4>2 DEF TypeOK
      <4> QED
        BY <1>1, <1>4, <4>1, <4>3, <4>4, SpilledKeeps
    <3>2. CASE v # u
      <4>1. file'[u] = file[u] /\ buffer'[u] = buffer[u] /\ received'[u] = received[u]
        BY <1>1, <2>3, <3>2 DEF Store, TypeOK
      <4> QED
        BY <1>4, <4>1
    <3> QED
      BY <3>1, <3>2
  <2>4. ASSUME NEW v \in Uploads, Finish(v)
        PROVE  file'[u] \o buffer'[u] = received'[u]
    <3>1. CASE v = u
      <4>1. file'[u] = file[u] \o buffer[u] /\ buffer'[u] = <<>> /\ received' = received
        <5>1. file \in [Uploads -> Seq(Nat)] /\ buffer \in [Uploads -> Seq(Nat)]
          BY <1>1 DEF TypeOK
        <5> DEFINE all == file[u] \o buffer[u]
        <5>2. /\ file' = [file EXCEPT ![u] = all] /\ buffer' = [buffer EXCEPT ![u] = <<>>]
              /\ received' = received
          BY <2>4, <3>1 DEF Finish
        <5> HIDE DEF all
        <5>3. file'[u] = all /\ buffer'[u] = <<>> /\ received' = received
          BY <5>1, <5>2
        <5> QED
          BY <5>3 DEF all
      <4>2. (file[u] \o buffer[u]) \o <<>> = file[u] \o buffer[u]
        BY <1>1, ConcatProperties, ConcatEmptySeq
      <4> QED
        BY <1>4, <4>1, <4>2
    <3>2. CASE v # u
      <4>1. file'[u] = file[u] /\ buffer'[u] = buffer[u] /\ received' = received
        BY <1>1, <2>4, <3>2 DEF Finish, TypeOK
      <4> QED
        BY <1>4, <4>1
    <3> QED
      BY <3>1, <3>2
  <2> QED
    BY <2>1, <2>2, <2>3, <2>4 DEF Next, Wait, Serve, Child, Fork, Poll, ReadClock, TimeOut,
       Respond, Tick, CgiInit, NextLine, HangUp, Exec, PutLine, Exit, vars
<1> QED
  BY <1>3, <1>4 DEF UploadsIntact
-------------------------------------------------------------------------------
\* The invariant holds in every behaviour.
LEMMA Invariance == Spec => []Inv
<1>1. Init => Inv
  BY InvInit
<1>2. Inv /\ [Next]_vars => Inv'
  BY InvStep
<1> QED
  BY <1>1, <1>2, PTL DEF Spec

(***************************************************************************)
(* Every variable of the scripts keeps its type, whatever the limit, the   *)
(* number of clients and the number of uploads.                            *)
(***************************************************************************)
THEOREM ScriptsTypeCorrect == Spec => []TypeOK
<1>1. Inv => TypeOK
  BY DEF Inv
<1> QED
  BY <1>1, Invariance, PTL

(***************************************************************************)
(* What a client is told of its script agrees with how the script ended,   *)
(* as far as WEXITSTATUS and the wait loop can tell (cgi.cpp:140-175).     *)
(***************************************************************************)
THEOREM AnswersMatchEnds == Spec => []AnswerMatchesEnd
<1>1. Inv => AnswerMatchesEnd
  <2> SUFFICES ASSUME Inv, NEW c \in Clients
               PROVE  /\ answer[c] = 200 =>
                           \/ process[c] = "reaped" /\ end[c] \in {"zero", "signal"}
                           \/ process[c] = "none"
                      /\ answer[c] = 500 => process[c] = "reaped" /\ end[c] = "code"
                      /\ answer[c] = 504 => process[c] \in {"zombie", "reaped"}
                      /\ end[c] = "killed" /\ answer[c] # 0 => answer[c] = 504
    BY DEF AnswerMatchesEnd
  <2>1. pc = "answer" /\ at = c => answer[c] = 0
    BY ZenonT(40) DEF Inv, TypeOK, Turns, Answered
  <2> QED
    BY <2>1 DEF Inv, Ended
<1> QED
  BY <1>1, Invariance, PTL

(***************************************************************************)
(* When the server turns to other clients it leaves behind a process only  *)
(* after a time-out, and files only in the cases LeftBehind lists          *)
(* (cgi.cpp:142-146, 159, 197).                                            *)
(***************************************************************************)
THEOREM NothingElseIsLeft == Spec => []LeftBehind
<1>1. Inv => LeftBehind
  BY DEF Inv, LeftBehind, Remains
<1> QED
  BY <1>1, Invariance, PTL

(***************************************************************************)
(* The streams that fork copies write an upload once, unless a child that  *)
(* could not execute its script has written its copy (cgi.cpp:135).        *)
(***************************************************************************)
THEOREM UploadsStayIntact == Spec => []UploadsIntact
<1>1. Init => UploadsIntact
  <2> SUFFICES ASSUME Init, NEW u \in Uploads PROVE file[u] \o buffer[u] = received[u]
    BY DEF UploadsIntact
  <2>1. file[u] = <<>> /\ buffer[u] = <<>> /\ received[u] = <<>>
    BY DEF Init
  <2> QED
    BY <2>1, ConcatEmptySeq, EmptySeq
<1>2. Inv /\ UploadsIntact /\ [Next]_vars => UploadsIntact'
  BY UploadsStep
<1> QED
  BY <1>1, <1>2, Invariance, PTL DEF Spec
===============================================================================
