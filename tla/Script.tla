-------------------------------- MODULE Script --------------------------------
(***************************************************************************)
(* CGI: class cgi of req_res_post/cgi.cpp with the process it forks.  The  *)
(* server stands still while it polls for the end of a script, and answers *)
(* afterwards, a line of the script's output for each call of the driver.  *)
(*                                                                         *)
(* A request for a script is GET or POST; the body of a POST lies in a     *)
(* file when the script is started.  Beside these clients there are others *)
(* that upload: the streams they upload to are copied by fork, with what   *)
(* they have not written yet, and exit writes the copies.                  *)
(*                                                                         *)
(* Time is counted from the start of a script, up to Limit, after which it *)
(* makes no difference; it does not go back.                               *)
(***************************************************************************)
EXTENDS Integers, Sequences

CONSTANTS
    Clients,        \* who ask for a script
    Uploads,        \* who upload
    Limit,          \* CGI_TIMEOUT, in ticks of the clock
    MaxLines,       \* bound: lines a script writes
    MaxData         \* bound: pieces a client uploads

ASSUME ScriptAssumption ==
    /\ Clients # {}
    /\ Limit \in Nat \ {0} /\ MaxLines \in Nat /\ MaxData \in Nat

VARIABLES
    pc, at,             \* where the server is, and in whose request
    elapsed, now,       \* the time, and the time as last read
    status,             \* cgi::status of that client, as far as the code tells it apart
    process, end,       \* of each client: its process, and how that ended
    output,             \* its output file: does it exist, and its lines
    input,              \* its input file exists
    conn,               \* "new", "run", "lines" (being answered), "closed"
    answer, reads, sent,\* the answer, whether the output is open, lines sent
    received, buffer, file, \* of each upload: data, what the stream holds, the file
    copies              \* history: uploads whose buffer a child wrote, and the child

timeVars == <<elapsed, now>>
childVars == <<process, end, output>>
clientVars == <<input, conn, answer, reads, sent>>
uploadVars == <<received, buffer, file, copies>>
vars == <<pc, at, timeVars, status, childVars, clientVars, uploadVars>>
-------------------------------------------------------------------------------
\* cgi_init and gettimeofday; open may fail.
CgiInit(c) ==
    /\ pc = "idle" /\ conn[c] = "new"
    /\ pc' = "fork" /\ at' = c
    /\ conn' = [conn EXCEPT ![c] = "run"]
    /\ \E opened \in BOOLEAN : output' = [output EXCEPT ![c].exists = opened]
    /\ UNCHANGED <<timeVars, status, process, end, input, answer, reads, sent, uploadVars>>

\* status is 1 when fork fails, which WEXITSTATUS takes for success.
Fork ==
    /\ pc = "fork"
    /\ \/ /\ process' = [process EXCEPT ![at] = "forked"]
          /\ now' = elapsed /\ pc' = "poll" /\ UNCHANGED status
       \/ status' = "one" /\ pc' = "answer" /\ UNCHANGED <<now, process>>
    /\ UNCHANGED <<at, elapsed, end, output, clientVars, uploadVars>>

Alive(c) == process[c] \in {"forked", "running"}

\* The clock has not passed the limit; waitpid with WNOHANG.
Poll ==
    /\ pc = "poll" /\ now < Limit
    /\ \/ Alive(at) /\ pc' = "clock" /\ UNCHANGED <<status, process>>
       \/ /\ process[at] = "zombie" /\ pc' = "clock"
          /\ process' = [process EXCEPT ![at] = "reaped"] /\ status' = end[at]
       \/ process[at] = "reaped" /\ pc' = "answer" /\ UNCHANGED <<status, process>>
    /\ UNCHANGED <<at, timeVars, end, output, clientVars, uploadVars>>

\* Mutant of Reading: the clock is read only once.
OldReading == now
Reading == elapsed

ReadClock ==
    /\ pc = "clock" /\ now' = Reading /\ pc' = "poll"
    /\ UNCHANGED <<at, elapsed, status, childVars, clientVars, uploadVars>>

\* The process is killed, if it was not reaped in the last poll, and not waited for.
TimeOut ==
    /\ pc = "poll" /\ now >= Limit
    /\ process' = [process EXCEPT ![at] = IF Alive(at) THEN "zombie" ELSE @]
    /\ end' = [end EXCEPT ![at] = IF Alive(at) THEN "killed" ELSE @]
    /\ status' = "minusOne" /\ pc' = "answer"
    /\ UNCHANGED <<at, timeVars, output, clientVars, uploadVars>>

\* Mutant of Verdict: the time-out is not looked at; WEXITSTATUS(-1) is not 0.
VerdictByCode(s) == IF s \in {"code", "minusOne"} THEN 500 ELSE 200

\* A status of 1, or of a signal, has the WEXITSTATUS 0.
Verdict(s) ==
    CASE s = "minusOne" -> 504
      [] s = "code" -> 500
      [] OTHER -> 200

(***************************************************************************)
(* The end of cgi_out, and cgi_run: the input file is removed, the output  *)
(* file is opened to be read, which may fail, and the head is sent.        *)
(***************************************************************************)
Respond ==
    /\ pc = "answer" /\ pc' = "idle"
    /\ input' = [input EXCEPT ![at] = FALSE]
    /\ answer' = [answer EXCEPT ![at] = Verdict(status)]
    /\ conn' = [conn EXCEPT ![at] = IF answer'[at] = 200 THEN "lines" ELSE "closed"]
    /\ \E opens \in {FALSE, output[at].exists} : reads' = [reads EXCEPT ![at] = opens]
    /\ status' = "none" /\ elapsed' = 0 /\ now' = 0
    /\ UNCHANGED <<at, childVars, sent, uploadVars>>

\* getline has come to the end of the file.
AtEnd(c) == reads[c] /\ sent[c] >= output[c].lines

\* Mutant of OutputAfter: end_send is looked at before the line is read.
OutputKept(c) == output[c]
OutputAfter(c) == IF AtEnd(c) THEN [output[c] EXCEPT !.exists = FALSE] ELSE output[c]

\* Another call of cgi_run: without a file it sends empty lines for ever.
NextLine(c) ==
    /\ pc = "idle" /\ conn[c] = "lines"
    /\ sent' = [sent EXCEPT ![c] = IF @ <= MaxLines THEN @ + 1 ELSE @]
    /\ output' = [output EXCEPT ![c] = OutputAfter(c)]
    /\ conn' = [conn EXCEPT ![c] = IF AtEnd(c) THEN "closed" ELSE @]
    /\ UNCHANGED <<pc, at, timeVars, status, process, end, input, answer, reads, uploadVars>>

\* The peer has closed: the client is deleted, its entry and its files stay.
HangUp(c) ==
    /\ pc = "idle" /\ conn[c] \in {"new", "lines"}
    /\ conn' = [conn EXCEPT ![c] = "closed"]
    /\ UNCHANGED <<pc, at, timeVars, status, childVars, input, answer, reads, sent, uploadVars>>
-------------------------------------------------------------------------------
\* Mutant of Spilled: the stream keeps what it has written.
SpilledKept(u, piece) == {[file |-> file[u] \o buffer[u], buffer |-> buffer[u] \o piece]}

\* What the stream does with a piece: it holds it, or writes before it, or with it.
Spilled(u, piece) ==
    {[file |-> file[u], buffer |-> buffer[u] \o piece],
     [file |-> file[u] \o buffer[u], buffer |-> piece],
     [file |-> file[u] \o buffer[u] \o piece, buffer |-> <<>>]}

\* A piece of an upload.
Store(u) ==
    /\ pc = "idle" /\ Len(received[u]) < MaxData
    /\ LET piece == <<Len(received[u]) + 1>>
       IN  /\ received' = [received EXCEPT ![u] = @ \o piece]
           /\ \E s \in Spilled(u, piece) :
                /\ file' = [file EXCEPT ![u] = s.file]
                /\ buffer' = [buffer EXCEPT ![u] = s.buffer]
    /\ UNCHANGED <<pc, at, timeVars, status, childVars, clientVars, copies>>

\* An upload ends, or its peer leaves: out is closed.
Finish(u) ==
    /\ pc = "idle" /\ buffer[u] # <<>>
    /\ file' = [file EXCEPT ![u] = @ \o buffer[u]]
    /\ buffer' = [buffer EXCEPT ![u] = <<>>]
    /\ UNCHANGED <<pc, at, timeVars, status, childVars, clientVars, received, copies>>
-------------------------------------------------------------------------------
\* access and execve succeed.
Exec(c) ==
    /\ process[c] = "forked"
    /\ process' = [process EXCEPT ![c] = "running"]
    /\ UNCHANGED <<pc, at, timeVars, status, end, output, clientVars, uploadVars>>

\* They do not: exit(1) destroys the copies of the streams, which writes what they hold.
ExecFails(c) ==
    /\ process[c] = "forked"
    /\ process' = [process EXCEPT ![c] = "zombie"]
    /\ end' = [end EXCEPT ![c] = "code"]
    /\ file' = [u \in Uploads |-> file[u] \o buffer[u]]
    /\ copies' = copies \cup {<<c, u>> : u \in {v \in Uploads : buffer[v] # <<>>}}
    /\ UNCHANGED <<pc, at, timeVars, status, output, clientVars, received, buffer>>

\* The script writes a line; without an output file, to the server's own output.
PutLine(c) ==
    /\ process[c] = "running" /\ output[c].exists /\ output[c].lines < MaxLines
    /\ output' = [output EXCEPT ![c].lines = @ + 1]
    /\ UNCHANGED <<pc, at, timeVars, status, process, end, clientVars, uploadVars>>

Exit(c) ==
    /\ process[c] = "running"
    /\ process' = [process EXCEPT ![c] = "zombie"]
    /\ \E e \in {"zero", "code", "signal"} : end' = [end EXCEPT ![c] = e]
    /\ UNCHANGED <<pc, at, timeVars, status, output, clientVars, uploadVars>>

Tick ==
    /\ pc # "idle" /\ elapsed < Limit /\ elapsed' = elapsed + 1
    /\ UNCHANGED <<pc, at, now, status, childVars, clientVars, uploadVars>>
-------------------------------------------------------------------------------
Init ==
    /\ pc = "idle" /\ at = (CHOOSE c \in Clients : TRUE) /\ elapsed = 0 /\ now = 0 /\ status = "none"
    /\ process = [c \in Clients |-> "none"] /\ end = [c \in Clients |-> "none"]
    /\ output = [c \in Clients |-> [exists |-> FALSE, lines |-> 0]]
    /\ input \in [Clients -> BOOLEAN]
    /\ conn = [c \in Clients |-> "new"] /\ answer = [c \in Clients |-> 0]
    /\ reads = [c \in Clients |-> FALSE] /\ sent = [c \in Clients |-> 0]
    /\ received = [u \in Uploads |-> <<>>] /\ buffer = [u \in Uploads |-> <<>>]
    /\ file = [u \in Uploads |-> <<>>] /\ copies = {}

Wait == Fork \/ Poll \/ ReadClock \/ TimeOut \/ Respond
Serve(c) == CgiInit(c) \/ NextLine(c)
Child(c) == Exec(c) \/ ExecFails(c) \/ PutLine(c) \/ Exit(c)

Next ==
    \/ Wait \/ Tick
    \/ \E c \in Clients : Serve(c) \/ HangUp(c) \/ Child(c)
    \/ \E u \in Uploads : Store(u) \/ Finish(u)

(***************************************************************************)
(* The process of the server runs, and time passes.  Nothing is assumed of *)
(* the scripts, nor of the event loop: whether and when the driver is      *)
(* called for a client is not this module's to say.                        *)
(***************************************************************************)
Spec == Init /\ [][Next]_vars /\ WF_vars(Wait) /\ WF_vars(Tick)
-------------------------------------------------------------------------------
Ends == {"none", "zero", "code", "signal", "killed"}

TypeOK ==
    /\ pc \in {"idle", "fork", "poll", "clock", "answer"} /\ at \in Clients
    /\ elapsed \in 0 .. Limit /\ now \in 0 .. Limit
    /\ status \in Ends \cup {"one", "minusOne"}
    /\ process \in [Clients -> {"none", "forked", "running", "zombie", "reaped"}]
    /\ end \in [Clients -> Ends]
    /\ output \in [Clients -> [exists : BOOLEAN, lines : Nat]]
    /\ input \in [Clients -> BOOLEAN] /\ reads \in [Clients -> BOOLEAN]
    /\ conn \in [Clients -> {"new", "run", "lines", "closed"}]
    /\ answer \in [Clients -> {0, 200, 500, 504}] /\ sent \in [Clients -> Nat]
    /\ received \in [Uploads -> Seq(Nat)] /\ buffer \in [Uploads -> Seq(Nat)]
    /\ file \in [Uploads -> Seq(Nat)] /\ copies \subseteq Clients \X Uploads

(***************************************************************************)
(* A client is told 200 only when its script ended with 0 or by a signal,  *)
(* or could not even be forked; 500 only when it ended with another code;  *)
(* 504 whenever the server killed it, and otherwise only when its end was  *)
(* seen too late.                                                          *)
(***************************************************************************)
AnswerMatchesEnd ==
    \A c \in Clients :
        /\ answer[c] = 200 =>
             \/ process[c] = "reaped" /\ end[c] \in {"zero", "signal"}
             \/ process[c] = "none"
        /\ answer[c] = 500 => process[c] = "reaped" /\ end[c] = "code"
        /\ answer[c] = 504 => process[c] \in {"zombie", "reaped"}
        /\ end[c] = "killed" /\ answer[c] # 0 => answer[c] = 504

(***************************************************************************)
(* What is left behind when the server turns to other clients: a process   *)
(* nobody waits for, only after a time-out; an output file, only when the  *)
(* answer was an error or the peer left before the last line; an input     *)
(* file, only when the script was never run.                               *)
(***************************************************************************)
LeftBehind ==
    pc = "idle" =>
        \A c \in Clients :
            /\ process[c] \in {"forked", "running", "zombie"} => answer[c] = 504
            /\ conn[c] = "closed" /\ output[c].exists =>
                 answer[c] # 200 \/ ~reads[c] \/ sent[c] <= output[c].lines
            /\ conn[c] = "closed" /\ input[c] => answer[c] = 0

(***************************************************************************)
(* What was uploaded is in the file or in the stream, in order and once,   *)
(* whatever scripts run meanwhile, unless a script that could not be       *)
(* executed was asked for when the stream held some of it.                 *)
(***************************************************************************)
UploadsIntact ==
    \A u \in Uploads :
        \/ file[u] \o buffer[u] = received[u]
        \/ \E c \in Clients : <<c, u>> \in copies /\ end[c] = "code"

(***************************************************************************)
(* However long a script runs, the server comes back from it and sends an  *)
(* answer, whatever the event loop does.  The rest of a 200 is up to the   *)
(* loop, which may stop looking at a client, see Webserver; if the driver  *)
(* is called for this client as long as there is something to send, the    *)
(* response ends, unless the output cannot be read.                        *)
(***************************************************************************)
AnswersEnd ==
    \A c \in Clients :
        /\ conn[c] = "run" ~> conn[c] \in {"lines", "closed"} /\ answer[c] # 0
        /\ WF_vars(NextLine(c)) =>
             (conn[c] = "run" ~> conn[c] = "closed" \/ (conn[c] = "lines" /\ ~reads[c]))
===============================================================================
