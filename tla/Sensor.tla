-------------------------------- MODULE Sensor --------------------------------
(***************************************************************************)
(* The temperature sensor: lab4b, which reads commands from its standard   *)
(* input and has a button, and lab4c, which reports to and is commanded by *)
(* a peer over TCP or TLS.  All three repeat one loop: report, sleep, poll *)
(* for commands, parse what one read() returns.                            *)
(* The model begins when the ID line of lab4c has been sent.  --log is     *)
(* given, the other options are the defaults.                              *)
(* A command line is a few "pieces", the last of them the newline; a read  *)
(* may end between any two.  Temperatures and times are left out.          *)
(*                                                                         *)
(* External, as the programs use it: the peer, which sends the commands    *)
(* and reads the reports, and the connection, which holds a few of these.  *)
(* lab4b prints them, and its standard output always takes them.           *)
(***************************************************************************)
EXTENDS Integers, SequencesExt

CONSTANTS
  Transports, \* of the programs of a run: a subset of {"stdin", "tcp", "tls"}
  Lines,      \* what may be sent: a subset of DOMAIN PiecesOf
  MaxLines,   \* bound of the model: lines sent
  BufSize,    \* buf_size, in pieces
  MaxUnread,  \* lines of reports that the connection holds
  Misread     \* what atoll() may make of bytes outside a line, if not 0

(* "LOG OFF" is a note for the log, and PERIOD= has one digit or two.      *)
PiecesOf ==
  [line \in {"START", "STOP", "OFF", "SCALE=C", "PERIOD=2", "PERIOD=10", "LOG OFF"} |->
     CASE line = "START"     -> <<"ST", "ART", "\n">>
       [] line = "STOP"      -> <<"ST", "OP", "\n">>
       [] line = "OFF"       -> <<"O", "FF", "\n">>
       [] line = "SCALE=C"   -> <<"SCALE=", "C", "\n">>
       [] line = "PERIOD=2"  -> <<"PERIOD=", "2", "\n">>
       [] line = "PERIOD=10" -> <<"PERIOD=", "1", "0", "\n">>
       [] line = "LOG OFF"   -> <<"LOG ", "O", "FF", "\n">>]

ASSUME SensorAssumption ==
  /\ Transports \subseteq {"stdin", "tcp", "tls"}
  /\ Lines \subseteq DOMAIN PiecesOf
  /\ MaxLines \in Nat /\ {BufSize, MaxUnread} \subseteq Nat \ {0}
  /\ Misread \in Int \ {0}

VARIABLES
  transport, \* which of the three programs this is
  main,      \* the step of main(), or how the process ended
  run_flag, start_flag, temp_unit, period,
  log,       \* the lines of the log, reports left out
  chan,      \* the writes of the sender that are on their way
  ssl,       \* the rest of a TLS record that was read from the socket
  peer,      \* "open", or "closed"
  sock_err,  \* the pending error of the socket
  unread,    \* how many lines the peer has not read, the ID line included
  hist       \* auxiliary: lines sent, whether a read ended inside a line, late reports

settings == <<run_flag, start_flag, temp_unit, period>>
input == <<chan, ssl, peer>>
connection == <<sock_err, unread>>
vars == <<transport, main, settings, log, input, connection, hist>>

Networked == transport \in {"tcp", "tls"}
Ended == main \in {"exit0", "exit1", "sigpipe", "abort"}

Init ==
  /\ transport \in Transports
  /\ main = "while"
  /\ run_flag = 1 /\ start_flag = 1 /\ temp_unit = "FAHRENHEIT" /\ period = 1
  /\ log = <<>>
  /\ chan = <<>> /\ ssl = <<>> /\ peer = "open" /\ sock_err = "none"
  /\ unread = IF Networked THEN 1 ELSE 0
  /\ hist = [sent |-> <<>>, split |-> FALSE, late |-> 0]


-----------------------------------------------------------------------------
(* The loop of main().                                                     *)

(* Mutant: run_flag is looked at only when there is nothing to report.     *)
WhileStarted ==
  /\ main = "while"
  /\ main' = IF start_flag = 1 THEN "report" ELSE IF run_flag = 0 THEN "shutdown" ELSE "poll"
  /\ UNCHANGED <<transport, settings, log, input, connection, hist>>

(* Mutant: commands are polled for only after a report.                    *)
WhileStopped ==
  /\ main = "while"
  /\ run_flag = 0 \/ start_flag = 1
  /\ main' = IF run_flag = 0 THEN "shutdown" ELSE "report"
  /\ UNCHANGED <<transport, settings, log, input, connection, hist>>

While ==
  /\ main = "while"
  /\ main' = IF run_flag = 0 THEN "shutdown" ELSE IF start_flag = 1 THEN "report" ELSE "poll"
  /\ UNCHANGED <<transport, settings, log, input, connection, hist>>

(* A write waits while the connection is full and the peer does not read.  *)
(* The first one after the peer has closed fails without notice, and the   *)
(* next one raises SIGPIPE.                                                *)
Write(next) ==
  \/ /\ ~Networked
     /\ main' = next
     /\ UNCHANGED connection
  \/ /\ Networked /\ peer = "open" /\ unread < MaxUnread
     /\ main' = next
     /\ unread' = unread + 1
     /\ UNCHANGED sock_err
  \/ /\ Networked /\ peer = "closed"
     /\ IF sock_err = "EPIPE"
        THEN main' = "sigpipe" /\ UNCHANGED sock_err
        ELSE main' = next /\ sock_err' = "EPIPE"
     /\ UNCHANGED unread

(* Mutant: the report stays in a buffer.                                   *)
ReportBuffered ==
  /\ main = "report"
  /\ main' = "poll"
  /\ hist' = [hist EXCEPT !.late = IF run_flag = 0 THEN @ + 1 ELSE @]
  /\ UNCHANGED <<transport, settings, log, input, connection>>

(* print_output(), then sleep.                                             *)
Report ==
  /\ main = "report"
  /\ Write("poll")
  /\ hist' = [hist EXCEPT !.late = IF run_flag = 0 THEN @ + 1 ELSE @]
  /\ UNCHANGED <<transport, settings, log, input>>

(* Mutant: poll() waits for a command.                                     *)
PollWaits ==
  /\ main = "poll" /\ (chan # <<>> \/ peer = "closed")
  /\ main' = "process_commands"
  /\ UNCHANGED <<transport, settings, log, input, connection, hist>>

(* poll() knows the socket, not what SSL has read from it already.         *)
Poll ==
  /\ main = "poll"
  /\ main' = IF chan # <<>> \/ peer = "closed" THEN "process_commands" ELSE "while"
  /\ UNCHANGED <<transport, settings, log, input, connection, hist>>

(* print_shutdown(), then exit(0).  That of the TLS program writes 19 bytes *)
(* to an array of 15: a build that guards its stack aborts at the return.  *)
Shutdown ==
  /\ main = "shutdown"
  /\ \E end \in IF transport = "tls" THEN {"exit0", "abort"} ELSE {"exit0"} : Write(end)
  /\ log' = IF main' = "sigpipe" THEN log ELSE Append(log, <<"SHUTDOWN">>)
  /\ UNCHANGED <<transport, settings, input, hist>>

-----------------------------------------------------------------------------
(* process_commands().                                                     *)

Parsed == [start_index |-> 1, run_flag |-> run_flag, start_flag |-> start_flag,
           temp_unit |-> temp_unit, period |-> period, log |-> log]

(* atoll() at start_index + (i - 1): the last digit of the command that    *)
(* begins the buffer, and whatever is beyond the line for a later one.     *)
PeriodRead(buf, start_index, i, beyond) ==
  IF start_index > 1 THEN beyond ELSE IF buf[i - 1] = "2" THEN 2 ELSE 0

(* Mutant: period_val is not tested.                                       *)
PeriodAfterZero(line, val) ==
  IF line # <<>> /\ line[1] = "PERIOD=" THEN {val} ELSE {}

PeriodAfter(line, val) ==
  IF line # <<>> /\ line[1] = "PERIOD=" /\ val # 0 THEN {val} ELSE {}

(* Mutant: strncmp() instead of strcmp() for STOP.                         *)
StartAfterPrefix(line) == IF line # <<>> /\ line[1] = "ST" THEN {0} ELSE {}

StartAfter(line) ==
  IF line = <<"ST", "ART">> THEN {1} ELSE IF line = <<"ST", "OP">> THEN {0} ELSE {}

(* What a line sets, if anything, and what was set before otherwise.       *)
Set(values, before) == IF values = {} THEN before ELSE CHOOSE v \in values : TRUE

Obey(buf, p, i, beyond) ==
  LET line == SubSeq(buf, p.start_index, i - 1)
      val  == PeriodRead(buf, p.start_index, i, beyond)
  IN [p EXCEPT
       !.log = Append(@, line),
       !.start_flag = Set(StartAfter(line), @),
       !.temp_unit = IF line = <<"SCALE=", "C">> THEN "CELSIUS" ELSE @,
       !.period = Set(PeriodAfter(line, val), @),
       !.run_flag = IF line = <<"O", "FF">> THEN 0 ELSE @,
       !.start_index = i + 1]

(* Mutant: start_index stays behind.                                       *)
ParseNoStart(buf, beyond) ==
  LET upTo[i \in 0..Len(buf)] ==
        IF i = 0 THEN Parsed
        ELSE IF buf[i] = "\n" THEN [Obey(buf, upTo[i - 1], i, beyond) EXCEPT !.start_index = 1]
        ELSE upTo[i - 1]
  IN upTo[Len(buf)]

Parse(buf, beyond) ==
  LET upTo[i \in 0..Len(buf)] ==
        IF i = 0 THEN Parsed
        ELSE IF buf[i] = "\n" THEN Obey(buf, upTo[i - 1], i, beyond)
        ELSE upTo[i - 1]
  IN upTo[Len(buf)]

(* read() returns any part of the stream from its beginning that fits.     *)
StreamReads ==
  LET stream == FlattenSeq(chan) IN
  {[buf  |-> SubSeq(stream, 1, n),
    chan |-> IF n = Len(stream) THEN <<>> ELSE <<SubSeq(stream, n + 1, Len(stream))>>,
    ssl  |-> <<>>] : n \in 1..(IF Len(stream) < BufSize THEN Len(stream) ELSE BufSize)}

(* SSL_read() reads a whole record from the socket, when the last one is   *)
(* used up, and returns what fits.                                         *)
RecordReads ==
  LET fresh  == ssl = <<>> /\ chan # <<>>
      record == IF fresh THEN Head(chan) ELSE ssl
  IN IF record = <<>> THEN {}
     ELSE {[buf  |-> SubSeq(record, 1, IF Len(record) < BufSize THEN Len(record) ELSE BufSize),
            chan |-> IF fresh THEN Tail(chan) ELSE chan,
            ssl  |-> SubSeq(record, BufSize + 1, Len(record))]}

Reads == IF transport = "tls" THEN RecordReads ELSE StreamReads

(* The part of a line at the end of the buffer is not looked at, and the   *)
(* rest of it will be taken for a line.                                    *)
ProcessCommands ==
  /\ main = "process_commands"
  /\ \E r \in Reads, beyond \in {0, Misread} :
       LET p == Parse(r.buf, beyond) IN
       /\ run_flag' = p.run_flag /\ start_flag' = p.start_flag
       /\ temp_unit' = p.temp_unit /\ period' = p.period
       /\ log' = p.log
       /\ chan' = r.chan /\ ssl' = r.ssl
       /\ hist' = [hist EXCEPT !.split = @ \/ Last(r.buf) # "\n"]
  /\ main' = "while"
  /\ UNCHANGED <<transport, peer, connection>>

(* At the end of the input read() returns 0, which is ignored, or an error *)
(* that is pending; SSL_read() reports a missing shutdown as either.       *)
ReadNothing ==
  /\ main = "process_commands" /\ Reads = {}
  /\ main' \in IF sock_err = "ECONNRESET" THEN {"exit1"}
               ELSE IF transport = "tls" THEN {"while", "exit1"} ELSE {"while"}
  /\ UNCHANGED <<transport, settings, log, input, connection, hist>>

Main == While \/ Report \/ Poll \/ ProcessCommands \/ ReadNothing \/ Shutdown

-----------------------------------------------------------------------------
(* The button, and the sender of the commands.                             *)

(* button_pressed() runs in a thread of the library of lab4b.              *)
PressButton ==
  /\ transport = "stdin" /\ ~Ended /\ run_flag = 1
  /\ run_flag' = 0
  /\ UNCHANGED <<transport, main, start_flag, temp_unit, period, log, input, connection, hist>>

(* A line is a TLS record of its own, or part of the last one.             *)
Send ==
  /\ peer = "open" /\ ~Ended /\ Len(hist.sent) < MaxLines
  /\ \E line \in Lines :
       /\ hist' = [hist EXCEPT !.sent = Append(@, line)]
       /\ \/ /\ transport = "tls" \/ chan = <<>>
             /\ chan' = Append(chan, PiecesOf[line])
          \/ /\ chan # <<>>
             /\ chan' = Append(Front(chan), Last(chan) \o PiecesOf[line])
  /\ UNCHANGED <<transport, main, settings, log, ssl, peer, connection>>

PeerReads ==
  /\ peer = "open" /\ unread > 0
  /\ unread' = unread - 1
  /\ UNCHANGED <<transport, main, settings, log, input, sock_err, hist>>

(* A peer that has not read all lines resets the connection.               *)
Close ==
  /\ peer = "open" /\ ~Ended
  /\ peer' = "closed"
  /\ sock_err' = IF unread > 0 THEN "ECONNRESET" ELSE "none"
  /\ UNCHANGED <<transport, main, settings, log, chan, ssl, unread, hist>>

Next == Main \/ PressButton \/ Send \/ PeerReads \/ Close

(* The kernel schedules the process.  The peer need not send, read or      *)
(* close: the properties that need a peer that reads say so.               *)
Spec == Init /\ [][Next]_vars /\ WF_vars(Main)

-----------------------------------------------------------------------------
(* Properties.                                                             *)

(* Each variable has its type; the period is never 0.                      *)
TypeOK ==
  /\ transport \in Transports
  /\ main \in {"while", "report", "poll", "process_commands", "shutdown",
              "exit0", "exit1", "sigpipe", "abort"}
  /\ {run_flag, start_flag} \subseteq {0, 1}
  /\ temp_unit \in {"FAHRENHEIT", "CELSIUS"}
  /\ period \in {1, 2, Misread}
  /\ Len(log) <= MaxLines + 1
  /\ ssl # <<>> => transport = "tls"
  /\ peer \in {"open", "closed"}
  /\ sock_err \in {"none", "EPIPE", "ECONNRESET"}
  /\ unread \in 0..MaxUnread
  /\ hist.sent \in Seq(Lines) /\ Len(hist.sent) <= MaxLines
  /\ hist.split \in BOOLEAN
  /\ hist.late \in Nat

(* At most one report follows the button: when it is pressed in between    *)
(* the test of run_flag and the report.  None follows OFF.                 *)
OneLateReport == hist.late <= IF transport = "stdin" THEN 1 ELSE 0

Read == {k \in DOMAIN log : log[k] # <<"SHUTDOWN">>}
ReadLast(lines, line) ==
  \E k \in Read : hist.sent[k] = line /\ \A j \in Read : j > k => hist.sent[j] \notin lines

(* Each line that is sent is logged once and in order, even when the reads *)
(* end inside lines: what is logged for it then is an end of it.           *)
LogInOrder ==
  \A k \in Read :
    /\ k <= Len(hist.sent)
    /\ IsSuffix(Append(log[k], "\n"), PiecesOf[hist.sent[k]])

(* As long as no read ended inside a line, the flags are what the lines    *)
(* that were read ask for, several of them in one buffer included.         *)
CommandsObeyed ==
  ~hist.split =>
    /\ start_flag = 0 <=> ReadLast({"START", "STOP"}, "STOP")
    /\ temp_unit = "CELSIUS" <=> ReadLast({}, "SCALE=C")
    /\ ReadLast({}, "OFF") => run_flag = 0
    /\ run_flag = 0 /\ Networked => ReadLast({}, "OFF")

(* Waiting for a peer that is there and does not read.                     *)
Blocked ==
  /\ main \in {"report", "shutdown"}
  /\ Networked /\ peer = "open" /\ unread = MaxUnread

NotBlockedForGood == []<>~Blocked

(* OFF and the button end the process, which has logged SHUTDOWN then,     *)
(* unless it dies of the connection first, or the peer stays and stops     *)
(* reading the reports.                                                    *)
ShutdownLogged ==
  NotBlockedForGood =>
    (run_flag = 0 ~> \/ main = "sigpipe"
                     \/ main \in {"exit0", "abort"} /\ log # <<>> /\ Last(log) = <<"SHUTDOWN">>)

(* What was sent is read while the process runs and is not Blocked for     *)
(* good; only the rest of a TLS record that does not fit into the buffer   *)
(* waits for the next record.                                              *)
InputRead ==
  NotBlockedForGood =>
    []<>(\/ Ended
         \/ chan = <<>> /\ ssl = <<>>
         \/ transport = "tls" /\ chan = <<>> /\ peer = "open")

(* A process that reports does not outlive its peer.                       *)
PeerGoneEnds ==
  Networked /\ peer = "closed" /\ start_flag = 1 ~> Ended \/ start_flag = 0

=============================================================================
