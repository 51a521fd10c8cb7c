------------------------------ MODULE RemoteShell ------------------------------
(***************************************************************************)
(* A session of lab1b: the client copies the keyboard to a socket and the  *)
(* socket to the display, the server copies the socket to the standard     *)
(* input of a shell and the output of the shell to the socket.  Both run a *)
(* poll() loop; the session starts when the shell has been forked.         *)
(* What is passed on are "bytes", <<kind, number>>: an ordinary keystroke, *)
(* a whole "exit" line, ^C and ^D, or a piece of the output of the shell,  *)
(* each numbered in its direction.  The connection carries units, each one *)
(* byte of the stream: without --compress it stands for itself, with it,   *)
(* given to both programs, for any number of bytes.  --log is left out.    *)
(*                                                                         *)
(* External, as the programs use them: the shell, pipes, TCP on one host,  *)
(* zlib.                                                                   *)
(***************************************************************************)
EXTENDS Integers, SequencesExt

CONSTANTS
  Keys,        \* what the user may type, a subset of {"a", "exit", "^C", "^D"}
  OutputKinds, \* what the shell may write, a subset of {"text", "^C", "^D"}
  MaxTyped,    \* bound of the model: keystrokes of a session
  MaxWritten,  \* bound of the model: pieces of output of a session
  PackedKeys,  \* bounds of the model with --compress: what may be typed,
  PackedKinds, \* and written, and keystrokes and pieces of output together
  MaxPacked,
  BufSize,     \* BUF_SIZE, what one read() returns and one deflate() writes at most
  OutSize,     \* 1024, what one inflate() writes at most
  Overhead,    \* units that deflate() adds to bytes which it cannot compress
  PipeSize,    \* what a pipe holds
  SocketSize,  \* units that each direction of the connection holds
  PackedSize,  \* the same with --compress
  Compress     \* the settings of --compress to consider

ASSUME SessionAssumption ==
  /\ Keys \subseteq {"a", "exit", "^C", "^D"} /\ PackedKeys \subseteq Keys
  /\ OutputKinds \subseteq {"text", "^C", "^D"} /\ PackedKinds \subseteq OutputKinds
  /\ {MaxTyped, MaxWritten, MaxPacked} \subseteq Nat
  /\ {BufSize, PipeSize, SocketSize, PackedSize} \subseteq Nat \ {0}
  /\ PackedSize >= BufSize
  /\ OutSize \in Nat /\ OutSize >= BufSize
  /\ Overhead \in Nat
  /\ Compress \subseteq BOOLEAN

VARIABLES
  compress_flag, \* of both programs
  keyboard, \* typed, and not read by the client
  cl,       \* the client: its step, its buffer, what poll() said and it has not handled
  terminal, \* the mode of the terminal
  net,      \* the connection: both directions, what deflate() holds back of each
            \* (c_held, s_held), and the error of each end
  sv,       \* the server, as cl
  pipes,    \* shell_in, shell_out, and whether the server has the former open
  shell,    \* what the shell does; "exited" until waitpid(), then "reaped"
  hist      \* auxiliary: all that was typed, consumed, written and displayed

vars == <<compress_flag, keyboard, cl, terminal, net, sv, pipes, shell, hist>>

Room == IF compress_flag THEN PackedSize ELSE SocketSize

Looping == [at |-> "poll", buf |-> <<>>, polled |-> {}]

Init ==
  /\ compress_flag \in Compress
  /\ keyboard = <<>>
  /\ cl = Looping
  /\ terminal = "project_mode"
  /\ net = [c2s |-> <<>>, s2c |-> <<>>, c_held |-> <<>>, s_held |-> <<>>,
            c_err |-> "none", s_err |-> "none"]
  /\ sv = Looping
  /\ pipes = [shell_in |-> <<>>, shell_out |-> <<>>, in_open |-> TRUE]
  /\ shell = "idle"
  /\ hist = [typed |-> <<>>, consumed |-> <<>>, written |-> <<>>, displayed |-> <<>>]

ClientGone == cl.at \in {"exited", "sigpipe", "killed"}
ServerGone == sv.at = "exited"
ShellGone  == shell \in {"exited", "reaped"}

(* read() of a queue returns the first part of it, and leaves the rest.    *)
Shorter(m, n) == IF m < n THEN m ELSE n
RestOf(q) == SubSeq(q, BufSize + 1, Len(q))

ReadOf(q) == SubSeq(q, 1, Shorter(BufSize, Len(q)))

(* The bytes of one read() are one unit at best, at worst more than before.*)
Packed(q) == {<<q>>, [i \in 1..Overhead |-> <<>>] \o [i \in DOMAIN q |-> <<q[i]>>]}

(* Mutant: avail_out is that of decompressInput(), the buffer is not.      *)
DeflatedPastEnd(kept, q) ==
  {[at |-> "write", buf |-> kept \o units, kept |-> <<>>] : units \in Packed(q)}

(* compressOutput() writes at most 256 units, and what deflate() holds     *)
(* back comes first the next time.  If this fills all the room, no input   *)
(* is taken, and the loop does not end.                                    *)
Deflated(kept, q) ==
  IF Len(kept) >= BufSize THEN {[at |-> "deflating", buf |-> q, kept |-> kept]}
  ELSE {[at |-> "write", buf |-> ReadOf(kept \o units), kept |-> RestOf(kept \o units)] :
          units \in Packed(q)}

(* Nor does that of decompressInput(), if there is no room for all that    *)
(* the units stand for.                                                    *)
InflateSticks(units) == compress_flag /\ Len(FlattenSeq(units)) > OutSize

-----------------------------------------------------------------------------
(* The client.  With --compress, what it has read is sent as one write.    *)

(* The part of the loop body that what poll() said asks for next.          *)
ClientAt(polled) ==
  IF "keyboard" \in polled THEN "readKeyboard"
  ELSE IF "socket" \in polled THEN "readSocket"
  ELSE IF "hup" \in polled THEN "exit" ELSE "poll"

ClientGoesOn(polled) ==
  cl' = [at |-> ClientAt(polled), buf |-> <<>>,
         polled |-> IF ClientAt(polled) = "poll" THEN {} ELSE polled]

(* A socket whose peer is gone is readable, and with an error POLLHUP, too.*)
ClientPoll ==
  /\ cl.at = "poll"
  /\ ClientGoesOn(
       {e \in {"keyboard", "socket", "hup"} :
          \/ e = "keyboard" /\ keyboard # <<>>
          \/ e = "socket" /\ (net.s2c # <<>> \/ ServerGone)
          \/ e = "hup" /\ net.c_err # "none"})
  /\ UNCHANGED <<keyboard, terminal, net, sv, pipes, shell, hist>>

ClientReadKeyboard ==
  /\ cl.at = "readKeyboard"
  /\ keyboard' = RestOf(keyboard)
  /\ \/ /\ ~compress_flag
        /\ cl' = [cl EXCEPT !.at = "send", !.buf = ReadOf(keyboard)]
        /\ UNCHANGED net
     \/ /\ compress_flag
        /\ \E d \in Deflated(net.c_held, ReadOf(keyboard)) :
             /\ cl' = [cl EXCEPT !.at = d.at, !.buf = d.buf]
             /\ net' = [net EXCEPT !.c_held = d.kept]
  /\ UNCHANGED <<terminal, sv, pipes, shell, hist>>

ClientFails ==
  cl' = [Looping EXCEPT !.at = IF net.c_err = "EPIPE" THEN "sigpipe" ELSE "exit"]

(* processInput() writes byte by byte.  The first byte sent to a server    *)
(* that is gone sets EPIPE, with which the next write raises SIGPIPE, not  *)
(* handled here; if the server left bytes unread a write fails, and exits. *)
ClientSend ==
  /\ cl.at = "send" /\ cl.buf # <<>>
  /\ \/ /\ ~ServerGone /\ Len(net.c2s) < Room
        /\ net' = [net EXCEPT !.c2s = Append(@, <<Head(cl.buf)>>)]
        /\ cl' = [cl EXCEPT !.buf = Tail(@)]
     \/ /\ ServerGone /\ net.c_err = "none"
        /\ net' = [net EXCEPT !.c_err = "EPIPE"]
        /\ cl' = [cl EXCEPT !.buf = Tail(@)]
     \/ net.c_err # "none" /\ ClientFails /\ UNCHANGED net
  /\ UNCHANGED <<keyboard, terminal, sv, pipes, shell, hist>>

(* One write, which waits for room and counts as the first or the second   *)
(* for a server that is gone.                                              *)
ClientWrite ==
  /\ cl.at = "write"
  /\ \/ /\ ~ServerGone /\ Len(net.c2s \o cl.buf) <= Room
        /\ net' = [net EXCEPT !.c2s = @ \o cl.buf]
        /\ ClientGoesOn(cl.polled \ {"keyboard"})
     \/ /\ ServerGone /\ net.c_err = "none"
        /\ net' = [net EXCEPT !.c_err = "EPIPE"]
        /\ ClientGoesOn(cl.polled \ {"keyboard"})
     \/ net.c_err # "none" /\ ClientFails /\ UNCHANGED net
  /\ UNCHANGED <<keyboard, terminal, sv, pipes, shell, hist>>

(* Mutant: i < num_bytes - 1.                                              *)
ClientSentEarly ==
  /\ cl.at = "send" /\ Len(cl.buf) <= 1
  /\ ClientGoesOn(cl.polled \ {"keyboard"})
  /\ UNCHANGED <<keyboard, terminal, net, sv, pipes, shell, hist>>

ClientSent ==
  /\ cl.at = "send" /\ cl.buf = <<>>
  /\ ClientGoesOn(cl.polled \ {"keyboard"})
  /\ UNCHANGED <<keyboard, terminal, net, sv, pipes, shell, hist>>

(* What was received is displayed; nothing more, or a reset, ends the      *)
(* client.                                                                 *)
ClientReadSocket ==
  /\ cl.at = "readSocket"
  /\ LET units == ReadOf(net.s2c) IN
     \/ /\ units # <<>> /\ ~InflateSticks(units)
        /\ hist' = [hist EXCEPT !.displayed = @ \o FlattenSeq(units)]
        /\ net' = [net EXCEPT !.s2c = RestOf(@)]
        /\ ClientGoesOn(cl.polled \ {"socket"})
     \/ /\ InflateSticks(units)
        /\ net' = [net EXCEPT !.s2c = RestOf(@)]
        /\ cl' = [cl EXCEPT !.at = "inflating", !.buf = FlattenSeq(units)]
        /\ UNCHANGED hist
     \/ units = <<>> /\ cl' = [Looping EXCEPT !.at = "exit"] /\ UNCHANGED <<net, hist>>
  /\ UNCHANGED <<keyboard, terminal, sv, pipes, shell>>

(* The end of a process closes its socket: the peer gets ECONNRESET if     *)
(* there was something left to read, and else just no more bytes.          *)
ErrorAfterClose(err, unread) == IF unread # <<>> THEN "ECONNRESET" ELSE err

ClientCloses(how) ==
  /\ cl' = [Looping EXCEPT !.at = how]
  /\ net' = [net EXCEPT !.s_err = ErrorAfterClose(@, net.s2c)]

(* Mutant: restoreTerminal() is not registered with atexit().              *)
ClientExitRaw ==
  /\ cl.at = "exit"
  /\ ClientCloses("exited")
  /\ UNCHANGED <<keyboard, terminal, sv, pipes, shell, hist>>

(* exit() runs restoreTerminal().                                          *)
ClientExit ==
  /\ cl.at = "exit"
  /\ ClientCloses("exited")
  /\ terminal' = "default_mode"
  /\ UNCHANGED <<keyboard, sv, pipes, shell, hist>>

Client ==
  /\ \/ ClientPoll \/ ClientReadKeyboard \/ ClientSend \/ ClientSent \/ ClientWrite
     \/ ClientReadSocket \/ ClientExit
  /\ UNCHANGED compress_flag

-----------------------------------------------------------------------------
(* The server.                                                             *)

ServerAt(polled) ==
  IF "socket" \in polled THEN "readSocket"
  ELSE IF "shell" \in polled THEN "readShell"
  ELSE IF "hup" \in polled THEN "restore" ELSE "poll"

ServerGoesOn(polled) ==
  sv' = [at |-> ServerAt(polled), buf |-> <<>>,
         polled |-> IF ServerAt(polled) = "poll" THEN {} ELSE polled]

(* exit() runs restore().                                                  *)
ServerExits == sv' = [Looping EXCEPT !.at = "restore"]

(* Mutant: POLLHUP is looked at before the output is read.                 *)
ServerPollHupFirst ==
  /\ sv.at = "poll"
  /\ IF ShellGone THEN ServerExits
     ELSE ServerGoesOn({e \in {"socket", "shell"} :
                          \/ e = "socket" /\ (net.c2s # <<>> \/ ClientGone)
                          \/ e = "shell" /\ pipes.shell_out # <<>>})
  /\ UNCHANGED <<keyboard, cl, terminal, net, pipes, shell, hist>>

(* Mutant: POLLHUP is never seen, as with the POLL_HUP of lab1a.           *)
ServerPollNoHup ==
  /\ sv.at = "poll"
  /\ ServerGoesOn({e \in {"socket", "shell"} :
                     \/ e = "socket" /\ (net.c2s # <<>> \/ ClientGone)
                     \/ e = "shell" /\ pipes.shell_out # <<>>})
  /\ UNCHANGED <<keyboard, cl, terminal, net, pipes, shell, hist>>

ServerPoll ==
  /\ sv.at = "poll"
  /\ ServerGoesOn(
       {e \in {"socket", "shell", "hup"} :
          \/ e = "socket" /\ (net.c2s # <<>> \/ ClientGone)
          \/ e = "shell" /\ pipes.shell_out # <<>>
          \/ e = "hup" /\ ShellGone})
  /\ UNCHANGED <<keyboard, cl, terminal, net, pipes, shell, hist>>

(* Nothing to read is not taken as the end of the client, only an error is,*)
(* and EPIPE is none for read().                                           *)
ServerReadSocket ==
  /\ sv.at = "readSocket"
  /\ \/ /\ net.c2s # <<>>
        /\ sv' = [sv EXCEPT !.at = IF InflateSticks(ReadOf(net.c2s)) THEN "inflating" ELSE "toShell",
                           !.buf = FlattenSeq(ReadOf(net.c2s))]
        /\ net' = [net EXCEPT !.c2s = RestOf(@)]
     \/ net.c2s = <<>> /\ net.s_err = "ECONNRESET" /\ ServerExits /\ UNCHANGED net
     \/ /\ net.c2s = <<>> /\ net.s_err # "ECONNRESET"
        /\ ServerGoesOn(sv.polled \ {"socket"})
        /\ UNCHANGED net
  /\ UNCHANGED <<keyboard, cl, terminal, pipes, shell, hist>>

(* With --compress the output of the shell is not looked at.               *)
ServerReadShell ==
  /\ sv.at = "readShell"
  /\ pipes' = [pipes EXCEPT !.shell_out = RestOf(@)]
  /\ \/ /\ ~compress_flag
        /\ sv' = [sv EXCEPT !.at = "toSocket", !.buf = ReadOf(pipes.shell_out)]
        /\ UNCHANGED net
     \/ /\ compress_flag
        /\ \E d \in Deflated(net.s_held, ReadOf(pipes.shell_out)) :
             /\ sv' = [sv EXCEPT !.at = d.at, !.buf = d.buf]
             /\ net' = [net EXCEPT !.s_held = d.kept]
  /\ UNCHANGED <<keyboard, cl, terminal, shell, hist>>

ServerWrite ==
  /\ sv.at = "write"
  /\ \/ /\ ~ClientGone /\ Len(net.s2c \o sv.buf) <= Room
        /\ net' = [net EXCEPT !.s2c = @ \o sv.buf]
        /\ ServerGoesOn(sv.polled \ {"socket", "shell"})
     \/ /\ ClientGone /\ net.s_err = "none"
        /\ net' = [net EXCEPT !.s_err = "EPIPE"]
        /\ ServerGoesOn(sv.polled \ {"socket", "shell"})
     \/ net.s_err # "none" /\ ServerExits /\ UNCHANGED net
  /\ UNCHANGED <<keyboard, cl, terminal, pipes, shell, hist>>

NextKind == Head(sv.buf)[1]
ByteDone == sv' = [sv EXCEPT !.buf = Tail(@)]

(* Mutant: exit without the close of shell_in.                             *)
ServerControlKeepsOpen ==
  /\ sv.at \in {"toShell", "toSocket"} /\ sv.buf # <<>>
  /\ \/ /\ NextKind = "^C"
        /\ ByteDone
        /\ shell' = shell \/ (~ShellGone /\ shell' = "exited")
     \/ NextKind = "^D" /\ ServerExits /\ UNCHANGED shell
  /\ UNCHANGED <<keyboard, cl, terminal, net, pipes, hist>>

(* The cases of processInput() that do not depend on where a byte is from: *)
(* SIGINT for the shell, which ends it or not, and the end of its input.   *)
ServerControl ==
  /\ sv.at \in {"toShell", "toSocket"} /\ sv.buf # <<>>
  /\ \/ /\ NextKind = "^C"
        /\ ByteDone
        /\ shell' = shell \/ (~ShellGone /\ shell' = "exited")
        /\ UNCHANGED pipes
     \/ /\ NextKind = "^D"
        /\ pipes' = [pipes EXCEPT !.in_open = FALSE]
        /\ ServerExits
        /\ UNCHANGED shell
  /\ UNCHANGED <<keyboard, cl, terminal, net, hist>>

(* A write for a shell that is gone raises SIGPIPE: handleSignal() exits.  *)
ServerToShell ==
  /\ sv.at = "toShell" /\ sv.buf # <<>> /\ NextKind \notin {"^C", "^D"}
  /\ \/ /\ ~ShellGone /\ Len(pipes.shell_in) < PipeSize
        /\ pipes' = [pipes EXCEPT !.shell_in = Append(@, Head(sv.buf))]
        /\ ByteDone
     \/ ShellGone /\ ServerExits /\ UNCHANGED pipes
  /\ UNCHANGED <<keyboard, cl, terminal, net, shell, hist>>

(* So does the second write for a client that is gone; if that left bytes  *)
(* unread the first one fails.                                             *)
ServerToSocket ==
  /\ sv.at = "toSocket" /\ sv.buf # <<>> /\ NextKind \notin {"^C", "^D"}
  /\ \/ /\ ~ClientGone /\ Len(net.s2c) < Room
        /\ net' = [net EXCEPT !.s2c = Append(@, <<Head(sv.buf)>>)]
        /\ ByteDone
     \/ /\ ClientGone /\ net.s_err = "none"
        /\ net' = [net EXCEPT !.s_err = "EPIPE"]
        /\ ByteDone
     \/ net.s_err # "none" /\ ServerExits /\ UNCHANGED net
  /\ UNCHANGED <<keyboard, cl, terminal, pipes, shell, hist>>

(* Mutant: i < num_bytes - 1.                                              *)
ServerDoneEarly ==
  /\ sv.at \in {"toShell", "toSocket"} /\ Len(sv.buf) <= 1
  /\ ServerGoesOn(sv.polled \ (IF sv.at = "toShell" THEN {"socket"} ELSE {"socket", "shell"}))
  /\ UNCHANGED <<keyboard, cl, terminal, net, pipes, shell, hist>>

ServerDone ==
  /\ sv.at \in {"toShell", "toSocket"} /\ sv.buf = <<>>
  /\ ServerGoesOn(sv.polled \ (IF sv.at = "toShell" THEN {"socket"} ELSE {"socket", "shell"}))
  /\ UNCHANGED <<keyboard, cl, terminal, net, pipes, shell, hist>>

(* restore() waits for the shell, with shell_in open if it was.            *)
ServerRestore ==
  /\ sv.at = "restore" /\ shell = "exited"
  /\ shell' = "reaped"
  /\ sv' = [Looping EXCEPT !.at = "exited"]
  /\ net' = [net EXCEPT !.c_err = ErrorAfterClose(@, net.c2s)]
  /\ pipes' = [pipes EXCEPT !.in_open = FALSE]
  /\ UNCHANGED <<keyboard, cl, terminal, hist>>

Server ==
  /\ \/ ServerPoll \/ ServerReadSocket \/ ServerReadShell \/ ServerControl
     \/ ServerToShell \/ ServerToSocket \/ ServerDone
     \/ ServerWrite \/ ServerRestore
  /\ UNCHANGED compress_flag

-----------------------------------------------------------------------------
(* The shell, the user, and a kill of the client: external.                *)

ShellRead ==
  /\ shell = "idle" /\ pipes.shell_in # <<>>
  /\ pipes' = [pipes EXCEPT !.shell_in = Tail(@)]
  /\ hist' = [hist EXCEPT !.consumed = Append(@, Head(pipes.shell_in))]
  /\ shell' = IF Head(pipes.shell_in)[1] = "exit" THEN "exited" ELSE shell
  /\ UNCHANGED <<keyboard, cl, terminal, net, sv>>

ShellReadsEnd ==
  /\ shell = "idle" /\ pipes.shell_in = <<>> /\ ~pipes.in_open
  /\ shell' = "exited"
  /\ UNCHANGED <<keyboard, cl, terminal, net, sv, pipes, hist>>

WithinBounds == compress_flag => Len(hist.typed) + Len(hist.written) < MaxPacked

ShellStartsToWrite ==
  /\ shell = "idle" /\ Len(hist.written) < MaxWritten /\ WithinBounds
  /\ shell' = "writing"
  /\ UNCHANGED <<compress_flag, keyboard, cl, terminal, net, sv, pipes, hist>>

ShellWrite ==
  /\ shell = "writing" /\ Len(pipes.shell_out) < PipeSize
  /\ \E kind \in IF compress_flag THEN PackedKinds ELSE OutputKinds :
       LET piece == <<kind, Len(hist.written) + 1>> IN
       /\ pipes' = [pipes EXCEPT !.shell_out = Append(@, piece)]
       /\ hist' = [hist EXCEPT !.written = Append(@, piece)]
  /\ shell' = "idle"
  /\ UNCHANGED <<keyboard, cl, terminal, net, sv>>

Type ==
  /\ ~ClientGone /\ Len(hist.typed) < MaxTyped /\ WithinBounds
  /\ \E kind \in IF compress_flag THEN PackedKeys ELSE Keys :
       LET key == <<kind, Len(hist.typed) + 1>> IN
       /\ keyboard' = Append(keyboard, key)
       /\ hist' = [hist EXCEPT !.typed = Append(@, key)]
  /\ UNCHANGED <<cl, terminal, net, sv, pipes, shell>>

KillClient ==
  /\ ~ClientGone
  /\ ClientCloses("killed")
  /\ UNCHANGED <<keyboard, terminal, sv, pipes, shell, hist>>

ShellGoesOn == (ShellRead \/ ShellReadsEnd \/ ShellWrite) /\ UNCHANGED compress_flag
UserGoesOn  == (Type \/ KillClient) /\ UNCHANGED compress_flag

Next == Client \/ Server \/ ShellGoesOn \/ ShellStartsToWrite \/ UserGoesOn

Spec == Init /\ [][Next]_vars

(* The programs and the shell are processes of their own, which the kernel *)
(* schedules.  The shell need not write, the user need not type.           *)
FairSpec == Spec /\ WF_vars(Client) /\ WF_vars(Server) /\ WF_vars(ShellGoesOn)

-----------------------------------------------------------------------------
(* Properties.                                                             *)

Bytes(kinds, n) == kinds \X (1..n)
KeyBytes    == Bytes(Keys, MaxTyped)
OutputBytes == Bytes(OutputKinds, MaxWritten)

(* Each variable has its type: no queue holds more than the kernel, no     *)
(* buffer more than the program has room for.                              *)
TypeOK ==
  /\ keyboard \in Seq(KeyBytes)
  /\ cl.at \in {"poll", "readKeyboard", "send", "write", "readSocket", "deflating",
               "inflating", "exit", "exited", "sigpipe", "killed"}
  /\ cl.buf \in CASE cl.at = "write" -> Seq(Seq(KeyBytes))
                 [] cl.at = "inflating" -> Seq(OutputBytes)
                 [] OTHER -> Seq(KeyBytes)
  /\ cl.at # "inflating" => Len(cl.buf) <= BufSize
  /\ cl.polled \subseteq {"keyboard", "socket", "hup"}
  /\ terminal \in {"project_mode", "default_mode"}
  /\ {net.c2s, net.c_held} \subseteq Seq(Seq(KeyBytes)) /\ Len(net.c2s) <= Room
  /\ {net.s2c, net.s_held} \subseteq Seq(Seq(OutputBytes)) /\ Len(net.s2c) <= Room
  /\ {net.c_err, net.s_err} \subseteq {"none", "EPIPE", "ECONNRESET"}
  /\ pipes.in_open \in BOOLEAN
  /\ sv.at \in {"poll", "readSocket", "readShell", "toShell", "toSocket", "write",
               "deflating", "inflating", "restore", "exited"}
  /\ sv.buf \in CASE sv.at = "write" -> Seq(Seq(OutputBytes))
                 [] sv.at \in {"toShell", "inflating"} -> Seq(KeyBytes)
                 [] OTHER -> Seq(OutputBytes)
  /\ sv.at # "inflating" => Len(sv.buf) <= (IF sv.at = "toShell" THEN OutSize ELSE BufSize)
  /\ sv.polled \subseteq {"socket", "shell", "hup"}
  /\ pipes.shell_in \in Seq(KeyBytes) /\ Len(pipes.shell_in) <= PipeSize
  /\ pipes.shell_out \in Seq(OutputBytes) /\ Len(pipes.shell_out) <= PipeSize
  /\ shell \in {"idle", "writing", "exited", "reaped"}
  /\ hist.typed \in Seq(KeyBytes) /\ hist.consumed \in Seq(KeyBytes)
  /\ hist.written \in Seq(OutputBytes) /\ hist.displayed \in Seq(OutputBytes)

HasEof(q) == \E i \in DOMAIN q : q[i][1] = "^D"
IsPlain(b) == b[1] \notin {"^C", "^D"}

(* The bytes that are no control characters, and those before the first ^D.*)
Plain(q) ==
  LET upTo[i \in 0..Len(q)] ==
        IF i = 0 THEN <<>>
        ELSE IF IsPlain(q[i]) THEN Append(upTo[i - 1], q[i]) ELSE upTo[i - 1]
  IN upTo[Len(q)]

UpToEof(q) ==
  SubSeq(q, 1, CHOOSE n \in 0..Len(q) :
                 ~HasEof(SubSeq(q, 1, n)) /\ (n < Len(q) => q[n + 1][1] = "^D"))

InBuffer(process, steps) ==
  IF process.at \notin steps THEN <<>>
  ELSE IF process.at = "write" THEN FlattenSeq(process.buf) ELSE process.buf

ClientRuns == ~ClientGone
ServerRuns == sv.at \notin {"restore", "exited"}

(* What is typed reaches the shell in order, each key once, and nothing    *)
(* after a ^D: while both loops run, the keys still missing are where the  *)
(* code has put them, and when the server has closed shell_in because of a *)
(* typed ^D the shell has, or will read, all that was typed before it.     *)
InputIntact ==
  LET reached == hist.consumed \o pipes.shell_in IN
  /\ IsPrefix(reached, Plain(UpToEof(hist.typed)))
  /\ ClientRuns /\ ServerRuns =>
       Plain(hist.typed) = Plain(reached \o InBuffer(sv, {"toShell", "inflating"})
                                   \o FlattenSeq(net.c2s) \o InBuffer(cl, {"write"})
                                   \o FlattenSeq(net.c_held)
                                   \o InBuffer(cl, {"send", "deflating"}) \o keyboard)
  /\ sv.at = "restore" /\ ~pipes.in_open /\ ~HasEof(hist.written) =>
       reached = Plain(UpToEof(hist.typed))

(* What the shell writes is displayed in order, each piece once, but for   *)
(* the bytes that the server takes for control characters, which it does   *)
(* not with --compress; as long as both loops run none is lost.            *)
Shown(q) == IF compress_flag THEN q ELSE Plain(q)

OutputIntact ==
  /\ IsPrefix(hist.displayed, Shown(hist.written))
  /\ ClientRuns /\ ServerRuns =>
       Shown(hist.written) = Shown(hist.displayed \o InBuffer(cl, {"inflating"})
                                     \o FlattenSeq(net.s2c) \o InBuffer(sv, {"write"})
                                     \o FlattenSeq(net.s_held)
                                     \o InBuffer(sv, {"toSocket", "deflating"})
                                     \o pipes.shell_out)

(* A client that was not killed leaves the terminal as it found it, unless *)
(* the shell missed two keys: SIGPIPE takes two writes after the end.      *)
TerminalRestored ==
  ClientGone /\ cl.at # "killed" /\ Len(hist.typed) < Len(hist.consumed) + 2 =>
    terminal = "default_mode"

Ended == ServerGone /\ ClientGone

(* The loops of --compress that do not end.                                *)
Stuck == {cl.at, sv.at} \cap {"deflating", "inflating"} # {}

(* Each of the two programs waits for the other to read, and neither does. *)
BothWrite ==
  /\ ClientRuns /\ ServerRuns
  /\ \/ cl.at = "send" /\ cl.buf # <<>> /\ Len(net.c2s) = Room
     \/ cl.at = "write" /\ Len(net.c2s \o cl.buf) > Room
  /\ \/ sv.at = "toSocket" /\ sv.buf # <<>> /\ IsPlain(Head(sv.buf)) /\ Len(net.s2c) = Room
     \/ sv.at = "write" /\ Len(net.s2c \o sv.buf) > Room

(* No orphans: when the shell ends, both programs end and the shell has    *)
(* been waited for, whatever the user types meanwhile, unless one of them  *)
(* is Stuck, or the user typed ahead so much that BothWrite.               *)
SessionEnds == ShellGone ~> (Ended /\ shell = "reaped") \/ Stuck \/ BothWrite

(* The ways to wait for ever: the server does not read from a shell that   *)
(* it waits for, or BothWrite.                                             *)
Jam ==
  \/ /\ shell = "writing" /\ Len(pipes.shell_out) = PipeSize
     /\ \/ sv.at = "restore"
        \/ sv.at = "toShell" /\ Len(pipes.shell_in) = PipeSize
  \/ BothWrite

(* A ^D ends the session, except in a Jam or for a client that was killed, *)
(* or is Stuck, or whose deflate() holds the ^D back.                      *)
EofEnds ==
  HasEof(hist.typed) ~>
    Ended \/ cl.at = "killed" \/ Jam \/ Stuck \/ HasEof(FlattenSeq(net.c_held))

LastIsRead == hist.consumed # <<>> /\ Last(hist.consumed) = Last(hist.typed)

(* The shell has read the last thing typed, "exit", and when the server    *)
(* polls next, no more of its output is unread than one read() returns,    *)
(* nor did the shell write a ^D.                                           *)
LeftByExit ==
  /\ shell = "exited" /\ LastIsRead /\ Last(hist.consumed)[1] = "exit"
  /\ sv.at = "poll" /\ Len(pipes.shell_out) <= BufSize
  /\ ~HasEof(hist.written)

(* All that the shell wrote before an "exit" is displayed, although the    *)
(* server stops at the POLLHUP, unless more is typed after the exit; with  *)
(* --compress, but for what deflate() holds back.                          *)
TailShown ==
  LeftByExit ~> \/ hist.displayed = Shown(hist.written)
                \/ cl.at = "killed" \/ Stuck
                \/ ~LastIsRead
                \/ FlattenSeq(net.s_held) # <<>>

=============================================================================
