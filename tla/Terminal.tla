------------------------------- MODULE Terminal -------------------------------
(***************************************************************************)
(* lab1a: a terminal in a mode of its own, with or without a shell behind  *)
(* two pipes.  Bytes are pairs <<kind, number>>, numbered by direction: an *)
(* ordinary character "a", the key "cr", ^C and ^D, what the shell writes, *)
(* "text" or "nl".  The kernel ("POLLHUP" and so on), the shell and the    *)
(* user are external, as the program uses them.                            *)
(***************************************************************************)
EXTENDS Integers, SequencesExt

CONSTANTS
  Keys,        \* what the user may type, a subset of {"a", "cr", "^C", "^D"}
  OutputKinds, \* what the shell may write, a subset of {"text", "nl", "^C", "^D"}
  MaxTyped,    \* bound of the model: keystrokes of a session
  MaxWritten,  \* bound of the model: pieces of output of a session
  BufSize,     \* BUF_SIZE, what one read() returns at most
  PipeSize     \* what a pipe holds

ASSUME TerminalAssumption ==
  /\ Keys \subseteq {"a", "cr", "^C", "^D"}
  /\ OutputKinds \subseteq {"text", "nl", "^C", "^D"}
  /\ MaxTyped \in Nat /\ MaxWritten \in Nat
  /\ {BufSize, PipeSize} \subseteq Nat \ {0}

VARIABLES
  keyboard,   \* typed, and not read yet
  prog,       \* the program: its step, buf, what poll() said and is not handled yet
  shell_flag, \* --shell
  terminal,   \* the mode of the terminal
  pipes,      \* shell_in, shell_out, and whether the program has the former open
  shell,      \* what the child does; "exited" until waitpid(), then "reaped"
  hist        \* auxiliary: all that was typed, consumed, written and displayed

vars == <<keyboard, prog, shell_flag, terminal, pipes, shell, hist>>

At(step) == [at |-> step, buf |-> <<>>, polled |-> {}]

Init ==
  /\ keyboard = <<>>
  /\ prog = At("setup")
  /\ shell_flag = FALSE
  /\ terminal = "default_mode"
  /\ pipes = [shell_in |-> <<>>, shell_out |-> <<>>, in_open |-> FALSE]
  /\ shell = "none"
  /\ hist = [typed |-> <<>>, consumed |-> <<>>, written |-> <<>>, displayed |-> <<>>]

ShellGone == shell \in {"exited", "reaped"}

(* read() of a queue returns the first part of it, and leaves the rest.    *)
Shorter(m, n) == IF m < n THEN m ELSE n

(* Mutant: room for one more than the buffer has.                          *)
ReadOfOneMore(q) == SubSeq(q, 1, Shorter(BufSize + 1, Len(q)))

ReadOf(q) == SubSeq(q, 1, Shorter(BufSize, Len(q)))
RestOf(q) == SubSeq(q, BufSize + 1, Len(q))

-----------------------------------------------------------------------------
(* main().                                                                 *)

SetupTerminal ==
  /\ prog.at = "setup"
  /\ terminal' = "project_mode"
  /\ prog' = At("options")
  /\ UNCHANGED <<keyboard, shell_flag, pipes, shell, hist>>

(* restoreTerminal() is registered by now: a wrong option exits, perhaps   *)
(* after --shell has been seen.                                            *)
ParseOptions ==
  /\ prog.at = "options"
  /\ shell_flag' \in BOOLEAN
  /\ prog' \in {At("restore"), IF shell_flag' THEN At("fork") ELSE At("read")}
  /\ UNCHANGED <<keyboard, terminal, pipes, shell, hist>>

(* setupShell(): fork() may fail.                                          *)
SetupShell ==
  /\ prog.at = "fork"
  /\ \/ /\ shell' = "idle"
        /\ pipes' = [pipes EXCEPT !.in_open = TRUE]
        /\ prog' = At("poll")
     \/ prog' = At("restore") /\ UNCHANGED <<shell, pipes>>
  /\ UNCHANGED <<keyboard, shell_flag, terminal, hist>>

Exits == prog' = At("restore")

-----------------------------------------------------------------------------
(* The loops: pollMode() with a shell, readMode() without.                 *)

(* Mutant: POLLERR and POLLHUP, the events of poll().                      *)
EndEventsOfPoll == {"POLLERR", "POLLHUP"}

(* POLL_ERR and POLL_HUP are codes of signals, 4 and 6.  As bits of an     *)
(* event these are POLLPRI and POLLOUT, which the reading end of a pipe    *)
(* does not know.                                                          *)
EndEvents == {"POLLPRI", "POLLOUT"}

ShellEvents ==
  (IF pipes.shell_out # <<>> THEN {"POLLIN"} ELSE {})
    \cup (IF ShellGone THEN {"POLLHUP"} ELSE {})

(* The part of the loop body that what poll() said asks for next.          *)
GoesOn(polled) ==
  prog' = [at |-> IF ~shell_flag THEN "read"
                  ELSE IF "keyboard" \in polled THEN "read"
                  ELSE IF "shell" \in polled THEN "readShell"
                  ELSE IF "end" \in polled THEN "restore" ELSE "poll",
           buf |-> <<>>,
           polled |-> polled]

Poll ==
  /\ prog.at = "poll"
  /\ GoesOn((IF keyboard # <<>> THEN {"keyboard"} ELSE {})
              \cup (IF "POLLIN" \in ShellEvents THEN {"shell"} ELSE {})
              \cup (IF ShellEvents \cap EndEvents # {} THEN {"end"} ELSE {}))
  /\ UNCHANGED <<keyboard, shell_flag, terminal, pipes, shell, hist>>

ReadKeyboard ==
  /\ prog.at = "read" /\ keyboard # <<>>
  /\ prog' = [prog EXCEPT !.at = "fromKeyboard", !.buf = ReadOf(keyboard)]
  /\ keyboard' = RestOf(keyboard)
  /\ UNCHANGED <<shell_flag, terminal, pipes, shell, hist>>

ReadShell ==
  /\ prog.at = "readShell"
  /\ prog' = [prog EXCEPT !.at = "fromShell", !.buf = ReadOf(pipes.shell_out)]
  /\ pipes' = [pipes EXCEPT !.shell_out = RestOf(@)]
  /\ UNCHANGED <<keyboard, shell_flag, terminal, shell, hist>>

NextByte == Head(prog.buf)
Processing == prog.at \in {"fromKeyboard", "fromShell"} /\ prog.buf # <<>>

(* processedWrite(), case 3: whatever the byte is from, SIGINT for the     *)
(* shell, which ends it or not.                                            *)
Interrupt ==
  /\ Processing /\ NextByte[1] = "^C"
  /\ shell' = shell \/ (shell_flag /\ ~ShellGone /\ shell' = "exited")
  /\ prog' = [prog EXCEPT !.buf = Tail(@)]
  /\ UNCHANGED <<keyboard, shell_flag, terminal, pipes, hist>>

(* Mutant: exit() without the close.                                       *)
EndOfInputKeepsOpen ==
  /\ Processing /\ NextByte[1] = "^D"
  /\ Exits
  /\ UNCHANGED <<keyboard, shell_flag, terminal, pipes, shell, hist>>

(* Case 4.                                                                 *)
EndOfInput ==
  /\ Processing /\ NextByte[1] = "^D"
  /\ pipes' = [pipes EXCEPT !.in_open = FALSE]
  /\ Exits
  /\ UNCHANGED <<keyboard, shell_flag, terminal, shell, hist>>

Shown(kind) == IF kind \in {"cr", "nl"} THEN "crlf" ELSE kind
Passed(kind) == IF kind = "cr" THEN "nl" ELSE kind

(* The other cases: to the display, and what is from the keyboard to the   *)
(* shell after that.                                                       *)
Display ==
  /\ Processing /\ NextByte[1] \notin {"^C", "^D"}
  /\ hist' = [hist EXCEPT !.displayed =
                Append(@, <<prog.at, NextByte[2], Shown(NextByte[1])>>)]
  /\ prog' = IF shell_flag /\ prog.at = "fromKeyboard"
             THEN [prog EXCEPT !.at = "pass"]
             ELSE [prog EXCEPT !.buf = Tail(@)]
  /\ UNCHANGED <<keyboard, shell_flag, terminal, pipes, shell>>

(* Mutant: SIGPIPE is not handled, and kills the program.                  *)
PassUnhandled ==
  /\ prog.at = "pass"
  /\ \/ /\ ~ShellGone /\ Len(pipes.shell_in) < PipeSize
        /\ pipes' = [pipes EXCEPT !.shell_in = Append(@, <<Passed(NextByte[1]), NextByte[2]>>)]
        /\ prog' = [prog EXCEPT !.at = "fromKeyboard", !.buf = Tail(@)]
     \/ ShellGone /\ prog' = At("exited") /\ UNCHANGED pipes
  /\ UNCHANGED <<keyboard, shell_flag, terminal, shell, hist>>

(* A full pipe blocks; a write for a shell that is gone raises SIGPIPE,    *)
(* and handleSignal() exits.                                               *)
Pass ==
  /\ prog.at = "pass"
  /\ \/ /\ ~ShellGone /\ Len(pipes.shell_in) < PipeSize
        /\ pipes' = [pipes EXCEPT !.shell_in = Append(@, <<Passed(NextByte[1]), NextByte[2]>>)]
        /\ prog' = [prog EXCEPT !.at = "fromKeyboard", !.buf = Tail(@)]
     \/ ShellGone /\ Exits /\ UNCHANGED pipes
  /\ UNCHANGED <<keyboard, shell_flag, terminal, shell, hist>>

(* Mutant: i < buf_len - 1.                                                *)
ProcessedEarly ==
  /\ prog.at \in {"fromKeyboard", "fromShell"} /\ Len(prog.buf) <= 1
  /\ GoesOn(prog.polled \ (IF prog.at = "fromKeyboard" THEN {"keyboard"} ELSE {"keyboard", "shell"}))
  /\ UNCHANGED <<keyboard, shell_flag, terminal, pipes, shell, hist>>

Processed ==
  /\ prog.at \in {"fromKeyboard", "fromShell"} /\ prog.buf = <<>>
  /\ GoesOn(prog.polled \ (IF prog.at = "fromKeyboard" THEN {"keyboard"} ELSE {"keyboard", "shell"}))
  /\ UNCHANGED <<keyboard, shell_flag, terminal, pipes, shell, hist>>

(* exit() runs restoreTerminal(); without a child waitpid() just fails.    *)
RestoreTerminal ==
  /\ prog.at = "restore"
  /\ terminal' = "default_mode"
  /\ prog' = At(IF shell = "none" THEN "exited" ELSE "waitpid")
  /\ UNCHANGED <<keyboard, shell_flag, pipes, shell, hist>>

WaitPid ==
  /\ prog.at = "waitpid" /\ shell = "exited"
  /\ shell' = "reaped"
  /\ prog' = At("exited")
  /\ UNCHANGED <<keyboard, shell_flag, terminal, pipes, hist>>

Program ==
  \/ SetupTerminal \/ ParseOptions \/ SetupShell
  \/ Poll \/ ReadKeyboard \/ ReadShell
  \/ Interrupt \/ EndOfInput \/ Display \/ Pass \/ Processed
  \/ RestoreTerminal \/ WaitPid

-----------------------------------------------------------------------------
(* The shell and the user: external.                                       *)

ShellRead ==
  /\ shell = "idle" /\ pipes.shell_in # <<>>
  /\ pipes' = [pipes EXCEPT !.shell_in = Tail(@)]
  /\ hist' = [hist EXCEPT !.consumed = Append(@, Head(pipes.shell_in))]
  /\ UNCHANGED <<keyboard, prog, shell_flag, terminal, shell>>

ShellReadsEnd ==
  /\ shell = "idle" /\ pipes.shell_in = <<>> /\ ~pipes.in_open
  /\ shell' = "exited"
  /\ UNCHANGED <<keyboard, prog, shell_flag, terminal, pipes, hist>>

(* Told to, or because execvp() failed.                                    *)
ShellExit ==
  /\ shell = "idle"
  /\ shell' = "exited"
  /\ UNCHANGED <<keyboard, prog, shell_flag, terminal, pipes, hist>>

ShellStartsToWrite ==
  /\ shell = "idle" /\ Len(hist.written) < MaxWritten
  /\ shell' = "writing"
  /\ UNCHANGED <<keyboard, prog, shell_flag, terminal, pipes, hist>>

ShellWrite ==
  /\ shell = "writing" /\ Len(pipes.shell_out) < PipeSize
  /\ \E kind \in OutputKinds :
       LET piece == <<kind, Len(hist.written) + 1>> IN
       /\ pipes' = [pipes EXCEPT !.shell_out = Append(@, piece)]
       /\ hist' = [hist EXCEPT !.written = Append(@, piece)]
  /\ shell' = "idle"
  /\ UNCHANGED <<keyboard, prog, shell_flag, terminal>>

Type ==
  /\ prog.at # "exited" /\ Len(hist.typed) < MaxTyped
  /\ \E kind \in Keys :
       LET byte == <<kind, Len(hist.typed) + 1>> IN
       /\ keyboard' = Append(keyboard, byte)
       /\ hist' = [hist EXCEPT !.typed = Append(@, byte)]
  /\ UNCHANGED <<prog, shell_flag, terminal, pipes, shell>>

ShellGoesOn == ShellRead \/ ShellReadsEnd \/ ShellWrite

Next == Program \/ ShellGoesOn \/ ShellExit \/ ShellStartsToWrite \/ Type

Spec == Init /\ [][Next]_vars

(* The kernel schedules the program and the shell.  Nobody need type, and  *)
(* the shell need neither write nor exit.                                  *)
FairSpec == Spec /\ WF_vars(Program) /\ WF_vars(ShellGoesOn)

-----------------------------------------------------------------------------
(* Properties.                                                             *)

KeyBytes    == Keys \X (1..MaxTyped)
OutputBytes == OutputKinds \X (1..MaxWritten)
PassedBytes == {"a", "nl"} \X (1..MaxTyped)

(* Each variable has its type; no pipe and no buffer overflows.            *)
TypeOK ==
  /\ keyboard \in Seq(KeyBytes)
  /\ prog.at \in {"setup", "options", "fork", "poll", "read", "readShell", "fromKeyboard",
                  "fromShell", "pass", "restore", "waitpid", "exited"}
  /\ prog.buf \in Seq(KeyBytes \cup OutputBytes) /\ Len(prog.buf) <= BufSize
  /\ prog.polled \subseteq {"keyboard", "shell", "end"}
  /\ shell_flag \in BOOLEAN
  /\ terminal \in {"default_mode", "project_mode"}
  /\ pipes.shell_in \in Seq(PassedBytes) /\ Len(pipes.shell_in) <= PipeSize
  /\ pipes.shell_out \in Seq(OutputBytes) /\ Len(pipes.shell_out) <= PipeSize
  /\ pipes.in_open \in BOOLEAN
  /\ shell \in {"none", "idle", "writing", "exited", "reaped"}

HasEof(q) == \E i \in DOMAIN q : q[i][1] = "^D"

(* The numbers of the bytes in q, and of those only that are of some kinds.*)
(* What is displayed has its source for a kind.                            *)
Numbers(q) == [i \in DOMAIN q |-> q[i][2]]
NumbersOf(kinds, q) ==
  LET upTo[i \in 0..Len(q)] ==
        IF i = 0 THEN <<>>
        ELSE IF q[i][1] \in kinds THEN Append(upTo[i - 1], q[i][2]) ELSE upTo[i - 1]
  IN upTo[Len(q)]

Plain == {"a", "cr", "text", "nl"}
PlainNumbers(q) == NumbersOf(Plain, q)
ShownOf(source) == NumbersOf({source}, hist.displayed)

Looping == prog.at \notin {"restore", "waitpid", "exited"}
InBuffer(steps) == IF prog.at \in steps THEN prog.buf ELSE <<>>

(* What is typed is echoed once and in order, and with a shell is passed   *)
(* on in the same order, a return as a newline; the echo is ahead of it by *)
(* the one byte being written, or that raised SIGPIPE.  What the shell     *)
(* writes is shown once and in order.  Nothing is lost while the loop runs.*)
EchoIntact ==
  LET typed   == PlainNumbers(hist.typed)
      echoed  == ShownOf("fromKeyboard")
      reached == Numbers(hist.consumed \o pipes.shell_in)
      shown   == ShownOf("fromShell")
      pending == IF prog.at = "pass" THEN Tail(prog.buf) ELSE InBuffer({"fromKeyboard"})
  IN
  /\ IsPrefix(echoed, typed)
  /\ IsPrefix(shown, PlainNumbers(hist.written))
  /\ shell_flag =>
       /\ IsPrefix(reached, echoed)
       /\ Len(echoed) - Len(reached) <= (IF prog.at = "pass" \/ ShellGone THEN 1 ELSE 0)
  /\ Looping =>
       /\ typed = echoed \o PlainNumbers(pending \o keyboard)
       /\ PlainNumbers(hist.written) =
            shown \o PlainNumbers(InBuffer({"fromShell"}) \o pipes.shell_out)
       /\ prog.at # "pass" /\ shell_flag => reached = echoed

(* However the program ends, by an option, a failed fork(), a ^D or a      *)
(* SIGPIPE, the terminal is as it was found, and no zombie is left.        *)
ExitClean ==
  prog.at = "exited" => terminal = "default_mode" /\ shell \in {"none", "reaped"}

(* The program never leaves the loop of its own: only for a ^D, or for a   *)
(* key that was echoed and that the shell was not there to take.  So all   *)
(* that the shell has written by its end can be read, however much it is.  *)
EndsForAReason ==
  ~Looping /\ shell # "none" =>
    \/ HasEof(hist.typed) \/ HasEof(hist.written)
    \/ ShellGone /\ Len(ShownOf("fromKeyboard")) > Len(hist.consumed \o pipes.shell_in)

(* The two ways to wait for ever: for a shell whose output is not read any *)
(* more, and for one that writes instead of reading.                       *)
Jam ==
  /\ shell = "writing" /\ Len(pipes.shell_out) = PipeSize
  /\ prog.at = "waitpid" \/ (prog.at = "pass" /\ Len(pipes.shell_in) = PipeSize)

(* A ^D ends the program and the shell, except in a Jam.  The end of the   *)
(* shell is not seen, but the next key that is passed on ends the program. *)
TypedEndEnds ==
  HasEof(hist.typed) \/ (ShellGone /\ \E i \in DOMAIN keyboard : keyboard[i][1] # "^C")
    ~> prog.at = "exited" \/ Jam

=============================================================================
