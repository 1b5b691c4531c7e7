---------------------------- MODULE ExoCommand ----------------------------
(***************************************************************************)
(* execute_command of pepper/libv/computation_p.cpp: the prover runs a     *)
(* program of the user's as a child process, writes it all of its input    *)
(* through one pipe, closes that pipe, and reads its output from another   *)
(* until the end of file.  Pipes hold PIPE tokens; a process waits to read *)
(* an empty pipe and to write a full one.                                  *)
(***************************************************************************)
EXTENDS Integers, Sequences

CONSTANTS
    PIPE,       \* the capacity of a pipe
    Token,      \* what goes through the pipes
    Excuse,     \* what a child writes that cannot be executed
    Programs    \* the programs of the user (external)

ASSUME PipeAssumption == PIPE \in Nat \ {0}

(***************************************************************************)
(* A program: missing, not executable, or one that reads its input to the  *)
(* end or not at all (reads), writes a token for every token it reads or   *)
(* nothing before the end (echoes), and then writes its answer.            *)
(***************************************************************************)
ASSUME ProgramAssumption ==
    Programs # {} /\
    Programs \subseteq [kind : {"missing", "noexec", "runs"}, reads : BOOLEAN,
                        echoes : BOOLEAN, answer : Seq(Token)]
ASSUME ExcuseAssumption == Excuse \in Seq(Token) /\ Len(Excuse) <= PIPE

VARIABLES
    program,    \* the file execlp is given
    procIn,     \* the input string
    parent,     \* where the prover is in execute_command
    to_write,   \* what is left of procIn in write()
    stdin,      \* the pipe to the child
    eof,        \* its writing end is closed
    child,      \* "starting", "reading", "last" (its last output) or "exited"
    got,        \* what the child has read
    out,        \* what it is about to write
    stdout,     \* the pipe back
    procOut     \* what the prover has read

exoVars == <<program, procIn, parent, to_write, stdin, eof, child, got, out, stdout, procOut>>

ExoInit ==
    /\ program = CHOOSE p \in Programs : TRUE
    /\ procIn = <<>> /\ to_write = <<>> /\ stdin = <<>> /\ eof = FALSE
    /\ parent = "idle" /\ child = "exited" /\ got = <<>>
    /\ out = <<>> /\ stdout = <<>> /\ procOut = <<>>

\* pipe, pipe, fork.
Fork(p, input) ==
    /\ parent = "idle"
    /\ program' = p
    /\ parent' = "write"
    /\ procIn' = input
    /\ to_write' = input
    /\ stdin' = <<>> /\ eof' = FALSE
    /\ stdout' = <<>> /\ procOut' = <<>>
    /\ child' = "starting"
    /\ got' = <<>> /\ out' = <<>>

\* There is no pipe, or no process, to be had: the prover ends.
ForkFails ==
    /\ parent = "idle"
    /\ parent' = "ended"
    /\ UNCHANGED <<program, procIn, eof, to_write, stdin, child, got, out, stdout, procOut>>

-----------------------------------------------------------------------------
(***************************************************************************)
(* The prover.                                                             *)
(***************************************************************************)

\* Inside write(), which returns when everything is in the pipe.
WriteInput ==
    /\ parent = "write" /\ to_write # <<>> /\ child # "exited"
    /\ Len(stdin) < PIPE
    /\ stdin' = Append(stdin, Head(to_write))
    /\ to_write' = Tail(to_write)
    /\ UNCHANGED <<program, procIn, eof, parent, child, got, out, stdout, procOut>>

\* Nobody reads the pipe any more: the prover is ended, by the signal or,
\* where that is ignored, by the test of what write() returns.
BrokenPipe ==
    /\ parent = "write" /\ to_write # <<>> /\ child = "exited"
    /\ parent' = "ended"
    /\ UNCHANGED <<program, procIn, eof, to_write, stdin, child, got, out, stdout, procOut>>

\* Mutant: the pipe to the child is left open.
LeaveInputOpen ==
    /\ parent = "write" /\ to_write = <<>>
    /\ parent' = "read"
    /\ UNCHANGED <<program, procIn, to_write, stdin, eof, child, got, out, stdout, procOut>>

\* close(stdinFD[PIPE_WR])
CloseInput ==
    /\ parent = "write" /\ to_write = <<>>
    /\ parent' = "read"
    /\ eof' = TRUE
    /\ UNCHANGED <<program, procIn, to_write, stdin, child, got, out, stdout, procOut>>

\* Mutant: an empty pipe is taken for the end of the output.
ReadOutputOnce ==
    /\ parent = "read"
    /\ procOut' = procOut \o stdout
    /\ stdout' = <<>>
    /\ parent' = "done"
    /\ UNCHANGED <<program, procIn, eof, to_write, stdin, child, got, out>>

\* read() returns what there is, and zero once the child is gone.
ReadOutput ==
    /\ parent = "read" /\ (stdout # <<>> \/ child = "exited")
    /\ procOut' = procOut \o stdout
    /\ stdout' = <<>>
    /\ parent' = IF stdout = <<>> THEN "done" ELSE parent
    /\ UNCHANGED <<program, procIn, eof, to_write, stdin, child, got, out>>

-----------------------------------------------------------------------------
(***************************************************************************)
(* The child.                                                              *)
(***************************************************************************)

\* The test that the file exists, and execlp.  The message of a failed
\* execlp goes into the pipe that is the child's output by then.
Start ==
    /\ child = "starting"
    /\ child' = IF program.kind = "missing" THEN "exited"
                ELSE IF program.kind = "runs" /\ program.reads THEN "reading" ELSE "last"
    /\ out' = CASE program.kind = "missing" -> <<>>
                [] program.kind = "noexec" -> Excuse
                [] program.kind = "runs" -> IF program.reads THEN <<>> ELSE program.answer
    /\ UNCHANGED <<program, procIn, eof, parent, to_write, stdin, got, stdout, procOut>>

ChildReads ==
    /\ child = "reading" /\ out = <<>> /\ stdin # <<>>
    /\ got' = Append(got, Head(stdin))
    /\ out' = IF program.echoes THEN <<Head(stdin)>> ELSE <<>>
    /\ stdin' = Tail(stdin)
    /\ UNCHANGED <<program, procIn, eof, parent, to_write, child, stdout, procOut>>

\* The end of its input.
ChildEnds ==
    /\ child = "reading" /\ out = <<>> /\ stdin = <<>> /\ eof
    /\ child' = "last"
    /\ out' = program.answer
    /\ UNCHANGED <<program, procIn, eof, parent, to_write, stdin, got, stdout, procOut>>

ChildWrites ==
    /\ out # <<>> /\ Len(stdout) < PIPE
    /\ stdout' = Append(stdout, Head(out))
    /\ out' = Tail(out)
    /\ UNCHANGED <<program, procIn, eof, parent, to_write, stdin, child, got, procOut>>

ChildExits ==
    /\ child = "last" /\ out = <<>>
    /\ child' = "exited"
    /\ UNCHANGED <<program, procIn, eof, parent, to_write, stdin, got, out, stdout, procOut>>

ParentStep == WriteInput \/ BrokenPipe \/ CloseInput \/ ReadOutput
ChildStep == Start \/ ChildReads \/ ChildEnds \/ ChildWrites \/ ChildExits

-----------------------------------------------------------------------------
(***************************************************************************)
(* Properties.                                                             *)
(***************************************************************************)

\* Neither process can move.
Hang ==
    /\ \/ parent = "write" /\ to_write # <<>> /\ child # "exited" /\ Len(stdin) = PIPE
       \/ parent = "read" /\ stdout = <<>> /\ child # "exited"
    /\ \/ out # <<>> /\ Len(stdout) = PIPE
       \/ child = "reading" /\ out = <<>> /\ stdin = <<>> /\ ~eof

(***************************************************************************)
(* The prover writes all of the input before it reads any output, so that  *)
(* the two processes can come to wait for each other.  They do so only     *)
(* with more input than the pipe holds and a program that writes before it *)
(* has read its input; a program that answers token by token needs more    *)
(* than both pipes hold.                                                   *)
(***************************************************************************)
HangNeedsFullPipes ==
    Hang => /\ program.kind = "runs" /\ (program.reads => program.echoes)
            /\ Len(procIn) > (IF program.reads THEN 2 * PIPE + 1 ELSE PIPE)

\* What a program writes, given an input.
Output(p, input) ==
    CASE p.kind = "missing" -> <<>>
      [] p.kind = "noexec"  -> Excuse
      [] p.kind = "runs"    -> IF p.reads /\ p.echoes THEN input \o p.answer ELSE p.answer

(***************************************************************************)
(* When execute_command returns, it returns all that the program writes,   *)
(* in order, and a program that reads its input has been given all of it.  *)
(***************************************************************************)
AllExchanged ==
    parent = "done" =>
        /\ procOut = Output(program, procIn)
        /\ program.kind = "runs" /\ program.reads => got = procIn

=============================================================================
