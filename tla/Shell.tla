------------------------------- MODULE Shell -------------------------------
(***************************************************************************)
(* shell/main.c and shell/executor.c: the shell's loop, the processes it   *)
(* forks for a line and the pipes between them.  A line is what            *)
(* ShellParser makes of it, seen from here: the stages of a pipeline, with *)
(* the kind of command and the redirections of each, and the background    *)
(* flag.  The kernel's part - file descriptors, pipes, zombies - and the   *)
(* programs run by execvp are modelled as far as the shell uses them: a    *)
(* program copies its input to its output up to the end of file.           *)
(***************************************************************************)
EXTENDS Integers, Sequences, FiniteSets

CONSTANTS Lines,        (* the lines that may be typed                     *)
          MaxJobs,      (* the model's bound on the lines that are run,    *)
          MaxStages,    (* on the stages of one,                           *)
          PipeSize,     (* on what a pipe holds,                           *)
          Input         (* and on what a terminal or a file has to read    *)

Kinds == {"program", "builtin", "unset"}
Stages == [kind : Kinds, redirected : SUBSET {"in", "out"}]

ASSUME BoundsAssumption ==
  /\ MaxJobs \in Nat \ {0} /\ MaxStages \in Nat \ {0}
  /\ PipeSize \in Nat \ {0} /\ Input \in Nat

ASSUME LinesAssumption ==
  \A l \in Lines : /\ l.stages \in Seq(Stages)
                   /\ Len(l.stages) \in 1 .. MaxStages
                   /\ l.background \in BOOLEAN

VARIABLES shell,        (* where main is in its loop                       *)
          job,          (* the lines it has run, job[j] the j-th           *)
          proc,         (* the processes, ended ones included              *)
          content       (* how much there is in each pipe                  *)

vars == <<shell, job, proc, content>>

(* Of the processes of a line <<j, 0>> is the one main forks, which runs   *)
(* do_pipe and in the end the last stage; <<j, k>> is the one it forks for *)
(* stage k, and <<j, k>> is also the pipe from stage k to the next.        *)
Jobs == 1 .. MaxJobs
Pids == Jobs \X (0 .. MaxStages - 1)
Pipes == Jobs \X (1 .. MaxStages - 1)
Leader(j) == <<j, 0>>

(* Descriptors 0 and 1, and do_pipe's fd[0] and fd[1].                     *)
Fds == {"stdin", "stdout", "fd0", "fd1"}
Terminal == <<"terminal">>
AFile == <<"file">>
Closed == <<"closed">>
ReadEnd(q) == <<"read", q>>
WriteEnd(q) == <<"write", q>>

NoFds == [f \in Fds |-> Closed]
ShellFds == [NoFds EXCEPT !["stdin"] = Terminal, !["stdout"] = Terminal]

NoProcess == [status |-> "none", at |-> "none", stage |-> 0, fd |-> NoFds,
              input |-> 0, hand |-> 0]

IsOpen(end) == \E p \in Pids : \E f \in Fds : proc[p].fd[f] = end

Zombies == {p \in Pids : proc[p].status = "zombie"}

Init == /\ shell = "poll" /\ job = <<>>
        /\ proc = [p \in Pids |-> NoProcess]
        /\ content = [q \in Pipes |-> 0]

-----------------------------------------------------------------------------
(* main                                                                    *)
Reap(p) == proc' = [proc EXCEPT ![p].status = "reaped"]

(* A slip: zombies are left alone.                                         *)
BugPoll == /\ shell = "poll" /\ shell' = "prompt"
           /\ UNCHANGED <<job, proc, content>>

(* "checking background jobs": whatever child has ended, one at a time.    *)
Poll == /\ shell = "poll" /\ shell' = "prompt"
        /\ IF Zombies = {} THEN UNCHANGED proc ELSE \E p \in Zombies : Reap(p)
        /\ UNCHANGED <<job, content>>

(* Nothing was typed, the input is at its end, or a cd, alone in its line, *)
(* was done by main itself.                                                *)
NoCommand == /\ shell = "prompt" /\ shell' = "poll"
             /\ UNCHANGED <<job, proc, content>>

(* A line with one command: main looks at args[0] for a cd, which nobody   *)
(* has set if the line has redirections or an ampersand only.              *)
ReadLine == /\ shell = "prompt" /\ Len(job) < MaxJobs
            /\ \E l \in Lines :
                 /\ job' = Append(job, l)
                 /\ shell' \in IF Len(l.stages) = 1 /\ l.stages[1].kind = "unset"
                               THEN {"fork", "crashed"} ELSE {"fork"}
            /\ UNCHANGED <<proc, content>>

Current == Len(job)
Last(j) == Len(job[j].stages)
DoPipe(j, stage) == IF stage = Last(j) THEN "execute" ELSE "pipe"

Started(stage, at, fds) ==
  [status |-> "running", at |-> at, stage |-> stage, fd |-> fds,
   input |-> 0, hand |-> 0]

(* A slip: the shell does not wait for what runs in the foreground.        *)
BugForkJob ==
  /\ shell = "fork"
  /\ proc' = [proc EXCEPT ![Leader(Current)] =
                Started(1, DoPipe(Current, 1), ShellFds)]
  /\ shell' = "poll"
  /\ UNCHANGED <<job, content>>

ForkJob ==
  /\ shell = "fork"
  /\ proc' = [proc EXCEPT ![Leader(Current)] =
                Started(1, DoPipe(Current, 1), ShellFds)]
  /\ shell' = IF job[Current].background THEN "poll" ELSE "wait"
  /\ UNCHANGED <<job, content>>

ForkJobFails == /\ shell = "fork" /\ shell' = "poll"
                /\ UNCHANGED <<job, proc, content>>

(* wait() returns for any child.                                           *)
Wait == /\ shell = "wait" /\ shell' = "poll"
        /\ \E p \in Zombies : Reap(p)
        /\ UNCHANGED <<job, content>>

main == Poll \/ NoCommand \/ ReadLine \/ ForkJob \/ ForkJobFails \/ Wait

-----------------------------------------------------------------------------
(* do_pipe                                                                 *)
At(p, at) == proc[p].at = at

(* A process ends, in whatever way, and its descriptors are closed.  What  *)
(* main did not fork itself is not main's to wait for.                     *)
Ended(p) == [proc[p] EXCEPT !.status = IF p[2] = 0 THEN "zombie" ELSE "reaped",
                            !.at = "none", !.fd = NoFds, !.hand = 0]
Exit(p) == proc' = [proc EXCEPT ![p] = Ended(p)] /\ UNCHANGED content

(* The pipe is made and the stage forked.                                  *)
Piped(p) == LET q == <<p[1], proc[p].stage>>
            IN  [proc[p].fd EXCEPT !["fd0"] = ReadEnd(q), !["fd1"] = WriteEnd(q)]

ForkStage(p) ==
  LET c == <<p[1], proc[p].stage>>
  IN  /\ At(p, "pipe")
      /\ proc' = [proc EXCEPT ![p].at = "parent", ![p].fd = Piped(p),
                    ![c] = Started(proc[p].stage, "child", Piped(p))]
      /\ UNCHANGED content

(* The code takes a fork that failed for the parent's side of it: the      *)
(* stage is missing.                                                       *)
ForkStageFails(p) ==
  /\ At(p, "pipe")
  /\ proc' = [proc EXCEPT ![p].at = "parent", ![p].fd = Piped(p)]
  /\ UNCHANGED content

(* A slip: the child keeps the reading end.                                *)
BugChild(p) ==
  /\ At(p, "child")
  /\ proc' = [proc EXCEPT ![p].at = "execute",
                          ![p].fd["stdout"] = proc[p].fd["fd1"],
                          ![p].fd["fd1"] = Closed]
  /\ UNCHANGED content

Child(p) ==
  /\ At(p, "child")
  /\ proc' = [proc EXCEPT ![p].at = "execute",
                          ![p].fd["stdout"] = proc[p].fd["fd1"],
                          ![p].fd["fd0"] = Closed, ![p].fd["fd1"] = Closed]
  /\ UNCHANGED content

(* A slip: the parent keeps the writing end.                               *)
BugParent(p) ==
  /\ At(p, "parent")
  /\ proc' = [proc EXCEPT ![p].at = DoPipe(p[1], proc[p].stage + 1),
                          ![p].stage = @ + 1,
                          ![p].fd["stdin"] = proc[p].fd["fd0"],
                          ![p].fd["fd0"] = Closed]
  /\ UNCHANGED content

(* The parent goes on as the next stage, which reads from this one.        *)
Parent(p) ==
  /\ At(p, "parent")
  /\ proc' = [proc EXCEPT ![p].at = DoPipe(p[1], proc[p].stage + 1),
                          ![p].stage = @ + 1,
                          ![p].fd["stdin"] = proc[p].fd["fd0"],
                          ![p].fd["fd0"] = Closed, ![p].fd["fd1"] = Closed]
  /\ UNCHANGED content

do_pipe(p) == ForkStage(p) \/ ForkStageFails(p) \/ Child(p) \/ Parent(p)

-----------------------------------------------------------------------------
(* execute                                                                 *)
Command(p) == job[p[1]].stages[proc[p].stage]

(* A file cannot be opened or the program not be executed, or there is no  *)
(* command and the pointer nobody set leads nowhere; a cd ends like that   *)
(* too, for it has nothing to write.                                       *)
ExecuteFails(p) == At(p, "execute") /\ Exit(p)

(* The redirections are put in place and the command runs: a builtin has   *)
(* its text to write, a program its input to read.                         *)
Execute(p) ==
  /\ At(p, "execute") /\ Command(p).kind # "unset"
  /\ proc' = [proc EXCEPT
       ![p].at = Command(p).kind,
       ![p].fd["stdin"] = IF "in" \in Command(p).redirected THEN AFile ELSE @,
       ![p].fd["stdout"] = IF "out" \in Command(p).redirected THEN AFile ELSE @,
       ![p].input = IF Command(p).kind = "program" THEN Input ELSE 0,
       ![p].hand = IF Command(p).kind = "builtin" THEN 1 ELSE 0]
  /\ UNCHANGED content

execute(p) == Execute(p) \/ ExecuteFails(p)

-----------------------------------------------------------------------------
(* The commands, on the descriptors they were given.                       *)
Stdin(p) == proc[p].fd["stdin"]
Stdout(p) == proc[p].fd["stdout"]
FromPipe(p) == Stdin(p)[1] = "read"
ToPipe(p) == Stdout(p)[1] = "write"

Reads(p) == At(p, "program") /\ proc[p].hand = 0

ReadPipe(p) ==
  /\ Reads(p) /\ FromPipe(p) /\ content[Stdin(p)[2]] > 0
  /\ content' = [content EXCEPT ![Stdin(p)[2]] = @ - 1]
  /\ proc' = [proc EXCEPT ![p].hand = 1]

ReadInput(p) ==
  /\ Reads(p) /\ ~ FromPipe(p) /\ proc[p].input > 0
  /\ proc' = [proc EXCEPT ![p].input = @ - 1, ![p].hand = 1]
  /\ UNCHANGED content

EndOfFile(p) ==
  /\ Reads(p)
  /\ IF FromPipe(p) THEN /\ content[Stdin(p)[2]] = 0
                         /\ ~ IsOpen(WriteEnd(Stdin(p)[2]))
                    ELSE proc[p].input = 0
  /\ Exit(p)

(* A builtin has nothing more to do when it has written.                   *)
Wrote(p) == IF At(p, "builtin") THEN Ended(p) ELSE [proc[p] EXCEPT !.hand = 0]

WritePipe(p) ==
  /\ proc[p].hand = 1 /\ ToPipe(p) /\ IsOpen(ReadEnd(Stdout(p)[2]))
  /\ content[Stdout(p)[2]] < PipeSize
  /\ content' = [content EXCEPT ![Stdout(p)[2]] = @ + 1]
  /\ proc' = [proc EXCEPT ![p] = Wrote(p)]

WriteOut(p) ==
  /\ proc[p].hand = 1 /\ ~ ToPipe(p)
  /\ proc' = [proc EXCEPT ![p] = Wrote(p)]
  /\ UNCHANGED content

(* Nobody can read the pipe any more: the writer is killed.                *)
BrokenPipe(p) ==
  /\ proc[p].hand = 1 /\ ToPipe(p) /\ ~ IsOpen(ReadEnd(Stdout(p)[2]))
  /\ Exit(p)

run(p) == \/ ReadPipe(p) \/ ReadInput(p) \/ EndOfFile(p)
          \/ WritePipe(p) \/ WriteOut(p) \/ BrokenPipe(p)

(* A program may end before its input does.                                *)
Quit(p) == At(p, "program") /\ Exit(p)

-----------------------------------------------------------------------------
Process(p) == (do_pipe(p) \/ execute(p) \/ run(p)) /\ UNCHANGED <<shell, job>>

Crashed == shell = "crashed" /\ UNCHANGED vars

Next == \/ main
        \/ \E p \in Pids : Process(p) \/ (Quit(p) /\ UNCHANGED <<shell, job>>)
        \/ Crashed

Spec == Init /\ [][Next]_vars

(* The shell and every process are scheduled; lines, if only empty ones,   *)
(* go on being read: at the end of its input readline returns at once.     *)
FairSpec == Spec /\ WF_vars(main) /\ \A p \in Pids : WF_vars(Process(p))

-----------------------------------------------------------------------------
Ends == {Terminal, AFile, Closed} \cup {ReadEnd(q) : q \in Pipes}
                                  \cup {WriteEnd(q) : q \in Pipes}

TypeOK ==
  /\ shell \in {"poll", "prompt", "fork", "wait", "crashed"}
  /\ job \in Seq(Lines) /\ Len(job) <= MaxJobs
  /\ proc \in [Pids -> [status : {"none", "running", "zombie", "reaped"},
                        at : {"none", "pipe", "child", "parent", "execute",
                              "program", "builtin"},
                        stage : 0 .. MaxStages, fd : [Fds -> Ends],
                        input : 0 .. Input, hand : {0, 1}]]
  /\ content \in [Pipes -> 0 .. PipeSize]

(* A command that runs reads from the stage before it and writes to the    *)
(* one after it, unless redirected, and an end of a pipe is open nowhere   *)
(* but in the stage it belongs to and, for a moment, in the process that   *)
(* makes the pipe and hands it on (do_pipe): nobody inherits a descriptor  *)
(* that would keep a reader from its end of file or a writer from SIGPIPE. *)
RunsAt(p, k) == proc[p].at \in {"program", "builtin"} /\ proc[p].stage = k
Making(p, k) == proc[p].at \in {"parent", "child"} /\ proc[p].stage = k

Wired ==
  \A p \in Pids : \A k \in 1 .. MaxStages :
    /\ RunsAt(p, k) =>
         /\ Stdin(p) = IF "in" \in Command(p).redirected THEN AFile
                       ELSE IF k = 1 THEN Terminal
                       ELSE ReadEnd(<<p[1], k - 1>>)
         /\ Stdout(p) = IF "out" \in Command(p).redirected THEN AFile
                        ELSE IF k = Last(p[1]) THEN Terminal
                        ELSE WriteEnd(<<p[1], k>>)
    /\ \A f \in Fds : \A j \in Jobs :
         /\ proc[p].fd[f] = WriteEnd(<<j, k>>) =>
              j = p[1] /\ (Making(p, k) \/ p[2] = k)
         /\ proc[p].fd[f] = ReadEnd(<<j, k>>) =>
              j = p[1] /\ (Making(p, k) \/ proc[p].stage = k + 1)

(* For every line it runs in the foreground main waits for a child to end, *)
(* if not always for the right one: at the prompt there are never more     *)
(* children left than lines were put into the background, and wait() is    *)
(* never called without a child to come back for.                          *)
Unreaped == {j \in Jobs : proc[Leader(j)].status \in {"running", "zombie"}}
PromptWaits ==
  /\ Cardinality(Unreaped) <=
       Cardinality({j \in 1 .. Len(job) : job[j].background})
         + (IF shell = "wait" THEN 1 ELSE 0)
  /\ shell = "wait" => Unreaped # {}

(* Every stage of every pipeline ends, whatever stages are missing, fail   *)
(* or end early: a reader sees the end of its input, a writer that nobody  *)
(* reads is stopped.                                                       *)
Running(j) == \E p \in Pids : p[1] = j /\ proc[p].status = "running"
PipelinesEnd == \A j \in Jobs : Running(j) ~> ~ Running(j)

(* No child stays a zombie, though main reaps one a line: the foreground's *)
(* wait and the check before the prompt make up for each other.            *)
ZombiesReaped ==
  \A j \in Jobs : Leader(j) \in Zombies
                    ~> (Leader(j) \notin Zombies \/ shell = "crashed")
=============================================================================
