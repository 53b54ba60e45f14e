------------------------------- MODULE Shell --------------------------------
(***************************************************************************)
(* init (user/init.c) and the shell (user/sh.c): the processes that one    *)
(* command line after another starts, their descriptors and who waits for  *)
(* whom.  Process 1 is init.  sh[p] of a process that is not UNUSED:       *)
(*   pc      where it is          parent  the process that waits for it    *)
(*   cmd     the command that runcmd() is running                          *)
(*   path    the line's number, then left (0) or right (1) at each node of *)
(*           the line's command passed so far                              *)
(*   fd      its open files       p       the two ends that pipe() returned*)
(*   cwd     its directory                                                 *)
(* The kernel is external: fork() fails when no slot is free, a reader of  *)
(* a pipe sees the end of the file when no process holds the write end.    *)
(* A pipe is named by the place in the line of the command that made it.   *)
(***************************************************************************)
EXTENDS Commands

CONSTANTS NPROC,        \* slots of the process table
          NOFILE,       \* open files of a process
          Lines,        \* the lines that are typed
          MaxLines,     \* bound: lines typed in a behaviour
          Missing       \* words that name no program and no file

VARIABLES sh,           \* the processes
          typed,        \* the lines read so far
          forkFailed    \* a fork() has failed

shVars == <<sh, typed, forkFailed>>

Pid == 1 .. NPROC
Fd == 0 .. NOFILE - 1
Closed == <<"closed">>
Console == <<"console">>
Opened(r) == <<"file", r.file, r.mode>>
ReadEnd(path) == <<"read", path>>
WriteEnd(path) == <<"write", path>>
Root == "/"
EofLine == <<>>

UNUSED == [pc |-> "unused", parent |-> 0, cmd |-> NoCommand, path |-> <<>>,
           fd |-> [f \in Fd |-> Closed], p |-> <<0, 0>>, cwd |-> Root]

Stdio == [f \in Fd |-> IF f <= 2 THEN Console ELSE Closed]

(* init has opened the console as 0, 1 and 2 before it starts a shell. *)
ShInit ==
    /\ sh = [p \in Pid |-> IF p = 1 THEN [UNUSED EXCEPT !.pc = "init", !.fd = Stdio]
                           ELSE UNUSED]
    /\ typed = <<>>
    /\ forkFailed = FALSE

-----------------------------------------------------------------------------
(* The kernel's part *)

Free == {p \in Pid : sh[p].pc = "unused"}
Live == {p \in Pid : sh[p].pc \notin {"unused", "zombie"}}
Children(p) == {c \in Pid : sh[c].pc # "unused" /\ sh[c].parent = p}
Zombies(p) == {c \in Children(p) : sh[c].pc = "zombie"}

(* exit(): the files are closed and init becomes the children's parent. *)
Exited(p, procs) ==
    [q \in Pid |->
        CASE q = p -> [UNUSED EXCEPT !.pc = "zombie", !.parent = procs[q].parent,
                                     !.path = procs[q].path]
          [] q # p /\ procs[q].pc # "unused" /\ procs[q].parent = p
               -> [procs[q] EXCEPT !.parent = 1]
          [] OTHER -> procs[q]]

Exit(p) == sh' = Exited(p, sh)

(* fork1(): the child starts at childpc with cmd, the parent goes on at pc;*)
(* a failed fork is a panic.                                               *)
Fork1(p, pc, childpc, cmd, path) ==
    IF Free = {} THEN Exit(p) /\ forkFailed' = TRUE
    ELSE /\ sh' = [sh EXCEPT ![p].pc = pc,
                             ![Min(Free)] = [sh[p] EXCEPT !.pc = childpc,
                                 !.parent = p, !.cmd = cmd, !.path = path]]
         /\ UNCHANGED forkFailed

(* wait(0) reaps one child that has exited, or returns at once when the    *)
(* process has no child; the caller goes on at pc.                         *)
Wait(p, pc) ==
    \/ /\ Children(p) = {}
       /\ sh' = [sh EXCEPT ![p].pc = pc]
    \/ \E c \in Zombies(p) : sh' = [sh EXCEPT ![p].pc = pc, ![c] = UNUSED]

(* Descriptors: the lowest that are free are used first. *)
FreeFds(fd) == SetToSortSeq({f \in Fd : fd[f] = Closed}, <)
Dup(fd, from, to) == [fd EXCEPT ![to] = fd[from]]
Close(fd, fs) == [f \in Fd |-> IF f \in fs THEN Closed ELSE fd[f]]

-----------------------------------------------------------------------------
(* init *)

(* A failed fork makes init exit, which is a kernel panic. *)
InitFork ==
    /\ sh[1].pc = "init"
    /\ Fork1(1, "initwait", "start", NoCommand, <<>>)
    /\ UNCHANGED typed

(* A child that is not the shell was a parentless process. *)
InitWait ==
    /\ sh[1].pc = "initwait"
    /\ \E c \in Zombies(1) :
          sh' = [sh EXCEPT ![1].pc = IF sh[c].path = <<>> THEN "init" ELSE "initwait",
                           ![c] = UNUSED]
    /\ UNCHANGED <<typed, forkFailed>>

-----------------------------------------------------------------------------
(* main() of the shell *)

(* The console is opened until descriptors 0, 1 and 2 are in use. *)
ShellStart(p) ==
    /\ sh[p].pc = "start"
    /\ sh' = [sh EXCEPT ![p].pc = "prompt",
                        ![p].fd = [f \in Fd |-> IF f <= 2 /\ @[f] = Closed
                                                THEN Console ELSE @[f]]]
    /\ UNCHANGED <<typed, forkFailed>>

(* A line that begins with "cd " is run by the shell itself. *)
IsCd(line) == Len(line) = 2 /\ line[1] = "cd"

ShellCd(p, line) ==
    /\ sh[p].pc = "prompt" /\ Len(typed) < MaxLines
    /\ IsCd(line) /\ line[2] \notin Missing
    /\ typed' = Append(typed, line)
    /\ sh' = [sh EXCEPT ![p].cwd = line[2]]
    /\ UNCHANGED forkFailed

(* getcmd() reads another line; the child parses it and runs it. *)
ShellLine(p, line) ==
    /\ sh[p].pc = "prompt" /\ Len(typed) < MaxLines
    /\ ~IsCd(line)
    /\ typed' = Append(typed, line)
    /\ Fork1(p, "shellwait", "parse", NoCommand, <<Len(typed) + 1>>)

(* The end of the input: the shell exits, and init starts another. *)
ShellEof(p) ==
    /\ sh[p].pc = "prompt" /\ Len(typed) < MaxLines
    /\ typed' = Append(typed, EofLine)
    /\ Exit(p)
    /\ UNCHANGED forkFailed

ShellWait(p) ==
    /\ sh[p].pc = "shellwait"
    /\ Wait(p, "prompt")
    /\ UNCHANGED <<typed, forkFailed>>

-----------------------------------------------------------------------------
(* runcmd() *)

Parses == [line \in Lines |-> Parsecmd(line)]

Parse(p) ==
    /\ sh[p].pc = "parse"
    /\ LET r == Parses[typed[sh[p].path[1]]]
       IN  IF r.ok THEN sh' = [sh EXCEPT ![p].pc = "run", ![p].cmd = r.cmd] ELSE Exit(p)
    /\ UNCHANGED <<typed, forkFailed>>

Running(p, type) == sh[p].pc = "run" /\ sh[p].cmd.type = type

(* exec() of an empty command or of a program that is missing: exit. *)
RunExec(p) ==
    /\ Running(p, "EXEC")
    /\ IF sh[p].cmd.argv = <<>> \/ sh[p].cmd.argv[1] \in Missing THEN Exit(p)
       ELSE sh' = [sh EXCEPT ![p].pc = "prog"]
    /\ UNCHANGED <<typed, forkFailed>>

(* open() takes the lowest free descriptor, which is the one just closed. *)
RunRedir(p) ==
    /\ Running(p, "REDIR")
    /\ LET c == sh[p].cmd
           fd == Close(sh[p].fd, {c.fd})
       IN  IF c.mode = "rdonly" /\ c.file \in Missing THEN Exit(p)
           ELSE sh' = [sh EXCEPT ![p].cmd = c.cmd,
                                 ![p].fd = [fd EXCEPT ![FreeFds(fd)[1]] = Opened(c)]]
    /\ UNCHANGED <<typed, forkFailed>>

RunList(p) ==
    /\ Running(p, "LIST")
    /\ Fork1(p, "listwait", "run", sh[p].cmd.left, Append(sh[p].path, 0))
    /\ UNCHANGED typed

ListWait(p) ==
    /\ sh[p].pc = "listwait"
    /\ Wait(p, "listnext")
    /\ UNCHANGED <<typed, forkFailed>>

ListNext(p) ==
    /\ sh[p].pc = "listnext"
    /\ sh' = [sh EXCEPT ![p].pc = "run", ![p].cmd = @.right, ![p].path = Append(@, 1)]
    /\ UNCHANGED <<typed, forkFailed>>

RunPipe(p) ==
    /\ Running(p, "PIPE")
    /\ LET free == FreeFds(sh[p].fd)
       IN  IF Len(free) < 2 THEN Exit(p)
           ELSE sh' = [sh EXCEPT ![p].pc = "pipeleft", ![p].p = <<free[1], free[2]>>,
                   ![p].fd = [@ EXCEPT ![free[1]] = ReadEnd(sh[p].path),
                                       ![free[2]] = WriteEnd(sh[p].path)]]
    /\ UNCHANGED <<typed, forkFailed>>

PipeLeft(p) ==
    /\ sh[p].pc = "pipeleft"
    /\ Fork1(p, "piperight", "left", sh[p].cmd.left, Append(sh[p].path, 0))
    /\ UNCHANGED typed

PipeRight(p) ==
    /\ sh[p].pc = "piperight"
    /\ Fork1(p, "pipeclose", "right", sh[p].cmd.right, Append(sh[p].path, 1))
    /\ UNCHANGED typed

(* The children: close(1); dup(p[1]), or close(0); dup(p[0]), and then the *)
(* two descriptors of the pipe are closed.  dup() takes the lowest free    *)
(* descriptor: the one just closed, since the shell keeps 0 to 2 open.     *)
SetupLeft(p) ==
    /\ sh[p].pc = "left"
    /\ sh' = [sh EXCEPT ![p].pc = "run",
                        ![p].fd = Close(Dup(@, sh[p].p[2], 1), Range(sh[p].p))]
    /\ UNCHANGED <<typed, forkFailed>>

SetupRight_KeepsPipe(p) ==
    /\ sh[p].pc = "right"
    /\ sh' = [sh EXCEPT ![p].pc = "run", ![p].fd = Dup(@, sh[p].p[1], 0)]
    /\ UNCHANGED <<typed, forkFailed>>

SetupRight(p) ==
    /\ sh[p].pc = "right"
    /\ sh' = [sh EXCEPT ![p].pc = "run",
                        ![p].fd = Close(Dup(@, sh[p].p[1], 0), Range(sh[p].p))]
    /\ UNCHANGED <<typed, forkFailed>>

PipeClose_ReadEnd(p) ==
    /\ sh[p].pc = "pipeclose"
    /\ sh' = [sh EXCEPT ![p].pc = "pipewait", ![p].fd = Close(@, {sh[p].p[1]})]
    /\ UNCHANGED <<typed, forkFailed>>

PipeClose(p) ==
    /\ sh[p].pc = "pipeclose"
    /\ sh' = [sh EXCEPT ![p].pc = "pipewait", ![p].fd = Close(@, Range(sh[p].p))]
    /\ UNCHANGED <<typed, forkFailed>>

PipeWait_Once(p) ==
    /\ sh[p].pc = "pipewait"
    /\ Wait(p, "exit")
    /\ UNCHANGED <<typed, forkFailed>>

PipeWait(p) ==
    /\ sh[p].pc \in {"pipewait", "pipelast"}
    /\ Wait(p, IF sh[p].pc = "pipewait" THEN "pipelast" ELSE "exit")
    /\ UNCHANGED <<typed, forkFailed>>

RunBack(p) ==
    /\ Running(p, "BACK")
    /\ Fork1(p, "exit", "run", sh[p].cmd.cmd, Append(sh[p].path, 0))
    /\ UNCHANGED typed

RunExit(p) ==
    /\ sh[p].pc = "exit"
    /\ Exit(p)
    /\ UNCHANGED <<typed, forkFailed>>

(* A program reads its input to the end and exits; it sees the end of a    *)
(* pipe when no process has the other end open.                            *)
AtEof(p) ==
    LET in == sh[p].fd[0]
    IN  in[1] = "read" => \A q \in Live, f \in Fd : sh[q].fd[f] # WriteEnd(in[2])

ProgramExit(p) ==
    /\ sh[p].pc = "prog" /\ AtEof(p)
    /\ Exit(p)
    /\ UNCHANGED <<typed, forkFailed>>

-----------------------------------------------------------------------------
Step(p) ==
    \/ ShellStart(p) \/ ShellWait(p) \/ Parse(p)
    \/ RunExec(p) \/ RunRedir(p) \/ RunList(p) \/ ListWait(p) \/ ListNext(p)
    \/ RunPipe(p) \/ PipeLeft(p) \/ PipeRight(p) \/ SetupLeft(p) \/ SetupRight(p)
    \/ PipeClose(p) \/ PipeWait(p) \/ RunBack(p) \/ RunExit(p) \/ ProgramExit(p)

ShellNext ==
    \/ InitFork \/ InitWait
    \/ \E p \in Pid : ShellEof(p) \/ Step(p)
    \/ \E p \in Pid, line \in Lines : ShellCd(p, line) \/ ShellLine(p, line)

(* The scheduler runs a process while one can run; nobody has to type. *)
ShellFairness == WF_shVars(InitFork \/ InitWait \/ \E p \in Pid : Step(p))

-----------------------------------------------------------------------------
(* What a command line means *)

(* The nodes of command c passed on the way path, and the input and output *)
(* that they leave to the command there; at is the place of c in its line. *)
RECURSIVE Walk(_, _, _)

Walk(c, path, w) ==
    CASE c.type = "REDIR" -> Walk(c.cmd, path, [w EXCEPT !.fd[c.fd] = Opened(c)])
      [] c.type # "REDIR" /\ path = <<>> -> w
      [] c.type = "BACK" /\ path # <<>> ->
            Walk(c.cmd, Tail(path), [w EXCEPT !.nodes = Append(@, "BACK"),
                                              !.at = Append(@, 0)])
      [] c.type \in {"LIST", "PIPE"} /\ path # <<>> ->
            Walk(IF path[1] = 0 THEN c.left ELSE c.right, Tail(path),
                 [w EXCEPT !.nodes = Append(@, c.type),
                           !.at = Append(@, path[1]),
                           !.fd = CASE c.type = "LIST" -> @
                                    [] c.type = "PIPE" /\ path[1] = 0
                                         -> [@ EXCEPT ![1] = WriteEnd(w.at)]
                                    [] OTHER -> [@ EXCEPT ![0] = ReadEnd(w.at)]])

Meanings == [line \in Lines |-> Grammar(line)]

InLine(path) == Walk(Meanings[typed[path[1]]], Tail(path),
                     [nodes |-> <<>>, fd |-> Stdio, at |-> <<path[1]>>])

(* The directory that the lines before line n leave the shell in. *)
CwdOfLine(n) ==
    LET moves == {k \in 1 .. n - 1 : typed[k] = EofLine \/ IsCd(typed[k])}
        last == typed[Max(moves)]
    IN  IF moves = {} \/ last = EofLine THEN Root ELSE last[2]

(* A program starts in the directory that the last cd left, with its input *)
(* and output connected as the operators of its command line say, and with *)
(* no other descriptor open: an extra write end would keep the reader of a *)
(* pipe from seeing its end (runcmd(), sh.c:58).                           *)
ProgramsConnected ==
    \A p \in Pid : sh[p].pc = "prog" =>
        /\ sh[p].fd = InLine(sh[p].path).fd
        /\ forkFailed \/ sh[p].cwd = CwdOfLine(sh[p].path[1])

Jobs == {p \in Live : sh[p].path # <<>>}
Diverge(a, b, k) == /\ k \in DOMAIN a \cap DOMAIN b
                    /\ a[k] < b[k] /\ \A j \in 1 .. k - 1 : a[j] = b[j]

(* In "a ; b", and from one line to the next, b starts when a has          *)
(* finished: no process of the left command that is not under "&" runs     *)
(* beside one of the right command, so that each wait(0) reaps the child   *)
(* it is meant for.  (A fork() that fails makes the parent exit and leaves *)
(* the commands it has started behind.)                                    *)
ListsInOrder ==
    ~forkFailed =>
    \A p, q \in Jobs : \A k \in DOMAIN sh[p].path :
        LET nodes == InLine(sh[p].path).nodes
        IN  /\ Diverge(sh[p].path, sh[q].path, k)
            /\ k = 1 \/ nodes[k - 1] = "LIST"
            => \E i \in k .. Len(nodes) : nodes[i] = "BACK"

(* Every line finishes: the shell that waits for it reads the next line,   *)
(* or exits and is replaced, unless init itself has had to exit.           *)
Waiting == \E p \in Pid : sh[p].pc = "shellwait"
LinesFinish == Waiting ~> (~Waiting \/ sh[1].pc = "zombie")
=============================================================================
