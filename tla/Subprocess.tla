----------------------------- MODULE Subprocess -----------------------------
(***************************************************************************)
(* core/subprocess.c: running commands in child processes.  The program    *)
(* (the parent, one thread) starts jobs, polls them and asks for their     *)
(* results; the children it forked run on their own; the kernel keeps the  *)
(* descriptor tables, the process table and what wait has not yet          *)
(* collected, and may give a collected child's pid to a later one.         *)
(***************************************************************************)
EXTENDS Integers, FiniteSets

CONSTANTS
  Jobs,       \* the commands the program runs, each once
  Pids,       \* the process identifiers the kernel hands out
  Codes,      \* the exit codes a command may end with
  MaxFd,      \* the largest descriptor of a process
  InArgs, OutArgs, ErrArgs   \* descriptors passed to subprocess_run_async_x

ASSUME ConstantsAssumption ==
  /\ Pids \subseteq Nat \ {0}
  /\ {0, 1} \subseteq Codes /\ Codes \subseteq 0..255
  /\ MaxFd \in Nat /\ MaxFd >= 3
  /\ InArgs \cup OutArgs \cup ErrArgs \subseteq -1..MaxFd

VARIABLES
  careful,    \* whether the program keeps to the protocol below
  fdt,        \* the parent's descriptors: the open file each stands for
  children,   \* the process table: what runs under each pid
  promise,    \* promise[j] is the ProcessPromise of job j, once it is started
  result,     \* result[j] is the FinishedProcess it was first found to be
  pc, job, capture, template, args,   \* the call the parent is in
  reported,   \* the jobs process_finished has said are finished
  freed,      \* the jobs whose promise was freed
  ended       \* history: how each job's command really ended

call == <<pc, job, capture, template, args>>
vars == <<careful, fdt, children, promise, result, call, reported, freed, ended>>

Fds == 0..MaxFd
Closed == <<"none", "none">>
Stdin == <<"std", "in">>
Stdout == <<"std", "out">>
Stderr == <<"std", "err">>
UserFile == <<"user", "in">>
Killed == -1       \* ended by a signal
NotEnded == -2
Statuses == Codes \cup {Killed}
TempFiles == Jobs \X {"in", "out", "err"}
Files == {Stdin, Stdout, Stderr, UserFile} \cup TempFiles

NoFds == [in |-> -1, out |-> -1, err |-> -1]
FdTriples == [in : -1..MaxFd, out : -1..MaxFd, err : -1..MaxFd]

\* The zeroed promise of a job that could not be started: its descriptors are 0.
Failed == [pid |-> 0, fds |-> [in |-> 0, out |-> 0, err |-> 0]]
NotStarted == [pid |-> -1, fds |-> NoFds]

AnyJob == CHOOSE j \in Jobs : TRUE

NoChild == [at |-> "none", job |-> AnyJob, fds |-> NoFds,
            fdt |-> [f \in Fds |-> Closed], asked |-> <<Closed, Closed, Closed>>,
            status |-> 0]

Pending == [code |-> -2, out |-> -1, err |-> -1]
NoResult == [code |-> -1, out |-> 0, err |-> 0]

Init ==
  /\ careful \in BOOLEAN
  /\ fdt = [f \in Fds |-> IF f \in 0..3 THEN <<Stdin, Stdout, Stderr, UserFile>>[f + 1]
                         ELSE Closed]
  /\ children = [p \in Pids |-> NoChild]
  /\ promise = [j \in Jobs |-> NotStarted]
  /\ result = [j \in Jobs |-> Pending]
  /\ pc = "idle" /\ job = AnyJob /\ capture = FALSE /\ template = "fresh"
  /\ args = NoFds
  /\ reported = {} /\ freed = {}
  /\ ended = [j \in Jobs |-> NotEnded]

FreeFds == {f \in Fds : fdt[f] = Closed}
LowestFd == CHOOSE f \in FreeFds : \A g \in FreeFds : f <= g
Close(tbl, f) == IF f \in Fds THEN [tbl EXCEPT ![f] = Closed] ELSE tbl

Return == pc' = "idle" /\ job' = AnyJob /\ capture' = FALSE /\ template' = "fresh" /\ args' = NoFds

Idle(j) == pc = "idle" /\ promise[j] = NotStarted
Started(j) == pc = "idle" /\ promise[j] # NotStarted

\* The promise is still good: nothing said that its process is over.
Fresh(j) == result[j] = Pending /\ j \notin reported /\ j \notin freed

-----------------------------------------------------------------------------
(* Starting a job.                                                         *)

\* subprocess_run_async, with or without input and capture.
RunAsync(j, input, cap) ==
  /\ Idle(j)
  /\ job' = j /\ capture' = cap
  /\ pc' = IF input THEN "in" ELSE IF cap THEN "out" ELSE "fork"
  /\ template' = "fresh" /\ args' = NoFds
  /\ UNCHANGED <<careful, fdt, children, promise, result, reported, freed, ended>>

\* mkstemp opens a new file under the lowest descriptor and writes its name
\* over the XXXXXX of the template; a template with no XXXXXX left is refused.
Mkstemp(role) ==
  /\ template = "fresh" /\ FreeFds # {}
  /\ fdt' = [fdt EXCEPT ![LowestFd] = <<job, role>>]
  /\ args' = [args EXCEPT ![role] = LowestFd]
  /\ template' = "used"

MkstempFails ==
  /\ pc \in {"in", "out", "err"}
  /\ template = "used" \/ FreeFds = {}
  /\ promise' = [promise EXCEPT ![job] = Failed]
  /\ Return
  /\ UNCHANGED <<careful, fdt, children, result, reported, freed, ended>>

MakeIn ==
  /\ pc = "in" /\ Mkstemp("in")
  /\ pc' = IF capture THEN "out" ELSE "fork"
  /\ UNCHANGED <<careful, children, promise, result, job, capture, reported, freed, ended>>

MakeOut ==
  /\ pc = "out" /\ Mkstemp("out")
  /\ pc' = "err"
  /\ UNCHANGED <<careful, children, promise, result, job, capture, reported, freed, ended>>

\* subprocess_run_async_x, called by the program with descriptors of its own.
\* A careful program passes its own open files, none of them to two jobs, and none of
\* its streams as input.
Used(fds) == {fds.in, fds.out, fds.err} \ -1..2

RunX(j, in, out, err) ==
  LET fds == [in |-> in, out |-> out, err |-> err] IN
  /\ Idle(j)
  /\ careful => /\ in \notin 0..2
                /\ \A f \in Used(fds) : fdt[f] = UserFile
                /\ \A o \in Jobs : Used(fds) \cap Used(promise[o].fds) = {}
  /\ job' = j /\ pc' = "fork"
  /\ args' = fds
  /\ UNCHANGED <<careful, fdt, children, promise, result, capture, template, reported, freed, ended>>

\* The file a stream of the child should be: the one passed, or the parent's own.
Asked(f, own) == IF f \in Fds THEN fdt[f] ELSE fdt[own]

\* Mutant: the parent closes its copy of the child's input after the fork.
ForkClosesIn(p) ==
  /\ pc = "fork" /\ children[p].at = "none"
  /\ children' = [children EXCEPT ![p] =
       [at |-> "in", job |-> job, fds |-> args, fdt |-> fdt,
        asked |-> <<Asked(args.in, 0), Asked(args.out, 1), Asked(args.err, 2)>>,
        status |-> 0]]
  /\ promise' = [promise EXCEPT ![job] = [pid |-> p, fds |-> args]]
  /\ fdt' = Close(fdt, args.in)
  /\ Return
  /\ UNCHANGED <<careful, result, reported, freed, ended>>

\* fork under a pid no process has, and the promise the parent returns.
Fork(p) ==
  /\ pc = "fork" /\ children[p].at = "none"
  /\ children' = [children EXCEPT ![p] =
       [at |-> "in", job |-> job, fds |-> args, fdt |-> fdt,
        asked |-> <<Asked(args.in, 0), Asked(args.out, 1), Asked(args.err, 2)>>,
        status |-> 0]]
  /\ promise' = [promise EXCEPT ![job] = [pid |-> p, fds |-> args]]
  /\ Return
  /\ UNCHANGED <<careful, fdt, result, reported, freed, ended>>

\* fork fails, or the command has no word to run.
ForkFails ==
  /\ pc = "fork"
  /\ promise' = [promise EXCEPT ![job] = Failed]
  /\ Return
  /\ UNCHANGED <<careful, fdt, children, result, reported, freed, ended>>

-----------------------------------------------------------------------------
(* The child, before and after exec.                                       *)

\* What is left of a process that is over: its status, for its parent to collect.
Exit(p, status) ==
  /\ children' = [children EXCEPT ![p] =
       [NoChild EXCEPT !.at = "zombie", !.job = children[p].job, !.status = status]]
  /\ ended' = [ended EXCEPT ![children[p].job] = status]

\* dup2(from, to) if from is above the stream's own number; 1 is its exit code
\* when from is not open.
Dup(p, at, from, to, next) ==
  /\ children[p].at = at
  /\ \/ /\ from <= to
        /\ children' = [children EXCEPT ![p].at = next]
        /\ UNCHANGED ended
     \/ /\ from > to /\ children[p].fdt[from] # Closed
        /\ children' = [children EXCEPT ![p].at = next,
                                        ![p].fdt[to] = children[p].fdt[from]]
        /\ UNCHANGED ended
     \/ /\ from > to /\ children[p].fdt[from] = Closed
        /\ Exit(p, 1)
  /\ UNCHANGED <<careful, fdt, promise, result, call, reported, freed>>

\* Mutant: the error output's bound used for the output.
DupOutAbove2(p) ==
  Dup(p, "out", IF children[p].fds.out > 2 THEN children[p].fds.out ELSE -1, 1, "err")

DupIn(p) == Dup(p, "in", children[p].fds.in, 0, "out")
DupOut(p) == Dup(p, "out", children[p].fds.out, 1, "err")
DupErr(p) == Dup(p, "err", children[p].fds.err, 2, "exec")

Exec(p) ==
  /\ children[p].at = "exec"
  /\ \/ children' = [children EXCEPT ![p].at = "run"] /\ UNCHANGED ended
     \/ Exit(p, 1)
  /\ UNCHANGED <<careful, fdt, promise, result, call, reported, freed>>

\* The command exits with some code, or a signal kills it.
End(p) ==
  /\ children[p].at = "run"
  /\ \E status \in Statuses : Exit(p, status)
  /\ UNCHANGED <<careful, fdt, promise, result, call, reported, freed>>

-----------------------------------------------------------------------------
(* Asking after a job.                                                     *)

Reap(p) == children' = [children EXCEPT ![p] = NoChild]

\* process_finished answers TRUE, and has then collected the child.  (A FALSE
\* changes nothing: the child runs, is not ours any more, or never started.)
Finished(j) ==
  /\ Started(j) /\ (careful => Fresh(j))
  /\ promise[j].pid > 0 /\ children[promise[j].pid].at = "zombie"
  /\ Reap(promise[j].pid)
  /\ reported' = reported \cup {j}
  /\ UNCHANGED <<careful, fdt, promise, result, call, freed, ended>>

Record(j, r) == result' = IF result[j] = Pending THEN [result EXCEPT ![j] = r] ELSE result

\* process_getresult on the promise of a job that could not be started.
NeverRan(j) ==
  /\ Started(j) /\ (careful => Fresh(j))
  /\ promise[j].pid <= 0
  /\ Record(j, NoResult)
  /\ UNCHANGED <<careful, fdt, children, promise, call, reported, freed, ended>>

GetResult(j) ==
  /\ Started(j) /\ (careful => Fresh(j))
  /\ promise[j].pid > 0
  /\ pc' = "wait" /\ job' = j
  /\ UNCHANGED <<careful, fdt, children, promise, result, capture, template, args, reported, freed, ended>>

\* Mutant: the status is not decoded.
AnswerRawStatus(status) ==
  IF status = Killed
  THEN Record(job, NoResult) /\ UNCHANGED fdt
  ELSE /\ Record(job, [code |-> status * 256, out |-> promise[job].fds.out,
                       err |-> promise[job].fds.err])
       /\ fdt' = Close(fdt, promise[job].fds.in)

Answer(status) ==
  IF status = Killed
  THEN Record(job, NoResult) /\ UNCHANGED fdt
  ELSE /\ Record(job, [code |-> status, out |-> promise[job].fds.out,
                       err |-> promise[job].fds.err])
       /\ fdt' = Close(fdt, promise[job].fds.in)

\* Mutants: waiting for any child; waiting on until the child has exited.
WaitedAny ==
  /\ pc = "wait"
  /\ \E p \in Pids : /\ children[p].at = "zombie"
                     /\ Answer(children[p].status)
                     /\ Reap(p)
  /\ Return
  /\ UNCHANGED <<careful, promise, reported, freed, ended>>

WaitedExited ==
  /\ pc = "wait" /\ children[promise[job].pid].at = "zombie"
  /\ children[promise[job].pid].status # Killed
  /\ Answer(children[promise[job].pid].status)
  /\ Reap(promise[job].pid)
  /\ Return
  /\ UNCHANGED <<careful, promise, reported, freed, ended>>

\* waitpid returns when the child with the promise's pid is over ...
Waited ==
  /\ pc = "wait" /\ children[promise[job].pid].at = "zombie"
  /\ Answer(children[promise[job].pid].status)
  /\ Reap(promise[job].pid)
  /\ Return
  /\ UNCHANGED <<careful, promise, reported, freed, ended>>

\* ... or at once if there is none, leaving status as it is: uninitialized.
WaitFails ==
  /\ pc = "wait" /\ children[promise[job].pid].at = "none"
  /\ \E status \in Statuses : Answer(status)
  /\ Return
  /\ UNCHANGED <<careful, children, promise, reported, freed, ended>>

\* free_process_promise closes the three descriptors.  A careful program only
\* calls it for a job process_finished has reported, not to lose its own streams.
Free(j) ==
  /\ Started(j) /\ j \notin freed
  /\ careful => /\ j \in reported /\ result[j] = Pending
                /\ \A r \in {"in", "out", "err"} : promise[j].fds[r] \notin 0..2
  /\ fdt' = Close(Close(Close(fdt, promise[j].fds.in), promise[j].fds.out),
                  promise[j].fds.err)
  /\ freed' = freed \cup {j}
  /\ UNCHANGED <<careful, children, promise, result, call, reported, ended>>

Child(p) == DupIn(p) \/ DupOut(p) \/ DupErr(p) \/ Exec(p) \/ End(p)
Proceed == MakeIn \/ MakeOut \/ MkstempFails \/ ForkFails \/ Waited \/ WaitFails
           \/ \E p \in Pids : Fork(p)
Ask(j) == Finished(j) \/ NeverRan(j) \/ GetResult(j) \/ Free(j)
Start(j) ==
  \/ \E input, cap \in BOOLEAN : RunAsync(j, input, cap)
  \/ \E in \in InArgs, out \in OutArgs, err \in ErrArgs : RunX(j, in, out, err)

Next ==
  \/ \E p \in Pids : Child(p)
  \/ Proceed
  \/ \E j \in Jobs : Start(j) \/ Ask(j)

Spec == Init /\ [][Next]_vars

\* The children get to run and their commands end, and a call of the parent goes
\* on as soon as it can.
FairSpec == Spec /\ WF_vars(Proceed) /\ \A p \in Pids : WF_vars(Child(p))

-----------------------------------------------------------------------------
\* A careful program's promise leads to the job's own child until that child is
\* collected, and every process in the table is some live promise's: the kernel
\* never gives its pid away, and no child is left uncollected for good.
PidsMatch ==
  careful =>
    /\ \A j \in Jobs : promise[j].pid > 0 /\ Fresh(j) =>
         children[promise[j].pid].at # "none" /\ children[promise[j].pid].job = j
    /\ \A p \in Pids : children[p].at # "none" =>
         promise[children[p].job].pid = p /\ Fresh(children[p].job)

\* The result a careful program gets for a job is how its own command ended,
\* whatever else was started, polled or collected in the meantime.
OwnResult ==
  careful => \A j \in Jobs : promise[j].pid > 0 /\ result[j] # Pending =>
    result[j] = IF ended[j] = Killed THEN NoResult
                ELSE [code |-> ended[j], out |-> promise[j].fds.out, err |-> promise[j].fds.err]

\* The files any program hands a child end up at the child's streams: a dup2
\* never overwrites the source of a later one.  (Descriptor 0 as output and 0 or
\* 1 as error output are taken for "leave it alone".)
RedirectionsHold ==
  \A p \in Pids :
    LET c == children[p] IN
    c.at \in {"exec", "run"} =>
      /\ c.fdt[0] = c.asked[1]
      /\ c.fds.out # 0 => c.fdt[1] = c.asked[2]
      /\ c.fds.err \notin {0, 1} => c.fdt[2] = c.asked[3]

\* While a careful program's job lives, its input is not closed under it, nor its
\* descriptor used again; and the program keeps its own standard streams,
\* whatever becomes of its jobs.
FilesKept ==
  careful =>
    /\ \A j \in Jobs : promise[j].pid > 0 /\ Fresh(j) /\ promise[j].fds.in \in Fds =>
         fdt[promise[j].fds.in] \in {<<j, "in">>, UserFile}
    /\ fdt[0] = Stdin /\ fdt[1] = Stdout /\ fdt[2] = Stderr

\* process_getresult always returns: on its child's end, or for want of a child.
WaitReturns == pc = "wait" ~> pc = "idle"

=============================================================================
