-------------------------- MODULE SubprocessProofs --------------------------
(***************************************************************************)
(* What is proved of Subprocess for any jobs, pids, exit codes and         *)
(* descriptors: a careful program's promises lead to their own children,   *)
(* it gets the results of its own commands and keeps the files they read,  *)
(* and every command has the streams that were asked for it.               *)
(***************************************************************************)
EXTENDS Subprocess, TLAPS, WellFoundedInduction

Open == Files \cup {Closed}
Tables == [Fds -> Open]
Places == {"none", "in", "out", "err", "exec", "run", "zombie"}
Process ==
  [at : Places, job : Jobs \cup {AnyJob}, fds : FdTriples, fdt : Tables,
   asked : Open \X Open \X Open, status : Statuses]
Promises == [pid : Pids \cup {0, -1}, fds : FdTriples]
Results == [code : Int, out : Int, err : Int]

CallTyped ==
  /\ pc \in {"idle", "in", "out", "err", "fork", "wait"}
  /\ pc # "idle" => job \in Jobs
  /\ args \in FdTriples
  /\ pc = "wait" => promise[job].pid \in Pids

Typed ==
  /\ careful \in BOOLEAN
  /\ fdt \in Tables
  /\ children \in [Pids -> Process]
  /\ \A p \in Pids : children[p].at # "none" => children[p].job \in Jobs
  /\ promise \in [Jobs -> Promises]
  /\ result \in [Jobs -> Results]
  /\ CallTyped
  /\ reported \subseteq Jobs /\ freed \subseteq Jobs
  /\ ended \in [Jobs -> Statuses \cup {NotEnded}]

-----------------------------------------------------------------------------
(* The types.                                                              *)

LEMMA LowestIsFree == ASSUME FreeFds # {} PROVE LowestFd \in FreeFds
<1>1. FreeFds \subseteq Nat
  BY ConstantsAssumption DEF FreeFds, Fds
<1>2. PICK f \in FreeFds : \A g \in FreeFds : ~ (<<g, f>> \in OpToRel(<, Nat))
  BY <1>1, WFMin, NatLessThanWellFounded
<1>3. \A g \in FreeFds : ~ (g < f)
  BY <1>1, <1>2, Zenon DEF OpToRel
<1>4. \A g \in FreeFds : f <= g
  BY <1>1, <1>3
<1> QED
  BY <1>4 DEF LowestFd

LEMMA ConstantsTyped ==
  /\ NoFds \in FdTriples /\ NotStarted \in Promises /\ Failed \in Promises
  /\ Pending \in Results /\ NoResult \in Results
  /\ Pids \subseteq Nat \ {0} /\ Statuses \subseteq Int /\ {0, 1} \subseteq Statuses
  /\ Codes \subseteq Nat /\ Killed \notin Codes
  /\ Fds \subseteq Nat /\ {0, 1, 2, 3} \subseteq Fds
  /\ {Stdin, Stdout, Stderr, UserFile, Closed} \subseteq Open
<1>1. -1 \in -1..MaxFd /\ 0 \in -1..MaxFd
  BY ConstantsAssumption
<1>2. NoFds \in FdTriples /\ NotStarted \in Promises /\ Failed \in Promises
  BY <1>1 DEF NoFds, FdTriples, NotStarted, Failed, Promises
<1>3. Pending \in Results /\ NoResult \in Results
  BY DEF Pending, NoResult, Results
<1>4. /\ Pids \subseteq Nat \ {0} /\ Statuses \subseteq Int /\ {0, 1} \subseteq Statuses
      /\ Codes \subseteq Nat /\ Killed \notin Codes
      /\ Fds \subseteq Nat /\ {0, 1, 2, 3} \subseteq Fds
  BY ConstantsAssumption DEF Statuses, Killed, Fds
<1>5. {Stdin, Stdout, Stderr, UserFile, Closed} \subseteq Open
  BY DEF Open, Files
<1> QED
  BY <1>2, <1>3, <1>4, <1>5

LEMMA NoChildTyped == NoChild \in Process
<1>1. [f \in Fds |-> Closed] \in Tables /\ <<Closed, Closed, Closed>> \in Open \X Open \X Open
  BY ConstantsTyped DEF Tables
<1> QED
  BY <1>1, ConstantsTyped DEF NoChild, Process, Places

LEMMA CloseTyped == ASSUME NEW tbl \in Tables, NEW f PROVE Close(tbl, f) \in Tables
BY ConstantsTyped DEF Close, Tables

LEMMA InitTyped == Init => Typed
<1> SUFFICES ASSUME Init PROVE Typed
  OBVIOUS
<1>1. fdt \in Tables
  <2>1. \A n \in 0..3 : <<Stdin, Stdout, Stderr, UserFile>>[n + 1] \in Open
    <3>1. \A n \in 0..3 : n = 0 \/ n = 1 \/ n = 2 \/ n = 3
      OBVIOUS
    <3> QED
      BY <3>1, ConstantsTyped
  <2> QED
    BY <2>1, ConstantsTyped DEF Init, Tables
<1>2. CallTyped
  BY ConstantsTyped DEF Init, CallTyped
<1>3. /\ promise \in [Jobs -> Promises] /\ result \in [Jobs -> Results]
      /\ ended \in [Jobs -> Statuses \cup {NotEnded}]
  BY ConstantsTyped DEF Init
<1>4. children \in [Pids -> Process] /\ \A p \in Pids : children[p].at = "none"
  BY NoChildTyped DEF Init, NoChild
<1> QED
  BY <1>1, <1>2, <1>3, <1>4 DEF Init, Typed

LEMMA CallsTyped ==
  ASSUME Typed
  PROVE  /\ \A j \in Jobs : Start(j) => Typed'
         /\ MakeIn \/ MakeOut \/ MkstempFails \/ ForkFails => Typed'
<1>1. ASSUME NEW j \in Jobs, Start(j) PROVE Typed'
  <2>1. ASSUME NEW input \in BOOLEAN, NEW cap \in BOOLEAN, RunAsync(j, input, cap) PROVE Typed'
    BY <2>1, ConstantsTyped DEF Typed, CallTyped, RunAsync
  <2>2. ASSUME NEW in \in InArgs, NEW out \in OutArgs, NEW err \in ErrArgs, RunX(j, in, out, err)
        PROVE  Typed'
    <3>1. [in |-> in, out |-> out, err |-> err] \in FdTriples
      BY ConstantsAssumption DEF FdTriples
    <3> QED
      BY <2>2, <3>1 DEF Typed, CallTyped, RunX
  <2> QED
    BY <1>1, <2>1, <2>2 DEF Start
<1>2. ASSUME NEW role \in {"in", "out", "err"}, Mkstemp(role), job \in Jobs
      PROVE  fdt' \in Tables /\ args' \in FdTriples
  <2>1. LowestFd \in Fds /\ LowestFd \in -1..MaxFd
    BY <1>2, LowestIsFree DEF Mkstemp, FreeFds, Fds
  <2>2. <<job, role>> \in Open
    BY <1>2 DEF Open, Files, TempFiles
  <2>3. fdt' \in Tables
    BY <1>2, <2>1, <2>2 DEF Mkstemp, Typed, Tables
  <2>4. args' \in FdTriples
    BY <1>2, <2>1 DEF Mkstemp, Typed, CallTyped, FdTriples
  <2> QED
    BY <2>3, <2>4
<1>3. CASE MakeIn \/ MakeOut
  <2>1. pc # "wait" /\ job \in Jobs
    BY <1>3 DEF MakeIn, MakeOut, Typed, CallTyped
  <2> QED
    BY <1>2, <1>3, <2>1 DEF MakeIn, MakeOut, Typed, CallTyped
<1>4. CASE MkstempFails \/ ForkFails
  BY <1>4, ConstantsTyped DEF MkstempFails, ForkFails, Return, Typed, CallTyped
<1> QED
  BY <1>1, <1>3, <1>4

LEMMA AskedTyped ==
  ASSUME Typed, NEW f, NEW own \in {0, 1, 2} PROVE Asked(f, own) \in Open
BY ConstantsTyped DEF Asked, Typed, Tables

LEMMA ForkTyped == ASSUME Typed, NEW p \in Pids, Fork(p) PROVE Typed'
<1> DEFINE child == [at |-> "in", job |-> job, fds |-> args, fdt |-> fdt,
                     asked |-> <<Asked(args.in, 0), Asked(args.out, 1), Asked(args.err, 2)>>,
                     status |-> 0]
<1>1. child \in Process /\ child.job \in Jobs
  <2>1. <<Asked(args.in, 0), Asked(args.out, 1), Asked(args.err, 2)>> \in Open \X Open \X Open
    BY AskedTyped
  <2>2. pc = "fork" /\ job \in Jobs /\ args \in FdTriples /\ fdt \in Tables
    BY DEF Fork, Typed, CallTyped
  <2> QED
    BY <2>1, <2>2, ConstantsTyped DEF Process, Places
<1>2. [pid |-> p, fds |-> args] \in Promises
  BY DEF Promises, Typed, CallTyped
<1>3. children' = [children EXCEPT ![p] = child]
  BY DEF Fork
<1> HIDE DEF child
<1>4. /\ children' \in [Pids -> Process]
      /\ \A q \in Pids : children'[q].at # "none" => children'[q].job \in Jobs
  BY <1>1, <1>3 DEF Typed
<1>5. promise' \in [Jobs -> Promises]
  BY <1>2 DEF Fork, Typed
<1>6. CallTyped'
  BY ConstantsTyped DEF Fork, Return, CallTyped, Typed
<1> QED
  BY <1>4, <1>5, <1>6 DEF Fork, Typed

\* A step of a child leaves it its job, and changes the others not at all.
Moved(p, at) ==
  /\ children' = [children EXCEPT ![p] = children'[p]]
  /\ children'[p] \in Process /\ children'[p].at = at
  /\ children'[p].job = children[p].job

LEMMA ExitMoves ==
  ASSUME Typed, NEW p \in Pids, NEW status \in Statuses, Exit(p, status)
  PROVE  Moved(p, "zombie") /\ children'[p].status = status
<1> DEFINE over == [NoChild EXCEPT !.at = "zombie", !.job = children[p].job, !.status = status]
<1>1. over \in Process /\ over.at = "zombie" /\ over.job = children[p].job /\ over.status = status
  BY NoChildTyped DEF Process, Places, Typed
<1>2. children' = [children EXCEPT ![p] = over]
  BY DEF Exit
<1> HIDE DEF over
<1> QED
  BY <1>1, <1>2 DEF Moved, Typed

\* What dup2 leaves behind, where the file is open.
Redirected(p, from, to, next) ==
  /\ Moved(p, next) /\ UNCHANGED ended
  /\ children'[p].fds = children[p].fds /\ children'[p].asked = children[p].asked
  /\ \/ from <= to /\ children'[p].fdt = children[p].fdt
     \/ from > to /\ children'[p].fdt = [children[p].fdt EXCEPT ![to] = children[p].fdt[from]]

LEMMA DupMoves ==
  ASSUME Typed, NEW p \in Pids, NEW at \in Places, NEW from \in -1..MaxFd, NEW to \in {0, 1, 2},
         NEW next \in Places, Dup(p, at, from, to, next)
  PROVE  Exit(p, 1) \/ Redirected(p, from, to, next)
<1>1. children[p] \in Process
  BY DEF Typed
<1>2. CASE from <= to /\ children' = [children EXCEPT ![p].at = next] /\ UNCHANGED ended
  <2> DEFINE moved == [children[p] EXCEPT !.at = next]
  <2>1. /\ moved \in Process /\ moved.at = next /\ moved.job = children[p].job
        /\ moved.fds = children[p].fds /\ moved.asked = children[p].asked
        /\ moved.fdt = children[p].fdt
    BY <1>1 DEF Process
  <2>2. children' = [children EXCEPT ![p] = moved]
    BY <1>2
  <2> HIDE DEF moved
  <2> QED
    BY <1>2, <2>1, <2>2 DEF Redirected, Moved, Typed
<1>3. CASE /\ from > to /\ UNCHANGED ended
           /\ children' = [children EXCEPT ![p].at = next, ![p].fdt[to] = children[p].fdt[from]]
  <2> DEFINE table == [children[p].fdt EXCEPT ![to] = children[p].fdt[from]]
             moved == [children[p] EXCEPT !.at = next, !.fdt = table]
  <2>1. table \in Tables
    <3>1. from \in Fds /\ children[p].fdt \in Tables
      BY <1>1, <1>3 DEF Process, Fds
    <3> QED
      BY <3>1 DEF Tables
  <2>2. children' = [children EXCEPT ![p] = moved]
    BY <1>3, <1>1 DEF Process, Tables
  <2> HIDE DEF table
  <2>3. /\ moved \in Process /\ moved.at = next /\ moved.job = children[p].job
        /\ moved.fds = children[p].fds /\ moved.asked = children[p].asked
        /\ moved.fdt = table
    BY <1>1, <2>1 DEF Process
  <2> HIDE DEF moved
  <2>4. Moved(p, next) /\ children'[p] = moved
    BY <2>2, <2>3 DEF Moved, Typed
  <2> QED
    BY <1>3, <2>3, <2>4 DEF Redirected, table
<1> QED
  BY <1>2, <1>3 DEF Dup

\* What a step of a child is to everyone else.
Lives(p, at) ==
  /\ Moved(p, at) /\ children[p].at \notin {"none", "zombie"} /\ at # "none"
  /\ \/ at = "zombie" /\ ended' = [ended EXCEPT ![children[p].job] = children'[p].status]
     \/ at # "zombie" /\ UNCHANGED ended

LEMMA ChildLives ==
  ASSUME Typed, NEW p \in Pids, Child(p)
  PROVE  /\ \E at \in Places : Lives(p, at)
         /\ UNCHANGED <<careful, fdt, promise, result, call, reported, freed>>
<1>1. children[p] \in Process /\ children[p].fds \in FdTriples
  BY DEF Typed, Process
<1>2. ASSUME NEW status \in Statuses, Exit(p, status), children[p].at \notin {"none", "zombie"}
      PROVE  Lives(p, "zombie")
  BY <1>2, ExitMoves DEF Exit, Lives
<1>3. ASSUME NEW at \in {"in", "out", "err"}, NEW from \in -1..MaxFd, NEW to \in {0, 1, 2},
             NEW next \in {"out", "err", "exec"}, Dup(p, at, from, to, next)
      PROVE  \E place \in Places : Lives(p, place)
  <2>1. children[p].at = at /\ at \in Places /\ next \in Places
    BY <1>3 DEF Dup, Places
  <2>2. Exit(p, 1) \/ Redirected(p, from, to, next)
    BY <1>3, <2>1, DupMoves
  <2>3. CASE Exit(p, 1)
    BY <1>2, <2>1, <2>3, ConstantsTyped DEF Places
  <2>4. CASE Redirected(p, from, to, next)
    BY <2>1, <2>4 DEF Redirected, Lives
  <2> QED
    BY <2>2, <2>3, <2>4
<1>4. CASE DupIn(p) \/ DupOut(p) \/ DupErr(p)
  <2>1. /\ children[p].fds.in \in -1..MaxFd /\ children[p].fds.out \in -1..MaxFd
        /\ children[p].fds.err \in -1..MaxFd
    BY <1>1 DEF FdTriples
  <2>2. \E place \in Places : Lives(p, place)
    BY <1>3, <1>4, <2>1 DEF DupIn, DupOut, DupErr
  <2> QED
    BY <1>4, <2>2 DEF DupIn, DupOut, DupErr, Dup
<1>5. CASE Exec(p) \/ End(p)
  <2>1. children[p].at \notin {"none", "zombie"}
    BY <1>5 DEF Exec, End
  <2>2. ASSUME NEW status \in Statuses, Exit(p, status) PROVE \E place \in Places : Lives(p, place)
    BY <1>2, <2>1, <2>2 DEF Places
  <2>3. ASSUME children' = [children EXCEPT ![p].at = "run"], UNCHANGED ended
        PROVE  \E place \in Places : Lives(p, place)
    <3> DEFINE moved == [children[p] EXCEPT !.at = "run"]
    <3>1. moved \in Process /\ moved.at = "run" /\ moved.job = children[p].job
      BY <1>1 DEF Process, Places
    <3>2. children' = [children EXCEPT ![p] = moved]
      BY <2>3
    <3> HIDE DEF moved
    <3>3. Moved(p, "run")
      BY <3>1, <3>2 DEF Moved, Typed
    <3> QED
      BY <2>1, <2>3, <3>3 DEF Lives, Places
  <2>4. \E place \in Places : Lives(p, place)
    BY <1>5, <2>2, <2>3, ConstantsTyped DEF Exec, End
  <2> QED
    BY <1>5, <2>4 DEF Exec, End
<1> QED
  BY <1>4, <1>5 DEF Child

LEMMA ChildTyped == ASSUME Typed, NEW p \in Pids, Child(p) PROVE Typed'
<1>1. PICK at \in Places : Lives(p, at)
  BY ChildLives
<1>2. UNCHANGED <<careful, fdt, promise, result, call, reported, freed>>
  BY ChildLives
<1>3. /\ children' \in [Pids -> Process]
      /\ \A q \in Pids : children'[q].at # "none" => children'[q].job \in Jobs
  BY <1>1 DEF Lives, Moved, Typed
<1>4. children'[p].status \in Statuses
  BY <1>1 DEF Lives, Moved, Process
<1>5. ended' \in [Jobs -> Statuses \cup {NotEnded}]
  BY <1>1, <1>4 DEF Lives, Typed
<1> QED
  BY <1>2, <1>3, <1>5 DEF Typed, CallTyped, call

LEMMA ReapTyped ==
  ASSUME Typed, NEW p \in Pids, Reap(p)
  PROVE  /\ children' \in [Pids -> Process]
         /\ \A q \in Pids : children'[q].at # "none" => children'[q].job \in Jobs
BY NoChildTyped DEF Reap, Typed, NoChild

LEMMA AnswerTyped ==
  ASSUME Typed, pc = "wait", NEW status \in Statuses, Answer(status)
  PROVE  result' \in [Jobs -> Results] /\ fdt' \in Tables
<1>1. promise[job] \in Promises /\ promise[job].fds \in FdTriples
  BY DEF Typed, CallTyped, Promises
<1>2. [code |-> status, out |-> promise[job].fds.out, err |-> promise[job].fds.err] \in Results
  BY <1>1, ConstantsTyped DEF FdTriples, Results
<1>3. fdt' \in Tables
  BY CloseTyped DEF Answer, Typed
<1>4. result' \in [Jobs -> Results]
  BY <1>2, ConstantsTyped DEF Answer, Record, Typed
<1> QED
  BY <1>3, <1>4

LEMMA WaitTyped == ASSUME Typed, Waited \/ WaitFails PROVE Typed'
<1>1. pc = "wait" /\ job \in Jobs /\ promise[job].pid \in Pids
  BY DEF Waited, WaitFails, Typed, CallTyped
<1>2. CallTyped'
  BY ConstantsTyped DEF Waited, WaitFails, Return, CallTyped
<1>3. CASE Waited
  <2>1. children[promise[job].pid].status \in Statuses
    BY <1>1 DEF Typed, Process
  <2>2. result' \in [Jobs -> Results] /\ fdt' \in Tables
    BY <1>1, <1>3, <2>1, AnswerTyped DEF Waited
  <2> QED
    BY <1>1, <1>2, <1>3, <2>2, ReapTyped DEF Waited, Typed
<1>4. CASE WaitFails
  <2>1. result' \in [Jobs -> Results] /\ fdt' \in Tables
    BY <1>1, <1>4, AnswerTyped DEF WaitFails
  <2> QED
    BY <1>2, <1>4, <2>1 DEF WaitFails, Typed
<1> QED
  BY <1>3, <1>4

LEMMA AskTyped == ASSUME Typed, NEW j \in Jobs, Ask(j) PROVE Typed'
<1>1. promise[j].pid \in Pids \cup {0, -1}
  BY DEF Typed, Promises
<1>2. CASE Finished(j)
  <2>1. promise[j].pid \in Pids
    BY <1>1, <1>2 DEF Finished
  <2> QED
    BY <1>2, <2>1, ReapTyped DEF Finished, Typed, CallTyped, call
<1>3. CASE NeverRan(j)
  <2>1. result' \in [Jobs -> Results]
    BY <1>3, ConstantsTyped DEF NeverRan, Record, Typed
  <2> QED
    BY <1>3, <2>1 DEF NeverRan, Typed, CallTyped, call
<1>4. CASE GetResult(j)
  <2>1. promise[j].pid \in Pids
    BY <1>1, <1>4 DEF GetResult
  <2> QED
    BY <1>4, <2>1 DEF GetResult, Typed, CallTyped
<1>5. CASE Free(j)
  <2>1. fdt' \in Tables
    BY <1>5, CloseTyped DEF Free, Typed
  <2> QED
    BY <1>5, <2>1 DEF Free, Typed, CallTyped, call
<1> QED
  BY <1>2, <1>3, <1>4, <1>5 DEF Ask

LEMMA StepTyped == ASSUME Typed, [Next]_vars PROVE Typed'
<1>1. CASE UNCHANGED vars
  BY <1>1 DEF vars, call, Typed, CallTyped
<1> QED
  BY <1>1, ChildTyped, CallsTyped, ForkTyped, WaitTyped, AskTyped DEF Next, Proceed

LEMMA TypesHold == Spec => []Typed
BY InitTyped, StepTyped, PTL DEF Spec

-----------------------------------------------------------------------------
(* Promises, children and results of a careful program.                    *)

\* A job that is being started has no promise yet and nothing was said of it; one that is
\* waited for is not known to be over; what is left of a process tells how it ended.
Ready ==
  careful =>
    /\ \A j \in Jobs : promise[j] = NotStarted => Fresh(j)
    /\ pc \in {"in", "out", "err", "fork"} => promise[job] = NotStarted
    /\ pc = "wait" => Fresh(job)
    /\ \A p \in Pids : children[p].at = "zombie" => ended[children[p].job] = children[p].status

CInv == Typed /\ PidsMatch /\ Ready /\ OwnResult

LEMMA PidOfProcess ==
  ASSUME Typed, NEW j \in Jobs
  PROVE  promise[j].pid \in Int /\ (promise[j].pid > 0 <=> promise[j].pid \in Pids)
<1>1. promise[j].pid \in Pids \cup {0, -1}
  BY DEF Typed, Promises
<1>2. \A n \in Pids \cup {0, -1} : n \in Int /\ (n > 0 <=> n \in Pids)
  <2>1. \A n \in Pids : n \in Int /\ n > 0
    BY ConstantsTyped
  <2> QED
    BY <2>1
<1> QED
  BY <1>1, <1>2, Zenon

LEMMA InitMatches == Init => CInv
<1> SUFFICES ASSUME Init PROVE CInv
  OBVIOUS
<1>1. \A j \in Jobs : promise[j] = NotStarted /\ Fresh(j) /\ promise[j].pid = -1
  BY DEF Init, NotStarted, Fresh
<1>2. \A p \in Pids : children[p].at = "none"
  BY DEF Init, NoChild
<1> QED
  BY <1>1, <1>2, InitTyped DEF Init, CInv, PidsMatch, Ready, OwnResult

\* The steps of a call that starts a job, before the fork, and one that starts none.
LEMMA StartMatches ==
  ASSUME CInv
  PROVE  /\ \A j \in Jobs : Start(j) => CInv'
         /\ MakeIn \/ MakeOut \/ MkstempFails \/ ForkFails => CInv'
<1>1. ASSUME NEW j \in Jobs, Start(j) PROVE CInv'
  <2>1. /\ job' = j /\ promise[j] = NotStarted /\ pc' # "wait"
        /\ UNCHANGED <<careful, children, promise, result, reported, freed, ended>>
    BY <1>1 DEF Start, RunAsync, RunX, Idle
  <2>2. Typed'
    BY <1>1, CallsTyped DEF CInv
  <2> QED
    BY <2>1, <2>2 DEF CInv, PidsMatch, Ready, OwnResult, Fresh
<1>2. CASE MakeIn \/ MakeOut
  <2>1. /\ pc' # "wait" /\ pc \in {"in", "out", "err", "fork"}
        /\ UNCHANGED <<careful, children, promise, result, job, reported, freed, ended>>
    BY <1>2 DEF MakeIn, MakeOut
  <2>2. Typed'
    BY <1>2, CallsTyped DEF CInv
  <2> QED
    BY <2>1, <2>2 DEF CInv, PidsMatch, Ready, OwnResult, Fresh
<1>3. CASE MkstempFails \/ ForkFails
  <2>1. /\ pc \in {"in", "out", "err", "fork"} /\ pc' = "idle" /\ job \in Jobs
        /\ promise' = [promise EXCEPT ![job] = Failed]
        /\ UNCHANGED <<careful, children, result, reported, freed, ended>>
    BY <1>3 DEF MkstempFails, ForkFails, Return, CInv, Typed, CallTyped
  <2>2. Typed' /\ Failed.pid = 0 /\ Failed # NotStarted /\ NotStarted.pid = -1
    BY <1>3, CallsTyped DEF CInv, Failed, NotStarted
  <2>3. promise'[job].pid = 0 /\ \A j \in Jobs \ {job} : promise'[j] = promise[j]
    BY <2>1, <2>2 DEF CInv, Typed
  <2>4. PidsMatch'
    <3> SUFFICES ASSUME careful PROVE PidsMatch'
      BY <2>1 DEF PidsMatch
    <3>1. \A p \in Pids : children[p].at # "none" => children[p].job \in Jobs \ {job}
      BY <2>1, <2>2, ConstantsTyped DEF CInv, Typed, PidsMatch, Ready
    <3> QED
      BY <2>1, <2>3, <3>1, ConstantsTyped DEF CInv, Typed, PidsMatch, Fresh
  <2>5. Ready'
    BY <2>1, <2>2, <2>3 DEF CInv, Typed, Ready, Fresh
  <2>6. OwnResult'
    BY <2>1, <2>3 DEF CInv, OwnResult
  <2> QED
    BY <2>2, <2>4, <2>5, <2>6 DEF CInv
<1> QED
  BY <1>1, <1>2, <1>3

LEMMA ForkMatches == ASSUME CInv, NEW p \in Pids, Fork(p) PROVE CInv'
<1>1. /\ pc = "fork" /\ job \in Jobs /\ pc' = "idle" /\ children[p].at = "none"
      /\ promise' = [promise EXCEPT ![job] = [pid |-> p, fds |-> args]]
      /\ UNCHANGED <<careful, result, reported, freed, ended>>
  BY DEF Fork, Return, CInv, Typed, CallTyped
<1>2. /\ promise'[job].pid = p /\ promise'[job] # NotStarted
      /\ \A j \in Jobs \ {job} : promise'[j] = promise[j]
  BY <1>1, ConstantsTyped DEF CInv, Typed, NotStarted
<1>3. /\ children'[p].at = "in" /\ children'[p].job = job
      /\ \A q \in Pids \ {p} : children'[q] = children[q]
  BY DEF Fork, CInv, Typed
<1>4. Typed'
  BY ForkTyped DEF CInv
<1> SUFFICES ASSUME careful PROVE CInv'
  BY <1>1, <1>4 DEF CInv, PidsMatch, Ready, OwnResult
<1>5. Fresh(job) /\ promise[job].pid = -1
  BY <1>1 DEF CInv, Ready, NotStarted
<1>6. \A q \in Pids : children[q].at # "none" => children[q].job \in Jobs \ {job}
  BY <1>5, ConstantsTyped DEF CInv, Typed, PidsMatch
<1>7. PidsMatch'
  <2>1. ASSUME NEW j \in Jobs, promise'[j].pid > 0, Fresh(j)'
        PROVE  children'[promise'[j].pid].at # "none" /\ children'[promise'[j].pid].job = j
    <3>1. CASE j = job
      BY <1>2, <1>3, <3>1
    <3>2. CASE j # job
      <4>1. promise'[j] = promise[j] /\ Fresh(j)
        BY <1>1, <1>2, <2>1, <3>2 DEF Fresh
      <4>2. promise[j].pid \in Pids /\ children[promise[j].pid].at # "none"
            /\ children[promise[j].pid].job = j
        BY <2>1, <4>1, PidOfProcess DEF CInv, PidsMatch
      <4> QED
        BY <1>1, <1>3, <4>1, <4>2
    <3> QED
      BY <3>1, <3>2
  <2>2. ASSUME NEW q \in Pids, children'[q].at # "none"
        PROVE  promise'[children'[q].job].pid = q /\ Fresh(children[q].job)'
    <3>1. CASE q = p
      BY <1>1, <1>2, <1>3, <1>5, <3>1 DEF Fresh
    <3>2. CASE q # p
      <4>1. children'[q] = children[q] /\ children[q].job \in Jobs \ {job}
        BY <1>3, <1>6, <2>2, <3>2
      <4> QED
        BY <1>1, <1>2, <2>2, <4>1 DEF CInv, PidsMatch, Fresh
    <3> QED
      BY <3>1, <3>2
  <2> QED
    BY <2>1, <2>2 DEF PidsMatch
<1>8. Ready'
  BY <1>1, <1>2, <1>3 DEF CInv, Ready, Fresh
<1>9. OwnResult'
  BY <1>1, <1>2, <1>5 DEF CInv, OwnResult, Fresh
<1> QED
  BY <1>4, <1>7, <1>8, <1>9 DEF CInv

LEMMA ChildMatches == ASSUME CInv, NEW p \in Pids, Child(p) PROVE CInv'
<1>1. PICK at \in Places : Lives(p, at)
  BY ChildLives DEF CInv
<1>2. UNCHANGED <<careful, promise, result, pc, job, reported, freed>>
  BY ChildLives DEF CInv, call
<1>3. /\ children'[p].at = at /\ at # "none" /\ children'[p].job = children[p].job
      /\ children[p].at # "none" /\ children[p].job \in Jobs
      /\ \A q \in Pids \ {p} : children'[q] = children[q]
  BY <1>1 DEF Lives, Moved, CInv, Typed
<1>4. /\ ended' \in [Jobs -> Statuses \cup {NotEnded}]
      /\ \A j \in Jobs \ {children[p].job} : ended'[j] = ended[j]
      /\ at = "zombie" => ended'[children[p].job] = children'[p].status
  BY <1>1, <1>3, ChildTyped DEF Lives, CInv, Typed
<1>5. Typed'
  BY ChildTyped DEF CInv
<1> SUFFICES ASSUME careful PROVE CInv'
  BY <1>2, <1>5 DEF CInv, PidsMatch, Ready, OwnResult
<1>6. PidsMatch'
  <2>1. ASSUME NEW j \in Jobs, promise'[j].pid > 0, Fresh(j)'
        PROVE  children'[promise'[j].pid].at # "none" /\ children'[promise'[j].pid].job = j
    <3>1. promise'[j] = promise[j] /\ Fresh(j)
      BY <1>2, <2>1 DEF Fresh
    <3>2. promise[j].pid \in Pids /\ children[promise[j].pid].at # "none"
          /\ children[promise[j].pid].job = j
      BY <2>1, <3>1, PidOfProcess DEF CInv, PidsMatch
    <3> QED
      BY <1>3, <3>1, <3>2
  <2>2. ASSUME NEW q \in Pids, children'[q].at # "none"
        PROVE  promise'[children'[q].job].pid = q /\ Fresh(children[q].job)'
    <3>1. children[q].at # "none" /\ children'[q].job = children[q].job
      BY <1>3, <2>2
    <3> QED
      BY <1>2, <3>1 DEF CInv, PidsMatch, Fresh
  <2> QED
    BY <2>1, <2>2 DEF PidsMatch
<1>7. Fresh(children[p].job)
  BY <1>3 DEF CInv, PidsMatch
<1>8. \A q \in Pids \ {p} : children[q].at # "none" => children[q].job \in Jobs \ {children[p].job}
  BY <1>3 DEF CInv, PidsMatch, Typed
<1>9. Ready'
  BY <1>2, <1>3, <1>4, <1>8 DEF CInv, Ready, Fresh
<1>10. OwnResult'
  BY <1>2, <1>4, <1>7 DEF CInv, OwnResult, Fresh
<1> QED
  BY <1>5, <1>6, <1>9, <1>10 DEF CInv

\* A child is collected, and with it its job is done with: collected by process_finished,
\* or its result asked for, and nothing else is changed of what the invariant is about.
LEMMA ReapMatches ==
  ASSUME CInv, careful, careful', NEW j \in Jobs, promise[j].pid \in Pids, Fresh(j),
         Reap(promise[j].pid), ~Fresh(j)', Typed', UNCHANGED <<promise, ended>>, pc' = "idle",
         \A k \in Jobs \ {j} : Fresh(k) <=> Fresh(k)'
  PROVE  PidsMatch' /\ Ready'
<1> DEFINE p == promise[j].pid
<1>1. /\ children'[p].at = "none"
      /\ \A q \in Pids \ {p} : children'[q] = children[q]
  BY DEF Reap, NoChild, CInv, Typed
<1>2. children[p].at # "none" /\ children[p].job = j
  BY PidOfProcess DEF CInv, PidsMatch
<1>3. ASSUME NEW k \in Jobs, promise'[k].pid > 0, Fresh(k)'
      PROVE  children'[promise'[k].pid].at # "none" /\ children'[promise'[k].pid].job = k
  <2>1. k # j /\ Fresh(k) /\ promise'[k] = promise[k]
    BY <1>3
  <2>2. promise[k].pid \in Pids /\ children[promise[k].pid].at # "none"
        /\ children[promise[k].pid].job = k
    BY <1>3, <2>1, PidOfProcess DEF CInv, PidsMatch
  <2> QED
    BY <1>1, <1>2, <2>1, <2>2
<1>4. ASSUME NEW q \in Pids, children'[q].at # "none"
      PROVE  promise'[children'[q].job].pid = q /\ Fresh(children[q].job)'
  <2>1. q # p /\ children'[q] = children[q] /\ children[q].job \in Jobs
    BY <1>1, <1>4 DEF CInv, Typed
  <2>2. promise[children[q].job].pid = q /\ Fresh(children[q].job)
    BY <1>4, <2>1 DEF CInv, PidsMatch
  <2>3. children[q].job # j
    BY <2>1, <2>2
  <2> QED
    BY <2>1, <2>2, <2>3
<1>5. PidsMatch'
  BY <1>3, <1>4 DEF PidsMatch
<1>6. \A k \in Jobs : promise'[k] = NotStarted => Fresh(k)'
  BY ConstantsTyped DEF CInv, Ready, NotStarted
<1>7. \A q \in Pids : children'[q].at = "zombie" => ended'[children'[q].job] = children'[q].status
  <2> SUFFICES ASSUME NEW q \in Pids, children'[q].at = "zombie"
               PROVE  ended'[children'[q].job] = children'[q].status
    OBVIOUS
  <2>1. children'[q] = children[q]
    BY <1>1
  <2> QED
    BY <2>1 DEF CInv, Ready
<1> QED
  BY <1>5, <1>6, <1>7 DEF Ready

\* A result is never the one that says there is none yet.
LEMMA AnswerRecords ==
  ASSUME Typed, job \in Jobs, result[job] = Pending, NEW status \in Statuses, Answer(status)
  PROVE  /\ result' = [result EXCEPT ![job] = result'[job]] /\ result'[job] # Pending
         /\ result'[job] = IF status = Killed THEN NoResult
              ELSE [code |-> status, out |-> promise[job].fds.out, err |-> promise[job].fds.err]
<1> DEFINE answer == IF status = Killed THEN NoResult
              ELSE [code |-> status, out |-> promise[job].fds.out, err |-> promise[job].fds.err]
<1>1. result' = [result EXCEPT ![job] = answer]
  BY DEF Answer, Record
<1>2. answer.code # -2
  BY ConstantsTyped DEF NoResult, Statuses, Killed
<1>3. answer # Pending
  BY <1>2 DEF Pending
<1> HIDE DEF answer
<1>4. result'[job] = answer
  BY <1>1 DEF Typed
<1> QED
  BY <1>1, <1>3, <1>4 DEF answer

LEMMA WaitMatches == ASSUME CInv, Waited \/ WaitFails PROVE CInv'
<1>1. /\ pc = "wait" /\ job \in Jobs /\ promise[job].pid \in Pids /\ pc' = "idle"
      /\ UNCHANGED <<careful, promise, reported, freed, ended>>
  BY DEF Waited, WaitFails, Return, CInv, Typed, CallTyped
<1>2. Typed'
  BY WaitTyped DEF CInv
<1> SUFFICES ASSUME careful PROVE CInv'
  BY <1>1, <1>2 DEF CInv, PidsMatch, Ready, OwnResult
<1> DEFINE p == promise[job].pid
<1>3. Fresh(job) /\ children[p].at # "none" /\ children[p].job = job
  BY <1>1, PidOfProcess DEF CInv, Ready, PidsMatch
<1>4. children[p].at = "zombie" /\ Answer(children[p].status) /\ Reap(p)
  BY <1>3 DEF Waited, WaitFails
<1>5. children[p].status \in Statuses /\ ended[job] = children[p].status
  BY <1>1, <1>3, <1>4 DEF CInv, Typed, Process, Ready
<1> HIDE DEF p
<1>6. /\ result' = [result EXCEPT ![job] = result'[job]] /\ result'[job] # Pending
      /\ result'[job] = IF ended[job] = Killed THEN NoResult
           ELSE [code |-> ended[job], out |-> promise[job].fds.out, err |-> promise[job].fds.err]
  BY <1>1, <1>3, <1>4, <1>5, AnswerRecords DEF CInv, Fresh
<1>7. ASSUME NEW j \in Jobs, j = job PROVE PidsMatch' /\ Ready'
  <2>1. \A k \in Jobs \ {j} : result'[k] = result[k]
    BY <1>6, <1>7, <1>2 DEF CInv, Typed
  <2>2. ~Fresh(j)' /\ \A k \in Jobs \ {j} : Fresh(k) <=> Fresh(k)'
    BY <1>1, <1>6, <1>7, <2>1 DEF Fresh
  <2>3. Fresh(j) /\ promise[j].pid \in Pids /\ Reap(promise[j].pid)
    BY <1>1, <1>3, <1>4, <1>7 DEF p
  <2> QED
    BY <1>1, <1>2, <2>2, <2>3, ReapMatches
<1>8. PidsMatch' /\ Ready'
  BY <1>1, <1>7
<1>9. OwnResult'
  BY <1>1, <1>6 DEF CInv, Typed, OwnResult
<1> QED
  BY <1>2, <1>8, <1>9 DEF CInv

LEMMA AskMatches == ASSUME CInv, NEW j \in Jobs, Ask(j) PROVE CInv'
<1>1. /\ pc = "idle" /\ promise[j] # NotStarted
      /\ UNCHANGED <<careful, promise, ended>>
  BY DEF Ask, Finished, NeverRan, GetResult, Free, Started
<1>2. Typed'
  BY AskTyped DEF CInv
<1> SUFFICES ASSUME careful PROVE CInv'
  BY <1>1, <1>2 DEF CInv, PidsMatch, Ready, OwnResult
<1>3. CASE Finished(j)
  <2>1. promise[j].pid \in Pids
    BY <1>3, PidOfProcess DEF Finished, CInv
  <2>2. /\ Fresh(j) /\ Reap(promise[j].pid) /\ ~Fresh(j)' /\ pc' = "idle"
        /\ \A k \in Jobs \ {j} : Fresh(k) <=> Fresh(k)'
    BY <1>1, <1>3 DEF Finished, Fresh, call
  <2>3. PidsMatch' /\ Ready'
    BY <1>1, <1>2, <2>1, <2>2, ReapMatches
  <2>4. OwnResult'
    BY <1>1, <1>3 DEF Finished, CInv, OwnResult
  <2> QED
    BY <1>2, <2>3, <2>4 DEF CInv
<1>4. CASE NeverRan(j)
  <2>1. ~(promise[j].pid > 0) /\ promise[j].pid \notin Pids
    <3>1. promise[j].pid \in Int
      BY PidOfProcess DEF CInv
    <3>2. ~(promise[j].pid > 0)
      BY <1>4, <3>1 DEF NeverRan
    <3> QED
      BY <3>2, PidOfProcess DEF CInv
  <2>2. /\ \A k \in Jobs \ {j} : result'[k] = result[k] /\ (Fresh(k) <=> Fresh(k)')
        /\ UNCHANGED <<children, pc, job, reported, freed>>
    BY <1>4 DEF NeverRan, Record, CInv, Typed, Fresh, call
  <2>3. \A p \in Pids : children[p].at # "none" => children[p].job \in Jobs \ {j}
    BY <2>1 DEF CInv, Typed, PidsMatch
  <2>4. PidsMatch'
    BY <1>1, <2>1, <2>2, <2>3 DEF CInv, PidsMatch
  <2>5. Ready'
    BY <1>1, <2>2 DEF CInv, Ready
  <2>6. OwnResult'
    BY <1>1, <2>1, <2>2 DEF CInv, OwnResult
  <2> QED
    BY <1>2, <2>4, <2>5, <2>6 DEF CInv
<1>5. CASE GetResult(j)
  <2>1. /\ Fresh(j) /\ pc' = "wait" /\ job' = j
        /\ UNCHANGED <<children, result, reported, freed>>
    BY <1>5 DEF GetResult
  <2> QED
    BY <1>1, <1>2, <2>1 DEF CInv, PidsMatch, Ready, OwnResult, Fresh
<1>6. CASE Free(j)
  <2>1. /\ j \in reported /\ freed' = freed \cup {j}
        /\ UNCHANGED <<children, result, pc, job, reported>>
    BY <1>6 DEF Free, call
  <2>2. \A k \in Jobs : Fresh(k) <=> Fresh(k)'
    BY <2>1 DEF Fresh
  <2>3. PidsMatch'
    BY <1>1, <2>1, <2>2 DEF CInv, Typed, PidsMatch
  <2>4. Ready'
    BY <1>1, <2>1, <2>2 DEF CInv, Ready
  <2>5. OwnResult'
    BY <1>1, <2>1 DEF CInv, OwnResult
  <2> QED
    BY <1>2, <2>3, <2>4, <2>5 DEF CInv
<1> QED
  BY <1>3, <1>4, <1>5, <1>6 DEF Ask

LEMMA StepMatches == ASSUME CInv, [Next]_vars PROVE CInv'
<1>1. CASE UNCHANGED vars
  BY <1>1, StepTyped DEF vars, call, CInv, PidsMatch, Ready, OwnResult, Fresh
<1> QED
  BY <1>1, StartMatches, ForkMatches, ChildMatches, WaitMatches, AskMatches DEF Next, Proceed

\* In a careful program every promise leads to its job's own child until that is
\* collected, and every child is some such promise's (subprocess.c, process_finished,
\* process_getresult), however the calls and the children interleave.
THEOREM PromisesLeadToChildren == Spec => []PidsMatch
<1>1. CInv => PidsMatch
  BY DEF CInv
<1> QED
  BY <1>1, InitMatches, StepMatches, PTL DEF Spec

\* A careful program's result is how the job's own command ended.
THEOREM ResultsAreOwn == Spec => []OwnResult
<1>1. CInv => OwnResult
  BY DEF CInv
<1> QED
  BY <1>1, InitMatches, StepMatches, PTL DEF Spec

-----------------------------------------------------------------------------
(* The descriptors of a careful program.                                   *)

\* What was given to a job may still be read, or closed by its promise.
Keeps(j) == promise[j].pid > 0 /\ result[j] = Pending /\ j \notin freed

Starting == pc \in {"in", "out", "err", "fork"}

\* The descriptors of a job are open, and its input is what it was.
Holds(table, j, fds) ==
  /\ \A f \in Used(fds) : table[f] # Closed
  /\ fds.in \in Fds => fds.in > 2 /\ table[fds.in] \in {<<j, "in">>, UserFile}

Streams(table) == table[0] = Stdin /\ table[1] = Stdout /\ table[2] = Stderr

Disjoint(some, others) == Used(some) \cap Used(others) = {}

\* No descriptor is kept for two jobs, neither those with a promise nor the one that is
\* being started: this is why closing those of one leaves the others' alone.
Kept ==
  careful =>
    /\ \A j \in Jobs : Keeps(j) => Holds(fdt, j, promise[j].fds)
    /\ \A j, k \in Jobs : Keeps(j) /\ Keeps(k) /\ j # k => Disjoint(promise[j].fds, promise[k].fds)
    /\ Starting => /\ Holds(fdt, job, args)
                   /\ \A k \in Jobs : Keeps(k) => Disjoint(args, promise[k].fds)
    /\ \A j \in reported : promise[j].pid > 0
    /\ Streams(fdt)

FInv == CInv /\ Kept

LEMMA FdsTyped ==
  ASSUME Typed
  PROVE  args \in FdTriples /\ \A j \in Jobs : promise[j].fds \in FdTriples
  BY DEF Typed, CallTyped, Promises

\* A descriptor in use is a file's, and no stream's.
LEMMA UsedIsOpen ==
  ASSUME NEW fds \in FdTriples
  PROVE  /\ \A f \in Used(fds) : f \in Fds /\ f > 2
         /\ \A r \in {"in", "out", "err"} : fds[r] \in Fds /\ fds[r] > 2 => fds[r] \in Used(fds)
         /\ \A r \in {"in", "out", "err"} : fds[r] \in Used(fds) \/ fds[r] = -1 \/ fds[r] \in 0..2
<1>1. /\ fds.in \in -1..MaxFd /\ fds.out \in -1..MaxFd /\ fds.err \in -1..MaxFd
      /\ fds["in"] = fds.in /\ fds["out"] = fds.out /\ fds["err"] = fds.err
  BY DEF FdTriples
<1> QED
  BY <1>1, ConstantsAssumption DEF Used, Fds

\* Closing another job's descriptor.
LEMMA CloseHolds ==
  ASSUME NEW table \in Tables, NEW f, NEW fds \in FdTriples, NEW j,
         f \notin Used(fds), f \notin 0..2
  PROVE  /\ Holds(table, j, fds) => Holds(Close(table, f), j, fds)
         /\ Streams(table) => Streams(Close(table, f))
<1>1. \A g \in Fds : g # f => Close(table, f)[g] = table[g]
  BY DEF Close, Tables
<1>2. \A g \in Used(fds) : g \in Fds /\ g # f
  BY UsedIsOpen
<1>3. fds.in \in Fds /\ fds.in > 2 => fds.in # f
  <2>1. fds.in \in Fds /\ fds.in > 2 => fds.in \in Used(fds)
    BY UsedIsOpen
  <2> QED
    BY <2>1
<1>4. Holds(table, j, fds) => Holds(Close(table, f), j, fds)
  BY <1>1, <1>2, <1>3 DEF Holds
<1>5. Streams(table) => Streams(Close(table, f))
  BY <1>1, ConstantsTyped DEF Streams
<1> QED
  BY <1>4, <1>5

\* The steps after which no more is kept than before, and nothing is being started that
\* was not.
LEMMA NoMoreKept ==
  ASSUME FInv, UNCHANGED <<careful, promise, reported>>,
         \A k \in Jobs : Keeps(k)' => Keeps(k),
         \/ ~Starting'
         \/ UNCHANGED <<pc, job, args>> /\ UNCHANGED fdt,
         careful => Streams(fdt') /\ \A k \in Jobs : Keeps(k)' => Holds(fdt', k, promise[k].fds)
  PROVE  Kept'
<1> SUFFICES ASSUME careful PROVE Kept'
  BY DEF Kept
<1>1. Kept
  BY DEF FInv
<1>2. Starting' => Holds(fdt', job', args') /\ \A k \in Jobs : Keeps(k)' => Disjoint(args', promise[k].fds)
  BY <1>1 DEF Kept, Starting
<1> QED
  BY <1>1, <1>2 DEF Kept

LEMMA StartKeeps == ASSUME FInv, NEW j \in Jobs, Start(j) PROVE Kept'
<1>1. /\ job' = j /\ UNCHANGED <<careful, fdt, promise, result, reported, freed>>
  BY DEF Start, RunAsync, RunX
<1> SUFFICES ASSUME careful PROVE Kept'
  BY <1>1 DEF Kept
<1>2. Kept /\ \A k \in Jobs : Keeps(k)' <=> Keeps(k)
  BY <1>1 DEF FInv, Keeps
<1>3. Holds(fdt, j, args') /\ \A k \in Jobs : Keeps(k) => Disjoint(args', promise[k].fds)
  <2>1. CASE args' = NoFds
    <3>1. Used(args') = {} /\ args'.in \notin Fds
      BY <2>1, ConstantsAssumption DEF Used, NoFds, Fds
    <3> QED
      BY <3>1 DEF Holds, Disjoint
  <2>2. ASSUME NEW in \in InArgs, NEW out \in OutArgs, NEW err \in ErrArgs, RunX(j, in, out, err)
        PROVE  Holds(fdt, j, args') /\ \A k \in Jobs : Disjoint(args', promise[k].fds)
    <3>1. /\ args' = [in |-> in, out |-> out, err |-> err] /\ args'.in = in
          /\ in \notin 0..2
          /\ \A f \in Used(args') : fdt[f] = UserFile
          /\ \A k \in Jobs : Disjoint(args', promise[k].fds)
      BY <2>2 DEF RunX, Disjoint
    <3>2. in \in Fds => in > 2 /\ in \in Used(args')
      BY <3>1, ConstantsAssumption DEF Fds, Used
    <3> QED
      BY <3>1, <3>2 DEF Holds, UserFile, Closed
  <2> QED
    BY <2>1, <2>2 DEF Start, RunAsync
<1> QED
  BY <1>1, <1>2, <1>3 DEF Kept

\* A temporary file has a descriptor that is no other job's.
LEMMA MkstempKeeps ==
  ASSUME FInv, careful, Starting, job \in Jobs, NEW role \in {"in", "out"}, Mkstemp(role)
  PROVE  /\ Holds(fdt', job, args') /\ Streams(fdt')
         /\ \A k \in Jobs : Keeps(k) =>
              Holds(fdt', k, promise[k].fds) /\ Disjoint(args', promise[k].fds)
<1> DEFINE f == LowestFd
<1>1. fdt[f] = Closed /\ f \in Fds /\ fdt \in Tables /\ args \in FdTriples
  BY LowestIsFree, FdsTyped DEF Mkstemp, FreeFds, FInv, CInv, Typed
<1>2. /\ Streams(fdt) /\ Holds(fdt, job, args)
      /\ \A k \in Jobs : Keeps(k) =>
           Holds(fdt, k, promise[k].fds) /\ Disjoint(args, promise[k].fds)
  BY DEF FInv, Kept
<1>3. f > 2
  BY <1>1, <1>2, ConstantsAssumption DEF Streams, Stdin, Stdout, Stderr, Closed, Fds
<1>4. fdt' = [fdt EXCEPT ![f] = <<job, role>>] /\ args' = [args EXCEPT ![role] = f]
  BY DEF Mkstemp
<1> HIDE DEF f
<1>5. fdt'[f] = <<job, role>> /\ fdt'[f] # Closed /\ \A g \in Fds \ {f} : fdt'[g] = fdt[g]
  BY <1>1, <1>4 DEF Tables, Closed
<1>6. /\ Used(args') \subseteq Used(args) \cup {f}
      /\ args'.in = args.in \/ (args'.in = f /\ role = "in")
  <2>1. CASE role = "in"
    BY <1>1, <1>4, <2>1 DEF FdTriples, Used
  <2>2. CASE role = "out"
    BY <1>1, <1>4, <2>2 DEF FdTriples, Used
  <2> QED
    BY <2>1, <2>2
<1>7. ASSUME NEW fds \in FdTriples, NEW k, Holds(fdt, k, fds)
      PROVE  f \notin Used(fds) /\ Holds(fdt', k, fds)
  <2>1. f \notin Used(fds) /\ fds.in # f
    BY <1>1, <1>3, <1>7 DEF Holds, Closed, UserFile
  <2>2. \A g \in Used(fds) : g \in Fds
    BY UsedIsOpen
  <2> QED
    BY <1>5, <1>7, <2>1, <2>2 DEF Holds
<1>8. Holds(fdt', job, args')
  BY <1>1, <1>2, <1>3, <1>5, <1>6, <1>7 DEF Holds
<1>9. ASSUME NEW k \in Jobs, Keeps(k)
      PROVE  Holds(fdt', k, promise[k].fds) /\ Disjoint(args', promise[k].fds)
  <2>1. f \notin Used(promise[k].fds) /\ Holds(fdt', k, promise[k].fds)
    BY <1>2, <1>7, <1>9, FdsTyped DEF FInv, CInv
  <2> QED
    BY <1>2, <1>6, <1>9, <2>1 DEF Disjoint
<1>10. Streams(fdt')
  BY <1>2, <1>3, <1>5, ConstantsTyped DEF Streams
<1> QED
  BY <1>8, <1>9, <1>10

LEMMA MakeKeeps == ASSUME FInv, MakeIn \/ MakeOut PROVE Kept'
<1>1. /\ Starting /\ job \in Jobs
      /\ Mkstemp("in") \/ Mkstemp("out")
      /\ UNCHANGED <<careful, promise, result, job, reported, freed>>
  BY DEF MakeIn, MakeOut, Starting, FInv, CInv, Typed, CallTyped
<1> SUFFICES ASSUME careful PROVE Kept'
  BY <1>1 DEF Kept
<1>2. /\ Holds(fdt', job, args') /\ Streams(fdt')
      /\ \A k \in Jobs : Keeps(k) =>
           Holds(fdt', k, promise[k].fds) /\ Disjoint(args', promise[k].fds)
  BY <1>1, MkstempKeeps
<1>3. Kept /\ \A k \in Jobs : Keeps(k)' <=> Keeps(k)
  BY <1>1 DEF FInv, Keeps
<1> QED
  BY <1>1, <1>2, <1>3 DEF Kept

LEMMA ForkKeeps == ASSUME FInv, NEW p \in Pids, Fork(p) PROVE Kept'
<1>1. /\ Starting /\ job \in Jobs /\ ~Starting'
      /\ promise' = [promise EXCEPT ![job] = [pid |-> p, fds |-> args]]
      /\ UNCHANGED <<careful, fdt, result, reported, freed>>
  BY DEF Fork, Return, Starting, FInv, CInv, Typed, CallTyped
<1> SUFFICES ASSUME careful PROVE Kept'
  BY <1>1 DEF Kept
<1>2. /\ promise'[job].fds = args /\ promise'[job].pid > 0
      /\ \A k \in Jobs \ {job} : promise'[k] = promise[k] /\ (Keeps(k)' <=> Keeps(k))
  BY <1>1, ConstantsTyped DEF FInv, CInv, Typed, Keeps
<1>3. Kept
  BY DEF FInv
<1>4. ASSUME NEW k \in Jobs, Keeps(k)' PROVE Holds(fdt, k, promise'[k].fds)
  BY <1>1, <1>2, <1>3, <1>4 DEF Kept
<1>5. ASSUME NEW j \in Jobs, NEW k \in Jobs, Keeps(j)', Keeps(k)', j # k
      PROVE  Disjoint(promise'[j].fds, promise'[k].fds)
  <2>1. CASE j = job
    BY <1>1, <1>2, <1>3, <1>5, <2>1 DEF Kept
  <2>2. CASE k = job
    BY <1>1, <1>2, <1>3, <1>5, <2>2 DEF Kept, Disjoint
  <2>3. CASE j # job /\ k # job
    BY <1>2, <1>3, <1>5, <2>3 DEF Kept
  <2> QED
    BY <2>1, <2>2, <2>3
<1>6. \A j \in reported : promise'[j].pid > 0
  BY <1>2, <1>3 DEF Kept, FInv, CInv, Typed
<1> QED
  BY <1>1, <1>3, <1>4, <1>5, <1>6 DEF Kept

LEMMA FailKeeps == ASSUME FInv, MkstempFails \/ ForkFails PROVE Kept'
<1>1. /\ Starting /\ job \in Jobs /\ ~Starting'
      /\ promise' = [promise EXCEPT ![job] = Failed]
      /\ UNCHANGED <<careful, fdt, result, reported, freed>>
  BY DEF MkstempFails, ForkFails, Return, Starting, FInv, CInv, Typed, CallTyped
<1> SUFFICES ASSUME careful PROVE Kept'
  BY <1>1 DEF Kept
<1>2. job \notin reported
  BY <1>1 DEF Starting, FInv, CInv, Ready, Fresh
<1>3. promise'[job].pid = 0 /\ \A k \in Jobs \ {job} : promise'[k] = promise[k]
  BY <1>1 DEF Failed, FInv, CInv, Typed
<1>4. \A k \in Jobs : Keeps(k)' => Keeps(k) /\ k # job
  BY <1>1, <1>3 DEF Keeps
<1>5. Kept /\ \A k \in reported : k \in Jobs \ {job}
  BY <1>2 DEF FInv, CInv, Typed
<1> QED
  BY <1>1, <1>3, <1>4, <1>5 DEF Kept

LEMMA WaitKeeps == ASSUME FInv, Waited \/ WaitFails PROVE Kept'
<1>1. /\ pc = "wait" /\ job \in Jobs /\ promise[job].pid \in Pids /\ ~Starting'
      /\ UNCHANGED <<careful, promise, reported, freed>>
  BY DEF Waited, WaitFails, Return, Starting, FInv, CInv, Typed, CallTyped
<1> SUFFICES ASSUME careful PROVE Kept'
  BY <1>1 DEF Kept
<1> DEFINE fds == promise[job].fds
<1>2. Keeps(job) /\ Typed /\ Kept
  BY <1>1, PidOfProcess DEF FInv, CInv, Ready, Fresh, Keeps
<1>3. PICK status \in Statuses : Answer(status)
  BY <1>1, <1>2 DEF Waited, WaitFails, Typed, Process
<1>4. result' = [result EXCEPT ![job] = result'[job]] /\ result'[job] # Pending
  BY <1>1, <1>2, <1>3, AnswerRecords DEF Keeps
<1>5. \A k \in Jobs : Keeps(k)' => Keeps(k) /\ k # job
  BY <1>1, <1>2, <1>4 DEF Keeps, Typed
<1>6. fdt' = fdt \/ fdt' = Close(fdt, fds.in)
  BY <1>3 DEF Answer
<1>7. Streams(fdt') /\ \A k \in Jobs : Keeps(k)' => Holds(fdt', k, promise[k].fds)
  <2>1. fdt \in Tables /\ Streams(fdt) /\ \A k \in Jobs : Keeps(k) => Holds(fdt, k, promise[k].fds)
    BY <1>2 DEF Typed, Kept
  <2>2. CASE fdt' = fdt
    BY <1>5, <2>1, <2>2
  <2>3. CASE fdt' = Close(fdt, fds.in) /\ fds.in \notin Fds
    BY <1>5, <2>1, <2>3 DEF Close
  <2>4. CASE fdt' = Close(fdt, fds.in) /\ fds.in \in Fds
    <3>1. fds.in > 2 /\ fds \in FdTriples
      BY <1>1, <1>2, <2>1, <2>4, FdsTyped DEF Holds
    <3>2. fds.in \in Used(fds) /\ fds.in \notin 0..2
      BY <2>4, <3>1, UsedIsOpen
    <3>3. \A k \in Jobs : Keeps(k)' => Keeps(k) /\ fds.in \notin Used(promise[k].fds)
      BY <1>1, <1>2, <1>5, <3>2 DEF Kept, Disjoint
    <3>4. \A k \in Jobs : promise[k].fds \in FdTriples
      BY <1>2, FdsTyped
    <3> HIDE DEF fds
    <3>5. Streams(fdt')
      <4>1. NoFds \in FdTriples /\ Used(NoFds) = {}
        BY ConstantsTyped DEF Used, NoFds
      <4> QED
        BY <2>1, <2>4, <3>2, <4>1, CloseHolds
    <3>6. ASSUME NEW k \in Jobs, Keeps(k)' PROVE Holds(fdt', k, promise[k].fds)
      BY <2>1, <2>4, <3>2, <3>3, <3>4, <3>6, CloseHolds
    <3> QED
      BY <3>5, <3>6
  <2> QED
    BY <1>6, <2>2, <2>3, <2>4
<1> QED
  BY <1>1, <1>5, <1>7, NoMoreKept

LEMMA FreeKeeps == ASSUME FInv, careful, NEW j \in Jobs, Free(j) PROVE Kept'
<1> DEFINE fds == promise[j].fds
<1>1. /\ pc = "idle" /\ UNCHANGED <<careful, promise, result, call, reported>>
      /\ freed' = freed \cup {j} /\ j \notin freed /\ j \in reported /\ result[j] = Pending
      /\ fds.in \notin 0..2 /\ fds.out \notin 0..2 /\ fds.err \notin 0..2
      /\ fdt' = Close(Close(Close(fdt, fds.in), fds.out), fds.err)
  <2>1. \A r \in {"in", "out", "err"} : fds[r] \notin 0..2
    BY DEF Free
  <2>2. fds["in"] = fds.in /\ fds["out"] = fds.out /\ fds["err"] = fds.err
    BY FdsTyped DEF FInv, CInv, FdTriples
  <2> QED
    BY <2>1, <2>2 DEF Free, Started
<1>2. Typed /\ Kept /\ Keeps(j) /\ fds \in FdTriples
  BY <1>1, FdsTyped DEF FInv, CInv, Kept, Keeps
<1>3. \A k \in Jobs : Keeps(k)' => Keeps(k) /\ k # j
  BY <1>1 DEF Keeps
<1>4. ASSUME NEW k \in Jobs, Keeps(k)'
      PROVE  fds.in \notin Used(promise[k].fds) /\ fds.out \notin Used(promise[k].fds)
             /\ fds.err \notin Used(promise[k].fds)
  <2>1. Used(fds) \cap Used(promise[k].fds) = {}
    BY <1>2, <1>3, <1>4 DEF Kept, Disjoint
  <2>2. -1 \notin Used(promise[k].fds)
    BY DEF Used
  <2>3. \A f \in {fds.in, fds.out, fds.err} : f \in Used(fds) \/ f = -1
    BY <1>1, <1>2 DEF Used, FdTriples
  <2> QED
    BY <2>1, <2>2, <2>3
<1>5. fdt \in Tables /\ \A k \in Jobs : promise[k].fds \in FdTriples
  BY <1>2, FdsTyped DEF Typed
<1> DEFINE one == Close(fdt, fds.in)
           two == Close(one, fds.out)
<1>6. one \in Tables /\ two \in Tables
  BY <1>5, CloseTyped
<1>7. fdt' = Close(two, fds.err)
  BY <1>1
<1> HIDE DEF fds, one, two
<1>8. ASSUME NEW k \in Jobs, Keeps(k)' PROVE Holds(fdt', k, promise[k].fds)
  <2>1. Holds(fdt, k, promise[k].fds)
    BY <1>2, <1>3, <1>8 DEF Kept
  <2>2. Holds(one, k, promise[k].fds)
    BY <1>1, <1>4, <1>5, <1>8, <2>1, CloseHolds DEF one
  <2>3. Holds(two, k, promise[k].fds)
    BY <1>1, <1>4, <1>5, <1>6, <1>8, <2>2, CloseHolds DEF two
  <2> QED
    BY <1>1, <1>4, <1>5, <1>6, <1>7, <1>8, <2>3, CloseHolds
<1>9. Streams(fdt')
  <2>1. NoFds \in FdTriples /\ Used(NoFds) = {}
    BY ConstantsTyped DEF Used, NoFds
  <2>2. Streams(one)
    BY <1>1, <1>2, <1>5, <2>1, CloseHolds DEF one, Kept
  <2>3. Streams(two)
    BY <1>1, <1>6, <2>1, <2>2, CloseHolds DEF two
  <2> QED
    BY <1>1, <1>6, <1>7, <2>1, <2>3, CloseHolds
<1>10. ~Starting'
  BY <1>1 DEF Starting, call
<1> QED
  BY <1>1, <1>3, <1>8, <1>9, <1>10, NoMoreKept

LEMMA AskKeeps == ASSUME FInv, NEW j \in Jobs, Ask(j) PROVE Kept'
<1> SUFFICES ASSUME careful PROVE Kept'
  BY DEF Kept, Ask, Finished, NeverRan, GetResult, Free
<1>1. CASE Finished(j)
  <2>1. /\ pc = "idle" /\ promise[j].pid > 0 /\ reported' = reported \cup {j}
        /\ UNCHANGED <<careful, fdt, promise, result, pc, freed>>
    BY <1>1 DEF Finished, Started, call
  <2>2. ~Starting' /\ Kept /\ \A k \in Jobs : Keeps(k)' <=> Keeps(k)
    BY <2>1 DEF Starting, FInv, Keeps
  <2> QED
    BY <2>1, <2>2 DEF Kept
<1>2. CASE NeverRan(j) \/ GetResult(j)
  <2>1. UNCHANGED <<careful, fdt, promise, reported, freed>> /\ ~Starting'
    BY <1>2 DEF NeverRan, GetResult, Started, Starting, call
  <2>2. \A k \in Jobs : Keeps(k)' => Keeps(k)
    <3>1. CASE NeverRan(j)
      <4>1. ~(promise[j].pid > 0)
        BY <3>1, PidOfProcess DEF NeverRan, FInv, CInv
      <4>2. \A k \in Jobs \ {j} : result'[k] = result[k]
        BY <3>1 DEF NeverRan, Record, FInv, CInv, Typed
      <4> QED
        BY <2>1, <4>1, <4>2 DEF Keeps
    <3>2. CASE GetResult(j)
      BY <2>1, <3>2 DEF GetResult, Keeps
    <3> QED
      BY <1>2, <3>1, <3>2
  <2> QED
    BY <2>1, <2>2, NoMoreKept DEF FInv, Kept
<1>3. CASE Free(j)
  BY <1>3, FreeKeeps
<1> QED
  BY <1>1, <1>2, <1>3 DEF Ask

LEMMA StepKeeps == ASSUME FInv, [Next]_vars PROVE FInv'
<1>1. CInv'
  BY StepMatches DEF FInv
<1>2. ASSUME UNCHANGED <<careful, fdt, promise, result, call, reported, freed>> PROVE Kept'
  BY <1>2 DEF FInv, Kept, Keeps, Starting, call
<1>3. ASSUME NEW p \in Pids, Child(p) PROVE Kept'
  BY <1>2, <1>3 DEF Child, DupIn, DupOut, DupErr, Dup, Exec, End
<1>4. CASE UNCHANGED vars
  BY <1>1, <1>4 DEF FInv, Kept, Keeps, Starting, vars, call
<1> QED
  BY <1>1, <1>3, <1>4, StartKeeps, MakeKeeps, ForkKeeps, FailKeeps, WaitKeeps, AskKeeps
     DEF FInv, Next, Proceed

\* While a job of a careful program lives nobody closes its input or uses its descriptor
\* again, and the program keeps its own streams (the closes of free_process_promise and
\* process_getresult, and mkstemp, which takes the lowest descriptor that is free).
THEOREM InputsAreKept == Spec => []FilesKept
<1>1. Init => FInv
  <2> SUFFICES ASSUME Init PROVE FInv
    OBVIOUS
  <2>1. /\ \A j \in Jobs : promise[j].pid = -1
        /\ reported = {} /\ ~Starting
    BY DEF Init, NotStarted, Starting
  <2>2. Streams(fdt)
    BY ConstantsTyped DEF Init, Streams
  <2> QED
    BY <2>1, <2>2, InitMatches DEF FInv, Kept, Keeps
<1>2. FInv => FilesKept
  <2> SUFFICES ASSUME FInv, careful PROVE FilesKept
    BY DEF FilesKept
  <2>1. ASSUME NEW j \in Jobs, promise[j].pid > 0, Fresh(j), promise[j].fds.in \in Fds
        PROVE  fdt[promise[j].fds.in] \in {<<j, "in">>, UserFile}
    BY <2>1 DEF FInv, Kept, Keeps, Fresh, Holds
  <2> QED
    BY <2>1 DEF FInv, Kept, Streams, FilesKept
<1> QED
  BY <1>1, <1>2, StepKeeps, PTL DEF Spec

-----------------------------------------------------------------------------
(* The streams of a command.                                               *)

From(table, f, own) == IF f \in Fds THEN table[f] ELSE table[own]

\* What is done so far is what was asked for, and the rest still can be.
Staged(c) ==
  /\ c.at = "in" => c.asked[1] = From(c.fdt, c.fds.in, 0)
  /\ c.at \in {"out", "err", "exec", "run"} => c.asked[1] = c.fdt[0]
  /\ c.fds.out # 0 => /\ c.at \in {"in", "out"} => c.asked[2] = From(c.fdt, c.fds.out, 1)
                      /\ c.at \in {"err", "exec", "run"} => c.asked[2] = c.fdt[1]
  /\ c.fds.err \notin {0, 1} =>
       /\ c.at \in {"in", "out", "err"} => c.asked[3] = From(c.fdt, c.fds.err, 2)
       /\ c.at \in {"exec", "run"} => c.asked[3] = c.fdt[2]

RInv == Typed /\ \A p \in Pids : Staged(children[p])

LEMMA TableAfterDup ==
  ASSUME NEW table \in Tables, NEW from \in -1..MaxFd, NEW to \in {0, 1, 2}, NEW after,
         \/ from <= to /\ after = table
         \/ from > to /\ after = [table EXCEPT ![to] = table[from]]
  PROVE  /\ from > to \/ from = to \/ from = -1 => after[to] = From(table, from, to)
         /\ \A f \in Fds \ {to} : after[f] = table[f]
<1>1. to \in Fds /\ -1 \notin Fds /\ (from \in Fds <=> from >= 0)
  BY ConstantsAssumption DEF Fds
<1>2. CASE from > to /\ after = [table EXCEPT ![to] = table[from]]
  BY <1>1, <1>2 DEF Tables, From
<1>3. CASE from <= to /\ after = table
  BY <1>1, <1>3 DEF From
<1> QED
  BY <1>2, <1>3

LEMMA DupStages ==
  ASSUME Typed, NEW p \in Pids, Staged(children[p]), DupIn(p) \/ DupOut(p) \/ DupErr(p)
  PROVE  Staged(children'[p])
<1> DEFINE c == children[p]
           d == children'[p]
<1>1. /\ c.fds.in \in -1..MaxFd /\ c.fds.out \in -1..MaxFd /\ c.fds.err \in -1..MaxFd
      /\ c.fdt \in Tables
  BY DEF Typed, Process, FdTriples
<1>2. {0, 1, 2} \subseteq Fds
  BY ConstantsTyped
<1>3. ASSUME Exit(p, 1) PROVE Staged(d)
  <2>1. d.at = "zombie"
    BY <1>3, ExitMoves, ConstantsTyped DEF Moved
  <2> QED
    BY <2>1 DEF Staged
<1>4. ASSUME c.at = "in", Redirected(p, c.fds.in, 0, "out") PROVE Staged(d)
  <2>1. d.at = "out" /\ d.fds = c.fds /\ d.asked = c.asked
    BY <1>4 DEF Redirected, Moved
  <2>2. d.fdt[0] = From(c.fdt, c.fds.in, 0) /\ \A f \in Fds \ {0} : d.fdt[f] = c.fdt[f]
    BY <1>1, <1>4, TableAfterDup DEF Redirected
  <2> HIDE DEF d, c
  <2>3. /\ c.fds.out # 0 => From(d.fdt, c.fds.out, 1) = From(c.fdt, c.fds.out, 1)
        /\ c.fds.err # 0 => From(d.fdt, c.fds.err, 2) = From(c.fdt, c.fds.err, 2)
    BY <1>2, <2>2 DEF From
  <2>4. Staged(c)
    BY DEF c
  <2> QED
    BY <1>4, <2>1, <2>2, <2>3, <2>4 DEF Staged
<1>5. ASSUME c.at = "out", Redirected(p, c.fds.out, 1, "err") PROVE Staged(d)
  <2>1. d.at = "err" /\ d.fds = c.fds /\ d.asked = c.asked
    BY <1>5 DEF Redirected, Moved
  <2>2. /\ c.fds.out # 0 => d.fdt[1] = From(c.fdt, c.fds.out, 1)
        /\ \A f \in Fds \ {1} : d.fdt[f] = c.fdt[f]
    BY <1>1, <1>5, TableAfterDup DEF Redirected
  <2> HIDE DEF d, c
  <2>3. c.fds.err # 1 => From(d.fdt, c.fds.err, 2) = From(c.fdt, c.fds.err, 2)
    BY <1>2, <2>2 DEF From
  <2>4. Staged(c)
    BY DEF c
  <2> QED
    BY <1>2, <1>5, <2>1, <2>2, <2>3, <2>4 DEF Staged
<1>6. ASSUME c.at = "err", Redirected(p, c.fds.err, 2, "exec") PROVE Staged(d)
  <2>1. d.at = "exec" /\ d.fds = c.fds /\ d.asked = c.asked
    BY <1>6 DEF Redirected, Moved
  <2>2. /\ c.fds.err \notin {0, 1} => d.fdt[2] = From(c.fdt, c.fds.err, 2)
        /\ \A f \in Fds \ {2} : d.fdt[f] = c.fdt[f]
    BY <1>1, <1>6, TableAfterDup DEF Redirected
  <2> HIDE DEF d, c
  <2>3. Staged(c)
    BY DEF c
  <2> QED
    BY <1>2, <1>6, <2>1, <2>2, <2>3 DEF Staged
<1>7. CASE DupIn(p)
  BY <1>1, <1>3, <1>4, <1>7, DupMoves DEF DupIn, Dup, Places
<1>8. CASE DupOut(p)
  BY <1>1, <1>3, <1>5, <1>8, DupMoves DEF DupOut, Dup, Places
<1>9. CASE DupErr(p)
  BY <1>1, <1>3, <1>6, <1>9, DupMoves DEF DupErr, Dup, Places
<1> QED
  BY <1>7, <1>8, <1>9

LEMMA ChildStages == ASSUME RInv, NEW p \in Pids, Child(p) PROVE RInv'
<1>1. Typed' /\ \A q \in Pids \ {p} : children'[q] = children[q]
  BY ChildTyped, ChildLives DEF RInv, Typed, Lives, Moved
<1>2. ASSUME NEW status \in Statuses, Exit(p, status) PROVE Staged(children'[p])
  <2>1. children'[p].at = "zombie"
    BY <1>2, ExitMoves DEF RInv, Moved
  <2> QED
    BY <2>1 DEF Staged
<1>3. ASSUME children[p].at = "exec", children' = [children EXCEPT ![p].at = "run"]
      PROVE  Staged(children'[p])
  <2> DEFINE moved == [children[p] EXCEPT !.at = "run"]
  <2>1. /\ moved.at = "run" /\ moved.fds = children[p].fds /\ moved.asked = children[p].asked
        /\ moved.fdt = children[p].fdt
    BY DEF RInv, Typed, Process
  <2>2. children'[p] = moved
    BY <1>3 DEF RInv, Typed
  <2> HIDE DEF moved
  <2> QED
    BY <1>3, <2>1, <2>2 DEF RInv, Staged
<1>4. Staged(children'[p])
  BY <1>2, <1>3, DupStages, ConstantsTyped DEF RInv, Child, Exec, End
<1> QED
  BY <1>1, <1>4 DEF RInv

LEMMA StepStages == ASSUME RInv, [Next]_vars PROVE RInv'
<1>1. Typed'
  BY StepTyped DEF RInv
<1>2. CASE UNCHANGED children
  BY <1>1, <1>2 DEF RInv
<1>3. ASSUME NEW p \in Pids, Fork(p) PROVE RInv'
  <2> DEFINE child == [at |-> "in", job |-> job, fds |-> args, fdt |-> fdt,
               asked |-> <<Asked(args.in, 0), Asked(args.out, 1), Asked(args.err, 2)>>,
               status |-> 0]
  <2>1. Staged(child)
    BY DEF Staged, From, Asked
  <2>2. children' = [children EXCEPT ![p] = child]
    BY <1>3 DEF Fork
  <2> HIDE DEF child
  <2> QED
    BY <1>1, <2>1, <2>2 DEF RInv, Typed
<1>4. ASSUME NEW p \in Pids, Reap(p) PROVE RInv'
  <2>1. Staged(NoChild)
    BY DEF Staged, NoChild
  <2> QED
    BY <1>1, <1>4, <2>1 DEF RInv, Reap, Typed
<1>5. CASE Waited
  BY <1>4, <1>5 DEF Waited, RInv, Typed, CallTyped
<1>6. ASSUME NEW j \in Jobs, Finished(j) PROVE RInv'
  BY <1>4, <1>6, PidOfProcess DEF Finished, RInv
<1>7. ASSUME NEW j \in Jobs, Start(j) \/ NeverRan(j) \/ GetResult(j) \/ Free(j) PROVE UNCHANGED children
  BY <1>7 DEF Start, RunAsync, RunX, NeverRan, GetResult, Free
<1>8. CASE MakeIn \/ MakeOut \/ MkstempFails \/ ForkFails \/ WaitFails \/ UNCHANGED vars
  BY <1>2, <1>8 DEF MakeIn, MakeOut, MkstempFails, ForkFails, WaitFails, vars
<1> QED
  BY <1>2, <1>3, <1>5, <1>6, <1>7, <1>8, ChildStages DEF Next, Proceed, Ask

\* Every command has the input and the outputs that were asked for it, the program
\* having been careful or not (run_async_x of subprocess.c, the child's side).
THEOREM StreamsAsAsked == Spec => []RedirectionsHold
<1>1. Init => RInv
  <2> SUFFICES ASSUME Init PROVE RInv
    OBVIOUS
  <2>1. \A p \in Pids : children[p].at = "none"
    BY DEF Init, NoChild
  <2> QED
    BY <2>1, InitTyped DEF RInv, Staged
<1>2. RInv => RedirectionsHold
  BY DEF RInv, Staged, RedirectionsHold
<1> QED
  BY <1>1, <1>2, StepStages, PTL DEF Spec

=============================================================================
