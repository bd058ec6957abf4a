------------------------------ MODULE Prefork ------------------------------
(* The prefork server of minuted/minuted.c: one master process that forks,  *)
(* counts, signals and reaps children, and children that take turns at      *)
(* poll() and accept() under one POSIX semaphore and report to the master   *)
(* through one bounded POSIX message queue.                                 *)
(*                                                                          *)
(* One action is one system call with the code up to the next one.  A       *)
(* signal is posted by kill() (`pend') and handled later, when the target   *)
(* may be blocked in a call that then returns EINTR, because none of the    *)
(* handlers is installed with SA_RESTART.                                   *)
EXTENDS Integers, Sequences, FiniteSets

CONSTANTS
    Pids,       \* process ids; a reaped id may be used again by fork()
    Listeners,  \* indices of rs->ssocks, scanned in increasing order
    InitForks,  \* init_forks
    MinSpares,  \* min_spares
    MaxSpares,  \* max_spares
    MaxForks,   \* max_forks, the size of forks.pids
    MaxMsg,     \* mq_maxmsg of the message queue
    Logging,    \* whether requests being served write to the log
    MaxConns,   \* bound: connections that clients open
    MaxFaults   \* bound: failed accepts, failed forks, poll errors, crashes

ASSUME PreforkAssumption ==
    /\ Listeners \subseteq Nat
    /\ MaxForks \in Nat /\ InitForks \in 0..MaxForks
    /\ MinSpares \in Nat /\ MaxSpares \in Nat
    /\ MaxMsg \in Nat \ {0}
    /\ Logging \in BOOLEAN
    /\ MaxConns \in Nat /\ MaxFaults \in Nat

VARIABLES
    \* kernel objects
    sem,        \* value of the semaphore
    queue,      \* the message queue
    pending,    \* connections waiting on each listener
    \* children
    pc,         \* where each process is in minuted_serve_processor
    hup,        \* its sighup_flag
    pend,       \* signals posted to it and not handled yet
    late,       \* forked after the SIGTERM handler of the master was installed
    ready,      \* listeners with revents set that the for loop has yet to visit
    sock,       \* what its last accept() returned
    \* master
    mpc,        \* where the master is in minuted_serve_prefork
    stop,       \* sighup_flag or sigterm_flag of the master
    forks,      \* forks.pids[0 .. active-1]
    serving,    \* the counter `serving'
    todo,       \* children the final waitpid loop has yet to wait for
    \* bounds and history
    arrivals,   \* connections opened so far
    faults,     \* faults so far
    drift,      \* messages `a' without a connection, or never matched by a `c'
    surplus     \* whether a child has been told to go because too many were spare

kernel == <<sem, queue, pending>>
child  == <<pc, hup, pend, late, ready, sock>>
master == <<mpc, stop, forks, serving, todo>>
bounds == <<arrivals, faults, drift, surplus>>
vars   == <<sem, queue, pending, pc, hup, pend, late, ready, sock,
            mpc, stop, forks, serving, todo, arrivals, faults, drift, surplus>>

Zombie  == {"exit0", "exit4", "signaled"}
Running == {"loop", "wait", "poll", "accept", "post", "sendA", "serve", "sendC"}
ChildPC == {"none"} \cup Running \cup Zombie
Shutdown == {"drain", "drainwait", "waitpid", "done"}
MasterPC == {"boot", "top", "wait", "recv"} \cup Shutdown
Sock     == {"none", "ok", "again", "err"}
Message  == [type : {"a", "c", "log"}, from : Pids]

Zombies == {p \in Pids : pc[p] \in Zombie}
\* Children between the return of sem_wait and the sem_post of their turn.
InTurn  == {p \in Pids : pc[p] \in {"poll", "accept", "post"}}
\* Children that hold a connection.
Busy    == {p \in Pids : pc[p] \in {"serve", "sendC"}}
Active  == Cardinality(forks)

Fault == faults < MaxFaults /\ faults' = faults + 1

---------------------------------------------------------------------------
(* Signals and system calls that several actions share.                    *)

Send(type, p) == /\ Len(queue) < MaxMsg
                 /\ queue' = Append(queue, [type |-> type, from |-> p])

\* SIGCHLD of q reaches the master.  A handler that runs while the master is
\* blocked makes the call return EINTR; one that runs before the master is in
\* the call has no effect.  The final waitpid is blocked on some child r that
\* is still running.
Sigchld(q) ==
    /\ UNCHANGED <<stop, forks, serving>>
    /\ \/ UNCHANGED <<mpc, todo>>
       \/ mpc = "recv" /\ queue = <<>> /\ mpc' = "top" /\ UNCHANGED todo
       \/ mpc = "drain" /\ queue = <<>> /\ mpc' = "drainwait" /\ UNCHANGED todo
       \/ /\ mpc = "waitpid"
          /\ \E r \in todo \ (Zombies \cup {q}) : todo' = todo \ {r}
          /\ UNCHANGED mpc

\* p stops being a running process with the given wait status.
Exit(p, status) ==
    /\ pc' = [pc EXCEPT ![p] = status]
    /\ hup' = [hup EXCEPT ![p] = FALSE]
    /\ pend' = [pend EXCEPT ![p] = {}]
    /\ ready' = [ready EXCEPT ![p] = {}]
    /\ sock' = [sock EXCEPT ![p] = "none"]
    /\ UNCHANGED late
    /\ Sigchld(p)

\* A mutant of Replace: a reaped child stays in the table.
ReplaceKeeps(gone, new, isLate) ==
    /\ forks' = forks \cup new
    /\ pc' = [x \in Pids |-> IF x \in new THEN "loop"
                             ELSE IF x \in gone THEN "none" ELSE pc[x]]
    /\ hup' = [x \in Pids |-> IF x \in new THEN stop = "hup" ELSE hup[x]]
    /\ late' = [x \in Pids |-> IF x \in new THEN isLate ELSE late[x]]
    /\ UNCHANGED <<pend, ready, sock>>

\* Children in `gone' are reaped and dropped from the table, those in `new'
\* are forked; a forked child inherits the sighup_flag of the master.
Replace(gone, new, isLate) ==
    /\ forks' = (forks \ gone) \cup new
    /\ pc' = [x \in Pids |-> IF x \in new THEN "loop"
                             ELSE IF x \in gone THEN "none" ELSE pc[x]]
    /\ hup' = [x \in Pids |-> IF x \in new THEN stop = "hup" ELSE hup[x]]
    /\ late' = [x \in Pids |-> IF x \in new THEN isLate ELSE late[x]]
    /\ UNCHANGED <<pend, ready, sock>>

\* minuted_fork with `gone' already taken out of the table: no child when the
\* table is full or fork() fails, else any free process id.
Fork(gone, isLate) ==
    IF Cardinality(forks \ gone) >= MaxForks
    THEN Replace(gone, {}, isLate) /\ UNCHANGED faults
    ELSE \/ Replace(gone, {}, isLate) /\ Fault
         \/ /\ \E q \in Pids : /\ pc[q] = "none" \/ q \in gone
                               /\ Replace(gone, {q}, isLate)
            /\ UNCHANGED faults

---------------------------------------------------------------------------
(* minuted_serve_processor                                                 *)

Goto(p, from, to) == pc[p] = from /\ pc' = [pc EXCEPT ![p] = to]

\* while(!sighup_flag)
LoopTest(p) ==
    /\ pc[p] = "loop"
    /\ \/ ~hup[p] /\ Goto(p, "loop", "wait")
          /\ UNCHANGED <<hup, pend, late, ready, sock, master>>
       \/ hup[p] /\ Exit(p, "exit0")
    /\ UNCHANGED <<kernel, bounds>>

\* A mutant of SemWait: it does not wait.
SemTake(p) ==
    /\ Goto(p, "wait", "poll")
    /\ sem' = sem - 1
    /\ UNCHANGED <<queue, pending, hup, pend, late, ready, sock, master, bounds>>

SemWait(p) ==
    /\ Goto(p, "wait", "poll")
    /\ sem > 0
    /\ sem' = sem - 1
    /\ UNCHANGED <<queue, pending, hup, pend, late, ready, sock, master, bounds>>

\* poll() returns the listeners that have a connection waiting.
PollReady(p) ==
    /\ Goto(p, "poll", "accept")
    /\ \E l \in Listeners : pending[l] > 0
    /\ ready' = [ready EXCEPT ![p] = {l \in Listeners : pending[l] > 0}]
    /\ UNCHANGED <<kernel, hup, pend, late, sock, master, bounds>>

\* A mutant of PollTimeout: the turn is not given back.
PollTimeoutNoPost(p) ==
    /\ Goto(p, "poll", "loop")
    /\ \A l \in Listeners : pending[l] = 0
    /\ UNCHANGED <<kernel, hup, pend, late, ready, sock, master, bounds>>

PollTimeout(p) ==
    /\ Goto(p, "poll", "loop")
    /\ \A l \in Listeners : pending[l] = 0
    /\ sem' = sem + 1
    /\ UNCHANGED <<queue, pending, hup, pend, late, ready, sock, master, bounds>>

PollError(p) ==
    /\ pc[p] = "poll"
    /\ sem' = sem + 1
    /\ Exit(p, "exit4")
    /\ Fault
    /\ UNCHANGED <<queue, pending, arrivals, drift, surplus>>

\* The listener the for loop is at.
At(p, l) == pc[p] = "accept" /\ l \in ready[p] /\ \A m \in ready[p] : l <= m

\* The listening sockets block: accept() waits while nothing is pending.
AcceptOk(p, l) ==
    /\ At(p, l)
    /\ pending[l] > 0
    /\ pending' = [pending EXCEPT ![l] = @ - 1]
    /\ Goto(p, "accept", "post")
    /\ ready' = [ready EXCEPT ![p] = {}]
    /\ sock' = [sock EXCEPT ![p] = "ok"]
    /\ UNCHANGED <<sem, queue, hup, pend, late, master, bounds>>

\* An error that is neither EAGAIN nor EINTR; the connection may be gone
\* (ECONNABORTED) or still wait (EMFILE).
AcceptError(p, l) ==
    /\ At(p, l)
    /\ Fault
    /\ \/ UNCHANGED pending
       \/ pending[l] > 0 /\ pending' = [pending EXCEPT ![l] = @ - 1]
    /\ Goto(p, "accept", "post")
    /\ ready' = [ready EXCEPT ![p] = @ \ {l}]
    /\ sock' = [sock EXCEPT ![p] = "err"]
    /\ UNCHANGED <<sem, queue, hup, pend, late, master, arrivals, drift, surplus>>

SemPost(p) ==
    /\ Goto(p, "post", "sendA")
    /\ sem' = sem + 1
    /\ UNCHANGED <<queue, pending, hup, pend, late, ready, sock, master, bounds>>

\* Where the body of the for loop goes once `a' is sent (or lost): serve the
\* connection, leave the loop on EAGAIN or EINTR, or try the next listener.
AfterAccepted(p) == IF sock[p] = "ok" THEN "serve"
                    ELSE IF sock[p] = "err" /\ ready[p] # {} THEN "accept"
                    ELSE "loop"

\* minuted_accepted(): sent whatever accept() returned.
SendAccepted(p) ==
    /\ Goto(p, "sendA", AfterAccepted(p))
    /\ Send("a", p)
    /\ sock' = [sock EXCEPT ![p] = "none"]
    /\ drift' = drift + (IF sock[p] = "ok" THEN 0 ELSE 1)
    /\ UNCHANGED <<sem, pending, hup, pend, late, ready, master, arrivals, faults, surplus>>

\* minuted_tap_handle() returns, the connection is closed.
Served(p) ==
    /\ Goto(p, "serve", "sendC")
    /\ UNCHANGED <<kernel, hup, pend, late, ready, sock, master, bounds>>

\* A log line of the request being served goes through the same queue.
Log(p) ==
    /\ Logging
    /\ pc[p] = "serve"
    /\ Send("log", p)
    /\ UNCHANGED <<sem, pending, child, master, bounds>>

\* minuted_closed()
SendClosed(p) ==
    /\ Goto(p, "sendC", "loop")
    /\ Send("c", p)
    /\ UNCHANGED <<sem, pending, hup, pend, late, ready, sock, master, bounds>>

\* The application crashes while it serves a connection.
Crash(p) ==
    /\ pc[p] = "serve"
    /\ Fault
    /\ Exit(p, "signaled")
    /\ drift' = drift + 1
    /\ UNCHANGED <<kernel, arrivals, surplus>>

---------------------------------------------------------------------------
(* Signal handlers of a child                                              *)

\* A handler has run: the call that p was blocked in, if it was already
\* blocked, returns EINTR.  sem_wait and poll go round the loop, accept breaks
\* out of the for loop, mq_send loses its message.
Interrupt(p) ==
    \/ UNCHANGED <<pc, ready, sock, drift>>
    \/ /\ sem = 0 /\ Goto(p, "wait", "loop")
       /\ UNCHANGED <<ready, sock, drift>>
    \/ /\ Goto(p, "poll", "loop")
       /\ \A l \in Listeners : pending[l] = 0
       /\ UNCHANGED <<ready, sock, drift>>
    \/ /\ \E l \in Listeners : At(p, l) /\ pending[l] = 0
       /\ Goto(p, "accept", "post")
       /\ ready' = [ready EXCEPT ![p] = {}]
       /\ sock' = [sock EXCEPT ![p] = "again"]
       /\ UNCHANGED drift
    \/ /\ Len(queue) = MaxMsg
       /\ Goto(p, "sendA", AfterAccepted(p))
       /\ sock' = [sock EXCEPT ![p] = "none"]
       /\ drift' = drift - (IF sock[p] = "ok" THEN 1 ELSE 0)
       /\ UNCHANGED ready
    \/ /\ Len(queue) = MaxMsg
       /\ Goto(p, "sendC", "loop")
       /\ drift' = drift + 1
       /\ UNCHANGED <<ready, sock>>

\* The handler sighup.
HandleHup(p) ==
    /\ pc[p] \in Running
    /\ "hup" \in pend[p]
    /\ pend' = [pend EXCEPT ![p] = @ \ {"hup"}]
    /\ hup' = [hup EXCEPT ![p] = TRUE]
    /\ Interrupt(p)
    /\ UNCHANGED <<kernel, late, master, arrivals, faults, surplus>>

\* SIGTERM: the children of the first loop have the default action, the ones
\* forked later inherit the handler sigterm, whose flag they never read.  One
\* that waits for the semaphore has done so since the SIGHUP, five seconds ago,
\* so it is blocked there and is interrupted.
HandleTerm(p) ==
    /\ pc[p] \in Running
    /\ "term" \in pend[p]
    /\ \/ /\ late[p]
          /\ pend' = [pend EXCEPT ![p] = @ \ {"term"}]
          /\ Interrupt(p)
          /\ (pc[p] = "wait" /\ sem = 0) => pc'[p] = "loop"
          /\ UNCHANGED <<hup, late, master>>
       \/ ~late[p] /\ Exit(p, "signaled") /\ UNCHANGED drift
    /\ UNCHANGED <<kernel, arrivals, faults, surplus>>

\* kill(p, sig) for every p in P; nothing happens to one that has exited.
Kill(P, sig) == pend' = [x \in Pids |-> IF x \in P /\ pc[x] \in Running
                                        THEN pend[x] \cup {sig} ELSE pend[x]]

---------------------------------------------------------------------------
(* minuted_serve_prefork, the master                                       *)

\* The loop that forks init_forks children; the children wait, sem is still 0.
\* Each turn adds a child or a fault.
BootFork ==
    /\ mpc = "boot" /\ Active + faults < InitForks
    /\ Fork({}, FALSE)
    /\ UNCHANGED <<kernel, mpc, stop, serving, todo, arrivals, drift, surplus>>

\* A mutant of BootDone: the semaphore is opened for every child.
BootDoneAll ==
    /\ mpc = "boot" /\ Active + faults >= InitForks
    /\ mpc' = "top"
    /\ sem' = sem + Active
    /\ UNCHANGED <<queue, pending, child, stop, forks, serving, todo, bounds>>

\* The other handlers are installed and the semaphore is opened.
BootDone ==
    /\ mpc = "boot" /\ Active + faults >= InitForks
    /\ mpc' = "top"
    /\ sem' = sem + 1
    /\ UNCHANGED <<queue, pending, child, stop, forks, serving, todo, bounds>>

\* while(!sighup_flag && !sigterm_flag); once a flag is set every child in the
\* table is sent SIGHUP.
Top ==
    /\ mpc = "top"
    /\ IF stop = "none"
       THEN mpc' = "wait" /\ UNCHANGED pend
       ELSE mpc' = "drain" /\ Kill(forks, "hup")
    /\ UNCHANGED <<kernel, pc, hup, late, ready, sock, stop, forks, serving, todo, bounds>>

\* A mutant of Reap: restarts are allowed in the shutdown too.
ReapRestarts(p) ==
    /\ mpc \in {"wait", "drainwait"}
    /\ p \in forks /\ pc[p] \in Zombie
    /\ IF pc[p] # "exit0"
       THEN Fork({p}, TRUE)
       ELSE Replace({p}, {}, TRUE) /\ UNCHANGED faults
    /\ UNCHANGED <<kernel, mpc, stop, serving, todo, arrivals, drift, surplus>>

\* One turn of the loop of minuted_wait: a child that did not exit with 0 is
\* replaced, unless the master is shutting down.
Reap(p) ==
    /\ mpc \in {"wait", "drainwait"}
    /\ p \in forks /\ pc[p] \in Zombie
    /\ IF mpc = "wait" /\ pc[p] # "exit0"
       THEN Fork({p}, TRUE)
       ELSE Replace({p}, {}, TRUE) /\ UNCHANGED faults
    /\ UNCHANGED <<kernel, mpc, stop, serving, todo, arrivals, drift, surplus>>

\* waitpid finds nothing more: on to mq_receive, or out of the drain loop.
WaitDone ==
    /\ mpc \in {"wait", "drainwait"}
    /\ forks \cap Zombies = {}
    /\ mpc' = IF mpc = "wait" THEN "recv"
              ELSE IF forks = {} THEN "done" ELSE "drain"
    /\ UNCHANGED <<kernel, child, stop, forks, serving, todo, bounds>>

Receive(type) == queue # <<>> /\ Head(queue).type = type /\ queue' = Tail(queue)

\* A mutant of OnAccepted: the spares are counted before the new one serves.
OnAcceptedEarly ==
    /\ mpc = "recv" /\ Receive("a")
    /\ serving' = serving + 1
    /\ IF Active - serving < MinSpares
       THEN Fork({}, TRUE)
       ELSE UNCHANGED <<child, forks, faults>>
    /\ mpc' = "top"
    /\ UNCHANGED <<sem, pending, stop, todo, arrivals, drift, surplus>>

\* 'a': one more is serving; fork one child if too few are spare.
OnAccepted ==
    /\ mpc = "recv" /\ Receive("a")
    /\ serving' = serving + 1
    /\ IF Active - (serving + 1) < MinSpares
       THEN Fork({}, TRUE)
       ELSE UNCHANGED <<child, forks, faults>>
    /\ mpc' = "top"
    /\ UNCHANGED <<sem, pending, stop, todo, arrivals, drift, surplus>>

\* A mutant of OnClosed: the counter is left alone when a child is told to go.
OnClosedUncounted ==
    /\ mpc = "recv" /\ Receive("c")
    /\ serving' = IF Active - (serving - 1) > MaxSpares THEN serving ELSE serving - 1
    /\ Kill(IF Active - (serving - 1) > MaxSpares THEN {Head(queue).from} ELSE {}, "hup")
    /\ surplus' = (surplus \/ Active - (serving - 1) > MaxSpares)
    /\ mpc' = "top"
    /\ UNCHANGED <<sem, pending, pc, hup, late, ready, sock, stop, forks, todo,
                   arrivals, faults, drift>>

\* 'c': one less; SIGHUP to its sender if too many are spare.
OnClosed ==
    /\ mpc = "recv" /\ Receive("c")
    /\ serving' = serving - 1
    /\ Kill(IF Active - (serving - 1) > MaxSpares THEN {Head(queue).from} ELSE {}, "hup")
    /\ surplus' = (surplus \/ Active - (serving - 1) > MaxSpares)
    /\ mpc' = "top"
    /\ UNCHANGED <<sem, pending, pc, hup, late, ready, sock, stop, forks, todo,
                   arrivals, faults, drift>>

OnLog ==
    /\ mpc = "recv" /\ Receive("log")
    /\ mpc' = "top"
    /\ UNCHANGED <<sem, pending, child, stop, forks, serving, todo, bounds>>

\* Shutdown: messages are thrown away, children are only waited for after a
\* log message or EINTR.
Drain ==
    /\ mpc = "drain"
    /\ \/ Receive("log") /\ mpc' = "drainwait"
       \/ /\ \E type \in {"a", "c"} : Receive(type)
          /\ mpc' = IF forks = {} THEN "done" ELSE "drain"
    /\ UNCHANGED <<sem, pending, child, stop, forks, serving, todo, bounds>>

\* A mutant of DrainTimeout: no SIGTERM before the last waitpid.
DrainTimeoutNoTerm ==
    /\ mpc = "drain" /\ queue = <<>>
    /\ \A p \in Pids : "hup" \notin pend[p] /\ (pc[p] = "wait" => sem = 0)
    /\ mpc' = IF forks = {} THEN "done" ELSE "waitpid"
    /\ todo' = forks
    /\ UNCHANGED <<kernel, child, stop, forks, serving, bounds>>

\* mq_timedreceive times out: SIGTERM to what is left, then wait for each.
\* Five seconds after the SIGHUPs every handler for them has run, and no child
\* has left an open semaphore untaken for that long.
DrainTimeout ==
    /\ mpc = "drain" /\ queue = <<>>
    /\ \A p \in Pids : "hup" \notin pend[p] /\ (pc[p] = "wait" => sem = 0)
    /\ mpc' = IF forks = {} THEN "done" ELSE "waitpid"
    /\ todo' = forks
    /\ Kill(forks, "term")
    /\ UNCHANGED <<kernel, pc, hup, late, ready, sock, stop, forks, serving, bounds>>

\* waitpid(forks.pids[i], 0, 0) for each i; see Sigchld for its EINTR.
FinalWait(p) ==
    /\ mpc = "waitpid" /\ p \in todo /\ pc[p] \in Zombie
    /\ todo' = todo \ {p}
    /\ pc' = [pc EXCEPT ![p] = "none"]
    /\ UNCHANGED <<kernel, hup, pend, late, ready, sock, mpc, stop, forks, serving, bounds>>

FinalDone ==
    /\ mpc = "waitpid" /\ todo = {}
    /\ mpc' = "done"
    /\ UNCHANGED <<kernel, child, stop, forks, serving, todo, bounds>>

---------------------------------------------------------------------------
(* The environment: clients, and the administrator's signal to the master. *)

Connect(l) ==
    /\ arrivals < MaxConns
    /\ arrivals' = arrivals + 1
    /\ pending' = [pending EXCEPT ![l] = @ + 1]
    /\ UNCHANGED <<sem, queue, child, master, faults, drift, surplus>>

\* SIGHUP, or SIGTERM and SIGINT, which are handled from the end of the boot.
Signal(s) ==
    /\ stop = "none" /\ mpc \notin Shutdown
    /\ mpc = "boot" => s = "hup"
    /\ stop' = s
    /\ \/ UNCHANGED mpc
       \/ mpc = "recv" /\ queue = <<>> /\ mpc' = "top"
    /\ UNCHANGED <<kernel, child, forks, serving, todo, bounds>>

---------------------------------------------------------------------------
Init ==
    /\ sem = 0
    /\ queue = <<>>
    /\ pending = [l \in Listeners |-> 0]
    /\ pc = [p \in Pids |-> "none"]
    /\ hup = [p \in Pids |-> FALSE]
    /\ pend = [p \in Pids |-> {}]
    /\ late = [p \in Pids |-> FALSE]
    /\ ready = [p \in Pids |-> {}]
    /\ sock = [p \in Pids |-> "none"]
    /\ mpc = "boot" /\ stop = "none"
    /\ forks = {} /\ serving = 0 /\ todo = {}
    /\ arrivals = 0 /\ faults = 0 /\ drift = 0 /\ surplus = FALSE

\* The steps a child takes by itself as long as it is scheduled.
Step(p) ==
    \/ LoopTest(p) \/ SemWait(p) \/ PollReady(p) \/ PollTimeout(p)
    \/ \E l \in Listeners : AcceptOk(p, l)
    \/ SemPost(p) \/ SendAccepted(p) \/ Served(p) \/ SendClosed(p)

Mishap(p) == PollError(p) \/ Crash(p) \/ \E l \in Listeners : AcceptError(p, l)

Handle(p) == HandleHup(p) \/ HandleTerm(p)

Master ==
    \/ BootFork \/ BootDone \/ Top \/ WaitDone
    \/ OnAccepted \/ OnClosed \/ OnLog
    \/ Drain \/ DrainTimeout \/ FinalDone
    \/ \E p \in Pids : Reap(p) \/ FinalWait(p)

Next ==
    \/ Master
    \/ \E p \in Pids : Step(p) \/ Mishap(p) \/ Handle(p) \/ Log(p)
    \/ \E l \in Listeners : Connect(l)
    \/ \E s \in {"hup", "term"} : Signal(s)

Spec == Init /\ [][Next]_vars

(* A process that is not stopped keeps running; a signal that is posted is   *)
(* handled; a connection that is served ends, which asks of its client and   *)
(* of the application that they let it (no timeout of the server does).      *)
(* Nothing is assumed of new clients, the administrator or the faults.       *)
FairSpec ==
    /\ Spec
    /\ WF_vars(Master)
    /\ \A p \in Pids : WF_vars(Step(p)) /\ WF_vars(Handle(p))

---------------------------------------------------------------------------
(* Properties                                                              *)

\* Every variable has its type; the semaphore is never below zero.
TypeOK ==
    /\ sem \in Nat
    /\ queue \in Seq(Message)
    /\ pending \in [Listeners -> Nat]
    /\ pc \in [Pids -> ChildPC]
    /\ hup \in [Pids -> BOOLEAN]
    /\ pend \in [Pids -> SUBSET {"hup", "term"}]
    /\ late \in [Pids -> BOOLEAN]
    /\ ready \in [Pids -> SUBSET Listeners]
    /\ sock \in [Pids -> Sock]
    /\ mpc \in MasterPC
    /\ stop \in {"none", "hup", "term"}
    /\ forks \subseteq Pids /\ todo \subseteq Pids
    /\ serving \in Int /\ drift \in Int
    /\ arrivals \in Nat /\ faults \in Nat /\ surplus \in BOOLEAN

\* At most one child is between the return of sem_wait and its sem_post, that
\* is, in poll() or accept(), as the comment on the semaphore asks for
\* (minuted.c:496-506); and while one is, the semaphore is closed.
OnePoller == /\ \A p, q \in InTurn : p = q
             /\ InTurn # {} => sem = 0
             /\ sem <= 1

\* The table of the master holds exactly the children that have been forked
\* and not been waited for (minuted_fork and minuted_wait), never more than it
\* has room for: nothing is forgotten by a restart, nothing is kept after exit.
TableIsChildren ==
    mpc \notin {"waitpid", "done"} =>
        /\ forks = {p \in Pids : pc[p] # "none"}
        /\ Active <= MaxForks

Count(type) == Cardinality({i \in DOMAIN queue : queue[i].type = type})

\* What the counter `serving' means: with the messages still in the queue it
\* is the number of children that hold a connection, but for the drift that
\* failed accepts, crashes and lost messages leave behind for good.
Ledger ==
    mpc \notin Shutdown =>
        serving + Count("a") - Count("c") = Cardinality(Busy) + drift

\* Once the master has left its loop no child is forked any more, not even for
\* one that crashed (the allowRestart argument of minuted_wait).
NoForkInShutdown ==
    [][(mpc \in Shutdown) =>
        (\A p \in Pids : pc'[p] # "none" => pc[p] # "none")]_vars

\* A connection that waits on a listener is accepted sooner or later, unless
\* the server is told to stop.  (Clients are finitely many here: a child takes
\* the lowest ready listener first, so endless clients of one starve the next.)
AcceptedEventually ==
    \A l \in Listeners : pending[l] > 0 ~> (pending[l] = 0 \/ stop # "none")

\* A shutdown that has begun comes to its end.
ShutdownCompletes == (mpc \in Shutdown) ~> (mpc = "done")

\* As long as nothing fails, a master that has handled every message has
\* min_spares children that serve nobody, or a full table (the rule of the
\* message 'a', minuted.c:582), up to the first time that it finds a child
\* surplus: one that was told to go still counts as active, and several `c' in
\* a row tell too many.
SparesKept ==
    mpc = "recv" /\ queue = <<>> /\ faults = 0 /\ ~surplus =>
        Active - serving >= MinSpares \/ Active = MaxForks

\* As long as the server runs, the semaphore is open or a child has its turn;
\* were it neither, no connection would ever be accepted again.  The code does
\* not keep this: poll() interrupted by SIGHUP skips the sem_post.
SemaphoreKept == mpc \notin Shutdown \cup {"boot"} => sem = 1 \/ InTurn # {}
====
