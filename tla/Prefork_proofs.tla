--------------------------- MODULE Prefork_proofs ---------------------------
(* Proofs about the prefork server, for every number of processes,          *)
(* listeners, messages, connections and faults: the turns at the semaphore, *)
(* the table of children and the shutdown first; then, as the master counts *)
(* from messages that lag behind, what the counter `serving' means (Ledger) *)
(* and how many spare children it keeps (SparesKept).                       *)
EXTENDS Prefork, FiniteSetTheorems, FunctionTheorems, TLAPS

USE PreforkAssumption

---------------------------------------------------------------------------
(* What the shared pieces of the actions do to the types.                   *)

\* The types of what a child owns.
ChildTypes ==
    /\ pc \in [Pids -> ChildPC]
    /\ hup \in [Pids -> BOOLEAN]
    /\ pend \in [Pids -> SUBSET {"hup", "term"}]
    /\ late \in [Pids -> BOOLEAN]
    /\ ready \in [Pids -> SUBSET Listeners]
    /\ sock \in [Pids -> Sock]

\* Reaping and forking keep the process table well typed.
LEMMA ReplaceTypes ==
    ASSUME TypeOK, NEW gone \in SUBSET Pids, NEW new \in SUBSET Pids,
           NEW isLate \in BOOLEAN, Replace(gone, new, isLate)
    PROVE  ChildTypes' /\ forks' \subseteq Pids
BY DEF TypeOK, ChildTypes, Replace, ChildPC, Running

\* minuted_fork keeps the process table well typed.
LEMMA ForkTypes ==
    ASSUME TypeOK, NEW gone \in SUBSET Pids, NEW isLate \in BOOLEAN,
           Fork(gone, isLate)
    PROVE  ChildTypes' /\ forks' \subseteq Pids /\ faults' \in Nat
<1>1. CASE Replace(gone, {}, isLate) /\ (UNCHANGED faults \/ Fault)
  BY <1>1, ReplaceTypes DEF TypeOK, Fault
<1>2. CASE \E q \in Pids : Replace(gone, {q}, isLate) /\ UNCHANGED faults
  BY <1>2, ReplaceTypes DEF TypeOK
<1>3. QED
  BY <1>1, <1>2 DEF Fork

\* An exit keeps the child and the master well typed.
LEMMA ExitTypes ==
    ASSUME TypeOK, NEW p \in Pids, NEW status \in Zombie, Exit(p, status)
    PROVE  /\ ChildTypes'
           /\ mpc' \in MasterPC /\ todo' \subseteq Pids
           /\ stop' = stop /\ forks' = forks /\ serving' = serving
<1>1. ChildTypes'
  BY DEF TypeOK, ChildTypes, Exit, Zombie, ChildPC, Sock
<1>2. mpc' \in MasterPC /\ todo' \subseteq Pids
  BY DEF TypeOK, Exit, Sigchld, MasterPC, Shutdown
<1>3. QED
  BY <1>1, <1>2 DEF Exit, Sigchld

\* An interrupted call keeps the child well typed.
LEMMA InterruptTypes ==
    ASSUME TypeOK, NEW p \in Pids, Interrupt(p)
    PROVE  /\ pc' \in [Pids -> ChildPC]
           /\ ready' \in [Pids -> SUBSET Listeners]
           /\ sock' \in [Pids -> Sock]
           /\ drift' \in Int
<1> USE DEF TypeOK, Goto, ChildPC, Running, Sock
<1>1. CASE UNCHANGED <<pc, ready, sock, drift>>
  BY <1>1
<1>2. CASE Goto(p, "wait", "loop") /\ UNCHANGED <<ready, sock, drift>>
  BY <1>2
<1>3. CASE Goto(p, "poll", "loop") /\ UNCHANGED <<ready, sock, drift>>
  BY <1>3
<1>4. CASE /\ Goto(p, "accept", "post")
           /\ ready' = [ready EXCEPT ![p] = {}]
           /\ sock' = [sock EXCEPT ![p] = "again"]
           /\ UNCHANGED drift
  BY <1>4
<1>5. CASE /\ Goto(p, "sendA", AfterAccepted(p))
           /\ sock' = [sock EXCEPT ![p] = "none"]
           /\ drift' = drift - (IF sock[p] = "ok" THEN 1 ELSE 0)
           /\ UNCHANGED ready
  BY <1>5 DEF AfterAccepted
<1>6. CASE /\ Goto(p, "sendC", "loop")
           /\ drift' = drift + 1
           /\ UNCHANGED <<ready, sock>>
  BY <1>6
<1>7. QED
  BY <1>1, <1>2, <1>3, <1>4, <1>5, <1>6 DEF Interrupt

---------------------------------------------------------------------------
(* Type correctness                                                        *)

\* Each step of a child by itself keeps the types.
LEMMA StepTypes == ASSUME TypeOK, NEW p \in Pids, Step(p) PROVE TypeOK'
<1> USE DEF TypeOK, Goto, kernel, child, master, bounds, ChildPC, Running, Sock
<1>1. CASE LoopTest(p)
  <2>1. CASE Goto(p, "loop", "wait") /\ UNCHANGED <<hup, pend, late, ready, sock, master>>
    BY <1>1, <2>1 DEF LoopTest
  <2>2. CASE Exit(p, "exit0")
    <3>1. ChildTypes' /\ mpc' \in MasterPC /\ todo' \subseteq Pids
          /\ stop' = stop /\ forks' = forks /\ serving' = serving
      BY <2>2, ExitTypes DEF Zombie
    <3>2. QED BY <1>1, <3>1 DEF LoopTest, ChildTypes
  <2>3. QED BY <1>1, <2>1, <2>2 DEF LoopTest
<1>2. CASE SemWait(p) BY <1>2 DEF SemWait
<1>3. CASE PollReady(p) BY <1>3 DEF PollReady
<1>4. CASE PollTimeout(p) BY <1>4 DEF PollTimeout
<1>5. CASE \E l \in Listeners : AcceptOk(p, l) BY <1>5 DEF AcceptOk
<1>6. CASE SemPost(p) BY <1>6 DEF SemPost
<1>7. CASE SendAccepted(p)
  <2>1. queue' \in Seq(Message) BY <1>7 DEF SendAccepted, Send, Message
  <2>2. drift' \in Int BY <1>7 DEF SendAccepted
  <2>3. QED BY <1>7, <2>1, <2>2 DEF SendAccepted, AfterAccepted
<1>8. CASE Served(p) BY <1>8 DEF Served
<1>9. CASE SendClosed(p)
  <2>1. queue' \in Seq(Message) BY <1>9 DEF SendClosed, Send, Message
  <2>2. QED BY <1>9, <2>1 DEF SendClosed
<1>10. QED
  BY <1>1, <1>2, <1>3, <1>4, <1>5, <1>6, <1>7, <1>8, <1>9 DEF Step

\* Faults, signal handlers and log messages keep the types.
LEMMA MishapTypes ==
    ASSUME TypeOK, NEW p \in Pids, Mishap(p) \/ Handle(p) \/ Log(p)
    PROVE  TypeOK'
<1> USE DEF TypeOK, Goto, kernel, child, master, bounds, ChildTypes
<1>1. CASE PollError(p)
  <2>1. ChildTypes' /\ mpc' \in MasterPC /\ todo' \subseteq Pids
        /\ stop' = stop /\ forks' = forks /\ serving' = serving
    BY <1>1, ExitTypes DEF PollError, Zombie
  <2>2. QED BY <1>1, <2>1 DEF PollError, Fault
<1>2. CASE Crash(p)
  <2>1. ChildTypes' /\ mpc' \in MasterPC /\ todo' \subseteq Pids
        /\ stop' = stop /\ forks' = forks /\ serving' = serving
    BY <1>2, ExitTypes DEF Crash, Zombie
  <2>2. QED BY <1>2, <2>1 DEF Crash, Fault
<1>3. CASE \E l \in Listeners : AcceptError(p, l)
  BY <1>3 DEF AcceptError, Fault, ChildPC, Running, Sock, At
<1>4. CASE HandleHup(p)
  BY <1>4, InterruptTypes DEF HandleHup
<1>5. CASE HandleTerm(p)
  <2>1. CASE Exit(p, "signaled") /\ UNCHANGED drift
    BY <1>5, <2>1, ExitTypes DEF HandleTerm, Zombie
  <2>2. CASE pend' = [pend EXCEPT ![p] = @ \ {"term"}] /\ Interrupt(p)
             /\ UNCHANGED <<hup, late, master>>
    BY <1>5, <2>2, InterruptTypes DEF HandleTerm
  <2>3. QED BY <1>5, <2>1, <2>2 DEF HandleTerm
<1>6. CASE Log(p)
  <2>1. queue' \in Seq(Message) BY <1>6 DEF Log, Send, Message
  <2>2. QED BY <1>6, <2>1 DEF Log
<1>7. QED
  BY <1>1, <1>2, <1>3, <1>4, <1>5, <1>6 DEF Mishap, Handle

\* Receiving leaves a queue of messages.
LEMMA ReceiveTypes ==
    ASSUME TypeOK, NEW type, Receive(type)
    PROVE  queue' \in Seq(Message) /\ Head(queue) \in Message
BY DEF TypeOK, Receive

\* kill() keeps the pending signals well typed.
LEMMA KillTypes ==
    ASSUME TypeOK, NEW P, NEW sig \in {"hup", "term"}, Kill(P, sig)
    PROVE  pend' \in [Pids -> SUBSET {"hup", "term"}]
BY DEF TypeOK, Kill

\* The steps of the master keep the types.
LEMMA MasterTypes == ASSUME TypeOK, Master PROVE TypeOK'
<1> USE DEF TypeOK, kernel, child, master, bounds, ChildTypes, MasterPC, Shutdown
<1>1. CASE BootFork BY <1>1, ForkTypes DEF BootFork
<1>2. CASE BootDone BY <1>2 DEF BootDone
<1>3. CASE Top BY <1>3, KillTypes DEF Top
<1>4. CASE WaitDone BY <1>4 DEF WaitDone
<1>5. CASE OnAccepted
  <2>1. queue' \in Seq(Message) BY <1>5, ReceiveTypes DEF OnAccepted
  <2>2. ChildTypes' /\ forks' \subseteq Pids /\ faults' \in Nat
    BY <1>5, ForkTypes DEF OnAccepted
  <2>3. QED BY <1>5, <2>1, <2>2 DEF OnAccepted
<1>6. CASE OnClosed
  <2>1. queue' \in Seq(Message) BY <1>6, ReceiveTypes DEF OnClosed
  <2>2. pend' \in [Pids -> SUBSET {"hup", "term"}] BY <1>6, KillTypes DEF OnClosed
  <2>3. QED BY <1>6, <2>1, <2>2 DEF OnClosed
<1>7. CASE OnLog
  <2>1. queue' \in Seq(Message) BY <1>7, ReceiveTypes DEF OnLog
  <2>2. QED BY <1>7, <2>1 DEF OnLog
<1>8. CASE Drain
  <2>1. queue' \in Seq(Message) BY <1>8, ReceiveTypes DEF Drain
  <2>2. QED BY <1>8, <2>1 DEF Drain
<1>9. CASE DrainTimeout
  <2>1. pend' \in [Pids -> SUBSET {"hup", "term"}] BY <1>9, KillTypes DEF DrainTimeout
  <2>2. QED BY <1>9, <2>1 DEF DrainTimeout
<1>10. CASE FinalDone BY <1>10 DEF FinalDone
<1>11. ASSUME NEW p \in Pids, Reap(p) PROVE TypeOK'
  <2>1. ChildTypes' /\ forks' \subseteq Pids /\ faults' \in Nat
    BY <1>11, ForkTypes, ReplaceTypes DEF Reap
  <2>2. QED BY <1>11, <2>1 DEF Reap
<1>12. ASSUME NEW p \in Pids, FinalWait(p) PROVE TypeOK'
  BY <1>12 DEF FinalWait, ChildPC
<1>13. QED
  BY <1>1, <1>2, <1>3, <1>4, <1>5, <1>6, <1>7, <1>8, <1>9, <1>10, <1>11, <1>12
  DEF Master

\* Every step keeps the types.
LEMMA TypeInductive == TypeOK /\ [Next]_vars => TypeOK'
<1> SUFFICES ASSUME TypeOK, [Next]_vars PROVE TypeOK'
  OBVIOUS
<1>1. CASE Next
  <2>1. CASE Master BY <2>1, MasterTypes
  <2>2. ASSUME NEW p \in Pids, Step(p) \/ Mishap(p) \/ Handle(p) \/ Log(p)
        PROVE  TypeOK'
    BY <2>2, StepTypes, MishapTypes
  <2>3. ASSUME NEW l \in Listeners, Connect(l) PROVE TypeOK'
    BY <2>3 DEF Connect, TypeOK, child, master
  <2>4. ASSUME NEW s \in {"hup", "term"}, Signal(s) PROVE TypeOK'
    BY <2>4 DEF Signal, TypeOK, kernel, child, bounds, MasterPC
  <2>5. QED BY <1>1, <2>1, <2>2, <2>3, <2>4 DEF Next
<1>2. CASE UNCHANGED vars
  BY <1>2 DEF vars, TypeOK
<1>3. QED BY <1>1, <1>2

LEMMA TypeInit == Init => TypeOK
<1>1. Init => surplus \in BOOLEAN
  BY Zenon DEF Init
<1>2. QED BY <1>1 DEF Init, TypeOK, ChildPC, MasterPC, Sock

\* The state of the server is well typed in every reachable state.
THEOREM TypeCorrect == Spec => []TypeOK
<1>1. QED BY TypeInit, TypeInductive, PTL DEF Spec

---------------------------------------------------------------------------
(* At most one child polls.  A child that closed the semaphore opens it     *)
(* once; the only way to a second accept() and a second sem_post goes       *)
(* through an accept error with another listener ready.                     *)

SingleTry == (\A l, m \in Listeners : l = m) \/ MaxFaults = 0

\* An accept error leaves no listener to try.
NoRetry == \A p \in Pids :
              pc[p] \in {"post", "sendA"} /\ sock[p] = "err" => ready[p] = {}

\* While the master is booting the semaphore is closed and nobody polls.
BootClosed == mpc = "boot" => sem = 0 /\ InTurn = {}

OnePollerInv == TypeOK /\ OnePoller /\ NoRetry /\ BootClosed

\* A step that opens no turn and leaves the semaphore alone is harmless.
LEMMA FewerTurns ==
    ASSUME OnePoller, BootClosed, InTurn' \subseteq InTurn, sem' = sem,
           mpc' = "boot" => mpc = "boot"
    PROVE  OnePoller' /\ BootClosed'
BY DEF OnePoller, BootClosed

\* Forking and reaping open no turn and touch no child in its turn.
LEMMA ReplaceTurns ==
    ASSUME TypeOK, NoRetry, NEW gone, NEW new, NEW isLate,
           Replace(gone, new, isLate)
    PROVE  InTurn' \subseteq InTurn /\ NoRetry'
BY DEF TypeOK, NoRetry, Replace, InTurn

LEMMA ForkTurns ==
    ASSUME TypeOK, NoRetry, NEW gone, NEW isLate, Fork(gone, isLate)
    PROVE  InTurn' \subseteq InTurn /\ NoRetry'
BY ReplaceTurns DEF Fork

\* An exit opens no turn.
LEMMA ExitTurns ==
    ASSUME TypeOK, NoRetry, NEW p \in Pids, NEW status \in Zombie, Exit(p, status)
    PROVE  /\ InTurn' \subseteq InTurn \ {p}
           /\ NoRetry'
           /\ mpc' = "boot" => mpc = "boot"
<1>1. pc' = [pc EXCEPT ![p] = status] /\ status \notin {"poll", "accept", "post", "sendA"}
  BY DEF Exit, Zombie
<1>2. InTurn' \subseteq InTurn \ {p} BY <1>1 DEF TypeOK, InTurn
<1>3. NoRetry' BY <1>1 DEF TypeOK, NoRetry, Exit
<1>4. QED BY <1>2, <1>3 DEF Exit, Sigchld

\* An interrupted call opens no turn, given that no accept is tried again.
LEMMA InterruptTurns ==
    ASSUME TypeOK, NoRetry, NEW p \in Pids, Interrupt(p)
    PROVE  InTurn' \subseteq InTurn /\ NoRetry'
<1> USE DEF TypeOK, Goto, InTurn, NoRetry
<1>1. CASE UNCHANGED <<pc, ready, sock, drift>>
  BY <1>1
<1>2. CASE Goto(p, "wait", "loop") /\ UNCHANGED <<ready, sock, drift>>
  BY <1>2
<1>3. CASE Goto(p, "poll", "loop") /\ UNCHANGED <<ready, sock, drift>>
  BY <1>3
<1>4. CASE /\ Goto(p, "accept", "post")
           /\ ready' = [ready EXCEPT ![p] = {}]
           /\ sock' = [sock EXCEPT ![p] = "again"]
  BY <1>4
<1>5. CASE /\ Goto(p, "sendA", AfterAccepted(p))
           /\ sock' = [sock EXCEPT ![p] = "none"]
           /\ UNCHANGED ready
  <2>1. AfterAccepted(p) \in {"serve", "loop"} BY <1>5 DEF AfterAccepted
  <2>2. QED BY <1>5, <2>1
<1>6. CASE Goto(p, "sendC", "loop") /\ UNCHANGED <<ready, sock>>
  BY <1>6
<1>7. QED
  BY <1>1, <1>2, <1>3, <1>4, <1>5, <1>6 DEF Interrupt

\* The steps of a child by itself.
LEMMA StepTurns ==
    ASSUME OnePollerInv, NEW p \in Pids, Step(p)
    PROVE  OnePoller' /\ NoRetry' /\ BootClosed'
<1> USE DEF OnePollerInv, TypeOK, Goto, kernel, child, master, bounds
<1>1. CASE LoopTest(p)
  <2>1. CASE Goto(p, "loop", "wait") /\ UNCHANGED <<hup, pend, late, ready, sock, master>>
    <3>1. InTurn' \subseteq InTurn BY <2>1 DEF InTurn
    <3>2. NoRetry' BY <2>1 DEF NoRetry
    <3>3. QED BY <1>1, <2>1, <3>1, <3>2, FewerTurns DEF LoopTest
  <2>2. CASE Exit(p, "exit0")
    BY <1>1, <2>2, ExitTurns, FewerTurns DEF LoopTest, Zombie
  <2>3. QED BY <1>1, <2>1, <2>2 DEF LoopTest
<1>2. CASE SemWait(p)
  <2>1. sem = 1 /\ InTurn = {} /\ sem' = 0
    BY <1>2 DEF SemWait, OnePoller
  <2>2. InTurn' \subseteq {p} BY <1>2, <2>1 DEF SemWait, InTurn
  <2>3. QED BY <1>2, <2>1, <2>2 DEF SemWait, OnePoller, NoRetry, BootClosed
<1>3. CASE PollReady(p)
  <2>1. InTurn' = InTurn BY <1>3 DEF PollReady, InTurn
  <2>2. NoRetry' BY <1>3 DEF PollReady, NoRetry
  <2>3. QED BY <1>3, <2>1, <2>2, FewerTurns DEF PollReady
<1>4. CASE PollTimeout(p)
  <2>1. sem = 0 /\ InTurn = {p} /\ mpc # "boot"
    BY <1>4 DEF PollTimeout, OnePoller, BootClosed, InTurn
  <2>2. InTurn' = {} BY <1>4, <2>1 DEF PollTimeout, InTurn
  <2>3. QED BY <1>4, <2>1, <2>2 DEF PollTimeout, OnePoller, NoRetry, BootClosed
<1>5. CASE \E l \in Listeners : AcceptOk(p, l)
  <2>1. InTurn' = InTurn BY <1>5 DEF AcceptOk, InTurn
  <2>2. NoRetry' BY <1>5 DEF AcceptOk, NoRetry
  <2>3. QED BY <1>5, <2>1, <2>2, FewerTurns DEF AcceptOk
<1>6. CASE SemPost(p)
  <2>1. sem = 0 /\ InTurn = {p} /\ mpc # "boot"
    BY <1>6 DEF SemPost, OnePoller, BootClosed, InTurn
  <2>2. InTurn' = {} BY <1>6, <2>1 DEF SemPost, InTurn
  <2>3. QED BY <1>6, <2>1, <2>2 DEF SemPost, OnePoller, NoRetry, BootClosed
<1>7. CASE SendAccepted(p)
  <2>1. AfterAccepted(p) \in {"serve", "loop"}
    BY <1>7 DEF SendAccepted, AfterAccepted, NoRetry
  <2>2. InTurn' \subseteq InTurn BY <1>7, <2>1 DEF SendAccepted, InTurn
  <2>3. NoRetry' BY <1>7, <2>1 DEF SendAccepted, NoRetry
  <2>4. QED BY <1>7, <2>2, <2>3, FewerTurns DEF SendAccepted
<1>8. CASE Served(p)
  <2>1. InTurn' \subseteq InTurn /\ NoRetry' BY <1>8 DEF Served, InTurn, NoRetry
  <2>2. QED BY <1>8, <2>1, FewerTurns DEF Served
<1>9. CASE SendClosed(p)
  <2>1. InTurn' \subseteq InTurn /\ NoRetry' BY <1>9 DEF SendClosed, InTurn, NoRetry
  <2>2. QED BY <1>9, <2>1, FewerTurns DEF SendClosed
<1>10. QED
  BY <1>1, <1>2, <1>3, <1>4, <1>5, <1>6, <1>7, <1>8, <1>9 DEF Step

\* Faults, handlers and log messages; the accept error needs SingleTry.
LEMMA MishapTurns ==
    ASSUME OnePollerInv, SingleTry, NEW p \in Pids,
           Mishap(p) \/ Handle(p) \/ Log(p)
    PROVE  OnePoller' /\ NoRetry' /\ BootClosed'
<1> USE DEF OnePollerInv, kernel, child, master, bounds
<1>1. CASE PollError(p)
  <2>1. sem = 0 /\ InTurn = {p} /\ mpc # "boot"
    BY <1>1 DEF PollError, OnePoller, BootClosed, InTurn
  <2>2. InTurn' = {} /\ NoRetry' /\ mpc' # "boot"
    BY <1>1, <2>1, ExitTurns DEF PollError, Zombie
  <2>3. QED BY <1>1, <2>1, <2>2 DEF PollError, OnePoller, BootClosed
<1>2. CASE Crash(p)
  BY <1>2, ExitTurns, FewerTurns DEF Crash, Zombie
<1>3. CASE \E l \in Listeners : AcceptError(p, l)
  <2>1. InTurn' = InTurn BY <1>3 DEF AcceptError, InTurn, Goto, TypeOK
  <2>2. ready'[p] = {}
    <3>1. PICK l \in Listeners : AcceptError(p, l) BY <1>3
    <3>2. MaxFaults # 0 BY <3>1 DEF AcceptError, Fault, TypeOK
    <3>3. ready[p] \subseteq {l} BY <3>2 DEF SingleTry, TypeOK
    <3>4. ready'[p] = ready[p] \ {l} BY <3>1 DEF AcceptError, TypeOK
    <3>5. QED BY <3>3, <3>4
  <2>3. NoRetry' BY <1>3, <2>2 DEF AcceptError, NoRetry, Goto, TypeOK
  <2>4. QED BY <1>3, <2>1, <2>3, FewerTurns DEF AcceptError
<1>4. CASE HandleHup(p)
  BY <1>4, InterruptTurns, FewerTurns DEF HandleHup
<1>5. CASE HandleTerm(p)
  <2>1. CASE Exit(p, "signaled")
    BY <1>5, <2>1, ExitTurns, FewerTurns DEF HandleTerm, Zombie
  <2>2. CASE Interrupt(p) /\ UNCHANGED <<hup, late, master>>
    BY <1>5, <2>2, InterruptTurns, FewerTurns DEF HandleTerm
  <2>3. QED BY <1>5, <2>1, <2>2 DEF HandleTerm
<1>6. CASE Log(p)
  <2>1. InTurn' = InTurn /\ NoRetry' BY <1>6 DEF Log, InTurn, NoRetry
  <2>2. QED BY <1>6, <2>1, FewerTurns DEF Log
<1>7. QED
  BY <1>1, <1>2, <1>3, <1>4, <1>5, <1>6 DEF Mishap, Handle

\* The steps of the master; BootDone opens the semaphore.
LEMMA MasterTurns ==
    ASSUME OnePollerInv, Master
    PROVE  OnePoller' /\ NoRetry' /\ BootClosed'
<1> USE DEF OnePollerInv, kernel, child, master, bounds
<1>1. CASE BootFork BY <1>1, ForkTurns, FewerTurns DEF BootFork
<1>2. CASE BootDone
  BY <1>2 DEF BootDone, OnePoller, BootClosed, NoRetry, InTurn
<1>3. CASE Top \/ OnClosed
  <2>1. InTurn' = InTurn /\ NoRetry' BY <1>3 DEF Top, OnClosed, InTurn, NoRetry
  <2>2. QED BY <1>3, <2>1, FewerTurns DEF Top, OnClosed
<1>4. CASE WaitDone \/ OnLog \/ Drain \/ FinalDone
  <2>1. InTurn' = InTurn /\ NoRetry'
    BY <1>4 DEF WaitDone, OnLog, Drain, FinalDone, InTurn, NoRetry
  <2>2. QED BY <1>4, <2>1, FewerTurns DEF WaitDone, OnLog, Drain, FinalDone
<1>5. CASE OnAccepted
  <2>1. InTurn' \subseteq InTurn /\ NoRetry'
    BY <1>5, ForkTurns DEF OnAccepted, InTurn, NoRetry
  <2>2. QED BY <1>5, <2>1, FewerTurns DEF OnAccepted
<1>6. CASE DrainTimeout
  <2>1. InTurn' = InTurn /\ NoRetry' BY <1>6 DEF DrainTimeout, InTurn, NoRetry
  <2>2. QED BY <1>6, <2>1, FewerTurns DEF DrainTimeout
<1>7. ASSUME NEW p \in Pids, Reap(p) PROVE OnePoller' /\ NoRetry' /\ BootClosed'
  BY <1>7, ForkTurns, ReplaceTurns, FewerTurns DEF Reap
<1>8. ASSUME NEW p \in Pids, FinalWait(p) PROVE OnePoller' /\ NoRetry' /\ BootClosed'
  <2>1. InTurn' \subseteq InTurn /\ NoRetry' BY <1>8 DEF FinalWait, InTurn, NoRetry, TypeOK
  <2>2. QED BY <1>8, <2>1, FewerTurns DEF FinalWait
<1>9. QED
  BY <1>1, <1>2, <1>3, <1>4, <1>5, <1>6, <1>7, <1>8 DEF Master

\* With one listening socket, or as long as accept() does not fail, at most
\* one child is between sem_wait and sem_post (minuted.c:496-506).
THEOREM OnePollerHolds == ASSUME SingleTry PROVE Spec => []OnePoller
<1>1. Init => OnePollerInv
  <2> SUFFICES ASSUME Init PROVE OnePollerInv OBVIOUS
  <2>1. InTurn = {} BY DEF Init, InTurn
  <2>2. TypeOK BY TypeInit
  <2>3. NoRetry BY DEF Init, NoRetry
  <2>4. QED BY <2>1, <2>2, <2>3 DEF Init, OnePollerInv, OnePoller, BootClosed
<1>2. OnePollerInv /\ [Next]_vars => OnePollerInv'
  <2> SUFFICES ASSUME OnePollerInv, [Next]_vars
               PROVE  OnePoller' /\ NoRetry' /\ BootClosed'
    BY TypeInductive DEF OnePollerInv
  <2>1. CASE Master BY <2>1, MasterTurns
  <2>2. ASSUME NEW p \in Pids, Step(p) \/ Mishap(p) \/ Handle(p) \/ Log(p)
        PROVE  OnePoller' /\ NoRetry' /\ BootClosed'
    BY <2>2, StepTurns, MishapTurns
  <2>3. CASE /\ UNCHANGED <<pc, ready, sock, sem>>
             /\ mpc' = "boot" => mpc = "boot"
    <3>1. InTurn' = InTurn /\ NoRetry'
      BY <2>3 DEF InTurn, NoRetry, OnePollerInv
    <3>2. QED BY <2>3, <3>1, FewerTurns DEF OnePollerInv
  <2>4. (\E l \in Listeners : Connect(l)) \/ (\E s \in {"hup", "term"} : Signal(s))
        \/ UNCHANGED vars
        => UNCHANGED <<pc, ready, sock, sem>> /\ (mpc' = "boot" => mpc = "boot")
    BY DEF Connect, Signal, vars, child, master, kernel
  <2>5. QED BY <2>1, <2>2, <2>3, <2>4 DEF Next
<1>3. OnePollerInv => OnePoller
  BY DEF OnePollerInv
<1>4. QED BY <1>1, <1>2, <1>3, PTL DEF Spec

---------------------------------------------------------------------------
(* The table of the master.                                                 *)

TableInv == /\ TypeOK
            /\ TableIsChildren
            /\ IsFiniteSet(forks) /\ Active <= MaxForks

\* Whether forks is exactly the set of processes that exist.
Exact == forks = {p \in Pids : pc[p] # "none"}

\* Reaping keeps the table exact.
LEMMA ReplaceExact ==
    ASSUME TypeOK, Exact, NEW gone \in SUBSET Pids, NEW new \in SUBSET Pids,
           NEW isLate, Replace(gone, new, isLate)
    PROVE  Exact'
BY DEF TypeOK, Exact, Replace

\* minuted_fork keeps the table exact and within its size.
LEMMA ForkExact ==
    ASSUME TableInv, Exact, NEW gone \in SUBSET Pids, NEW isLate,
           Fork(gone, isLate)
    PROVE  Exact' /\ IsFiniteSet(forks') /\ Cardinality(forks') <= MaxForks
<1> USE DEF TableInv
<1>1. /\ IsFiniteSet(forks \ gone)
      /\ Cardinality(forks \ gone) <= MaxForks
      /\ Cardinality(forks \ gone) \in Nat
  BY FS_Subset, FS_CardinalityType DEF Active
<1>2. CASE Replace(gone, {}, isLate)
  <2>1. forks' = forks \ gone BY <1>2 DEF Replace
  <2>2. QED BY <1>1, <1>2, <2>1, ReplaceExact
<1>3. ASSUME Cardinality(forks \ gone) < MaxForks,
             NEW q \in Pids, Replace(gone, {q}, isLate)
      PROVE  Exact' /\ IsFiniteSet(forks') /\ Cardinality(forks') <= MaxForks
  <2>1. forks' = (forks \ gone) \cup {q} BY <1>3 DEF Replace
  <2>2. IsFiniteSet(forks') /\ Cardinality(forks') <= Cardinality(forks \ gone) + 1
    <3> HIDE DEF TableInv
    <3> DEFINE S == forks \ gone
    <3>1. forks' = S \cup {q} /\ IsFiniteSet(S) /\ Cardinality(S) \in Nat
      BY <1>1, <2>1
    <3> HIDE DEF S
    <3>2. /\ IsFiniteSet(S \cup {q})
          /\ Cardinality(S \cup {q}) = IF q \in S THEN Cardinality(S) ELSE Cardinality(S) + 1
      BY <3>1, FS_AddElement
    <3>3. IsFiniteSet(forks') /\ Cardinality(forks') <= Cardinality(S) + 1
      BY <3>1, <3>2
    <3>4. QED BY <3>3 DEF S
  <2>3. Exact' BY <1>3, ReplaceExact
  <2>4. Cardinality(forks') \in Nat BY <2>2, FS_CardinalityType
  <2>5. QED BY <1>1, <1>3, <2>2, <2>3, <2>4
<1>4. CASE Cardinality(forks \ gone) >= MaxForks
  BY <1>2, <1>4 DEF Fork
<1>5. CASE Cardinality(forks \ gone) < MaxForks
  <2>1. ~(Cardinality(forks \ gone) >= MaxForks) BY <1>1, <1>5
  <2>2. \/ Replace(gone, {}, isLate)
        \/ \E q \in Pids : Replace(gone, {q}, isLate)
    BY <2>1 DEF Fork
  <2>3. QED BY <1>2, <1>3, <1>5, <2>2
<1>6. QED
  BY <1>1, <1>4, <1>5

\* A step of a child, or of the environment, neither makes nor removes one.
LEMMA OthersExact ==
    ASSUME TypeOK,
           \/ \E p \in Pids : Step(p) \/ Mishap(p) \/ Handle(p) \/ Log(p)
           \/ \E l \in Listeners : Connect(l)
           \/ \E s \in {"hup", "term"} : Signal(s)
           \/ UNCHANGED vars
    PROVE  /\ forks' = forks
           /\ {p \in Pids : pc'[p] # "none"} = {p \in Pids : pc[p] # "none"}
           /\ mpc' \in {"waitpid", "done"} <=> mpc \in {"waitpid", "done"}
<1> DEFINE Quiet(x) == /\ forks' = forks
                       /\ pc' = pc \/ \E to \in ChildPC \ {"none"} :
                                         pc' = [pc EXCEPT ![x] = to]
                       /\ pc'[x] # "none" <=> pc[x] # "none"
                       /\ mpc' \in {"waitpid", "done"} <=> mpc \in {"waitpid", "done"}
<1> USE DEF TypeOK, Goto, kernel, child, master, bounds, ChildPC, Running, Zombie
<1>1. ASSUME NEW p \in Pids, Step(p) PROVE Quiet(p)
  <2>1. CASE LoopTest(p)
    BY <2>1 DEF LoopTest, Exit, Sigchld
  <2>2. CASE SendAccepted(p)
    BY <2>2 DEF SendAccepted, AfterAccepted
  <2>3. CASE SemWait(p) \/ PollReady(p) \/ PollTimeout(p)
    BY <2>3 DEF SemWait, PollReady, PollTimeout
  <2>4. CASE SemPost(p) \/ Served(p) \/ SendClosed(p)
    BY <2>4 DEF SemPost, Served, SendClosed
  <2>5. CASE \E l \in Listeners : AcceptOk(p, l)
    BY <2>5 DEF AcceptOk
  <2>6. QED BY <1>1, <2>1, <2>2, <2>3, <2>4, <2>5 DEF Step
<1>2. ASSUME NEW p \in Pids, Interrupt(p), pc[p] # "none", UNCHANGED master
      PROVE  Quiet(p)
  BY <1>2 DEF Interrupt, AfterAccepted
<1>3. ASSUME NEW p \in Pids, Mishap(p) \/ Handle(p) \/ Log(p) PROVE Quiet(p)
  <2>1. CASE Mishap(p) \/ Log(p)
    <3>1. CASE PollError(p) \/ Crash(p)
      BY <3>1 DEF PollError, Crash, Exit, Sigchld
    <3>2. CASE \E l \in Listeners : AcceptError(p, l)
      BY <3>2 DEF AcceptError
    <3>3. CASE Log(p) BY <3>3 DEF Log
    <3>4. QED BY <2>1, <3>1, <3>2, <3>3 DEF Mishap
  <2>2. CASE HandleHup(p) BY <1>2, <2>2 DEF HandleHup
  <2>3. CASE HandleTerm(p) BY <1>2, <2>3 DEF HandleTerm, Exit, Sigchld
  <2>4. QED BY <1>3, <2>1, <2>2, <2>3 DEF Handle
<1>4. ASSUME NEW p \in Pids, Quiet(p)
      PROVE  {q \in Pids : pc'[q] # "none"} = {q \in Pids : pc[q] # "none"}
  BY <1>4
<1>5. CASE \E p \in Pids : Step(p) \/ Mishap(p) \/ Handle(p) \/ Log(p)
  BY <1>1, <1>3, <1>4, <1>5
<1>6. CASE \E l \in Listeners : Connect(l) BY <1>6 DEF Connect
<1>7. CASE \E s \in {"hup", "term"} : Signal(s) BY <1>7 DEF Signal
<1>8. CASE UNCHANGED vars BY <1>8 DEF vars
<1>9. QED BY <1>5, <1>6, <1>7, <1>8

\* The invariant of the table.
LEMMA TableInvHolds == Spec => []TableInv
<1>1. Init => TableInv
  <2> SUFFICES ASSUME Init PROVE TableInv OBVIOUS
  <2>1. IsFiniteSet(forks) /\ Cardinality(forks) = 0 BY FS_EmptySet DEF Init
  <2>2. TypeOK BY TypeInit
  <2>3. QED BY <2>1, <2>2 DEF Init, TableInv, TableIsChildren, Active
<1>2. TableInv /\ [Next]_vars => TableInv'
  <2> SUFFICES ASSUME TableInv, [Next]_vars PROVE TableInv' OBVIOUS
  <2>1. TypeOK' BY TypeInductive DEF TableInv
  <2>2. mpc \notin {"waitpid", "done"} => Exact
    BY DEF TableInv, TableIsChildren, Exact
  <2> SUFFICES /\ mpc' \notin {"waitpid", "done"} => Exact'
               /\ IsFiniteSet(forks') /\ Cardinality(forks') <= MaxForks
    BY <2>1 DEF TableInv, TableIsChildren, Exact, Active
  <2> USE DEF kernel, child, master, bounds
  <2>3. CASE UNCHANGED <<forks, pc>>
             /\ (mpc' \notin {"waitpid", "done"} => mpc \notin {"waitpid", "done"})
    BY <2>2, <2>3 DEF TableInv, Active, Exact
  <2>4. CASE BootFork \/ OnAccepted
    BY <2>2, <2>3, <2>4, ForkExact DEF BootFork, OnAccepted, TableInv, Active, Exact
  <2>5. CASE \E p \in Pids : Reap(p)
    <3>1. PICK p \in Pids : Reap(p) BY <2>5
    <3>2. Exact BY <2>2, <3>1 DEF Reap
    <3>3. CASE \E isLate : Fork({p}, isLate) BY <3>2, <3>3, ForkExact
    <3>4. CASE Replace({p}, {}, TRUE)
      <4>1. forks' = forks \ {p} BY <3>4 DEF Replace
      <4>2. IsFiniteSet(forks') /\ Cardinality(forks') <= Cardinality(forks)
        BY <4>1, FS_Subset DEF TableInv
      <4>3. Cardinality(forks') \in Nat /\ Cardinality(forks) \in Nat
        BY <4>2, FS_CardinalityType DEF TableInv
      <4>4. Exact' BY <3>2, <3>4, ReplaceExact DEF TableInv
      <4>5. QED BY <4>2, <4>3, <4>4 DEF TableInv, Active
    <3>5. QED BY <3>1, <3>3, <3>4 DEF Reap
  <2>6. CASE \E p \in Pids : FinalWait(p)
    BY <2>6 DEF FinalWait, TableInv, Active
  <2>7. CASE BootDone \/ Top \/ WaitDone \/ OnClosed \/ OnLog \/ Drain
    BY <2>3, <2>7 DEF BootDone, Top, WaitDone, OnClosed, OnLog, Drain
  <2>8. CASE DrainTimeout \/ FinalDone
    BY <2>3, <2>8 DEF DrainTimeout, FinalDone
  <2>9. CASE ~Master
    BY <2>2, <2>9, OthersExact DEF Next, TableInv, Active, Exact
  <2>10. QED
    BY <2>4, <2>5, <2>6, <2>7, <2>8, <2>9 DEF Master
<1>3. QED BY <1>1, <1>2, PTL DEF Spec

\* Until the last waitpid loop the table holds exactly the children that exist,
\* and it never holds more than max_forks.
THEOREM TableHolds == Spec => []TableIsChildren
<1>1. TableInv => TableIsChildren
  BY DEF TableInv
<1>2. QED BY <1>1, TableInvHolds, PTL

\* Once the master is shutting down no step forks a child.
THEOREM NoForkInShutdownHolds == Spec => NoForkInShutdown
<1>1. TypeOK /\ [Next]_vars =>
        ((mpc \in Shutdown) =>
            (\A p \in Pids : pc'[p] # "none" => pc[p] # "none"))
  <2> SUFFICES ASSUME TypeOK, [Next]_vars, mpc \in Shutdown
               PROVE  \A p \in Pids : pc'[p] # "none" => pc[p] # "none"
    OBVIOUS
  <2> USE DEF Shutdown
  <2>1. CASE UNCHANGED pc BY <2>1
  <2>2. CASE ~Master BY <2>2, OthersExact DEF Next
  <2>3. CASE BootFork \/ BootDone \/ Top \/ OnAccepted \/ OnClosed \/ OnLog
    <3>1. mpc \notin {"boot", "top", "recv"}
      OBVIOUS
    <3> HIDE DEF Shutdown
    <3>2. CASE BootFork \/ BootDone \/ Top
      BY <3>1, <3>2 DEF BootFork, BootDone, Top
    <3>3. CASE OnAccepted \/ OnClosed \/ OnLog
      BY <3>1, <3>3 DEF OnAccepted, OnClosed, OnLog
    <3>4. QED BY <2>3, <3>2, <3>3
  <2> USE DEF TypeOK, child
  <2>4. CASE WaitDone \/ Drain \/ DrainTimeout \/ FinalDone
    BY <2>1, <2>4 DEF WaitDone, Drain, DrainTimeout, FinalDone
  <2>5. ASSUME NEW p \in Pids, Reap(p)
        PROVE  \A x \in Pids : pc'[x] # "none" => pc[x] # "none"
    <3>1. mpc # "wait" /\ Replace({p}, {}, TRUE)
      BY <2>5 DEF Reap
    <3>2. QED BY <3>1 DEF Replace
  <2>6. ASSUME NEW p \in Pids, FinalWait(p)
        PROVE  \A x \in Pids : pc'[x] # "none" => pc[x] # "none"
    BY <2>6 DEF FinalWait
  <2>7. QED BY <2>2, <2>3, <2>4, <2>5, <2>6 DEF Master
<1>2. QED BY <1>1, TypeCorrect, PTL DEF Spec, NoForkInShutdown

---------------------------------------------------------------------------
(* Messages in a queue                                                     *)

\* The places of a queue that hold a message of this type.
Places(q, type) == {i \in DOMAIN q : q[i].type = type}

\* The numbers of messages are numbers.
LEMMA CountType ==
    ASSUME NEW q \in Seq(Message), NEW type
    PROVE  IsFiniteSet(Places(q, type)) /\ Cardinality(Places(q, type)) \in Nat
<1>1. IsFiniteSet(1 .. Len(q))
  BY FS_Interval
<1>2. Places(q, type) \in SUBSET (1 .. Len(q))
  BY DEF Places
<1>3. QED BY <1>1, <1>2, FS_Subset, FS_CardinalityType

\* mq_send adds one to the messages of its type.
LEMMA CountAppend ==
    ASSUME NEW q \in Seq(Message), NEW m \in Message, NEW type
    PROVE  Cardinality(Places(Append(q, m), type)) =
               Cardinality(Places(q, type)) + (IF m.type = type THEN 1 ELSE 0)
<1> DEFINE n == Len(q) + 1
<1>1. IsFiniteSet(Places(q, type)) /\ Cardinality(Places(q, type)) \in Nat
  BY CountType
<1>2. n \notin Places(q, type)
  BY DEF Places
<1>3. CASE m.type = type
  <2>1. Places(Append(q, m), type) = Places(q, type) \cup {n}
    BY <1>3 DEF Places
  <2>2. Cardinality(Places(Append(q, m), type)) = Cardinality(Places(q, type)) + 1
    <3> HIDE DEF n
    <3>1. QED BY <1>1, <1>2, <2>1, FS_AddElement
  <2>3. QED BY <1>3, <2>2
<1>4. CASE m.type # type
  <2>1. Places(Append(q, m), type) = Places(q, type)
    BY <1>4 DEF Places
  <2>2. QED BY <1>1, <1>4, <2>1
<1>5. QED BY <1>3, <1>4

\* mq_receive takes one from the messages of its type.
LEMMA CountTail ==
    ASSUME NEW q \in Seq(Message), q # <<>>, NEW type
    PROVE  Cardinality(Places(Tail(q), type)) =
               Cardinality(Places(q, type)) - (IF Head(q).type = type THEN 1 ELSE 0)
<1> DEFINE S == Places(q, type) \ {1}
           T == Places(Tail(q), type)
           f == [i \in S |-> i - 1]
<1>1. IsFiniteSet(Places(q, type)) /\ Cardinality(Places(q, type)) \in Nat
  BY CountType
<1>2. IsFiniteSet(S)
      /\ Cardinality(S) = IF 1 \in Places(q, type) THEN Cardinality(Places(q, type)) - 1
                                                   ELSE Cardinality(Places(q, type))
  BY <1>1, FS_RemoveElement
<1>3. 1 \in Places(q, type) <=> Head(q).type = type
  BY DEF Places
<1>4. /\ Len(Tail(q)) = Len(q) - 1 /\ Len(q) \in Nat \ {0}
      /\ \A i \in 1 .. Len(q) - 1 : Tail(q)[i] = q[i + 1]
  OBVIOUS
<1>5. S = {i \in 2 .. Len(q) : q[i].type = type}
  BY <1>4 DEF Places
<1>6. T = {i \in 1 .. Len(q) - 1 : q[i + 1].type = type}
  BY <1>4 DEF Places
<1>7. f \in Bijection(S, T)
  <2> HIDE DEF S, T
  <2>1. \A i \in S : i - 1 \in T /\ i \in Int
    BY <1>4, <1>5, <1>6
  <2>2. f \in [S -> T]
    BY <2>1
  <2>3. \A i, j \in S : f[i] = f[j] => i = j
    BY <2>1
  <2>4. \A t \in T : \E s \in S : f[s] = t
    <3> TAKE t \in T
    <3>1. t + 1 \in S /\ (t + 1) - 1 = t
      BY <1>4, <1>5, <1>6
    <3> DEFINE u == t + 1
    <3> HIDE DEF u
    <3>2. u \in S => f[u] = u - 1
      OBVIOUS
    <3>3. u \in S /\ f[u] = t
      BY <3>1, <3>2 DEF u
    <3>4. QED BY <3>3
  <2> HIDE DEF f
  <2>5. QED BY <2>2, <2>3, <2>4, Fun_IsBij
<1>8. Cardinality(T) = Cardinality(S)
  BY <1>2, <1>7, FS_Bijection, Fun_ExistsBij
<1>9. QED BY <1>1, <1>2, <1>3, <1>8

---------------------------------------------------------------------------
(* Children that hold a connection                                         *)

Holding == {"serve", "sendC"}

\* Some children exist, so few of them hold a connection.
LEMMA BusyFinite ==
    ASSUME TableInv, mpc \notin Shutdown
    PROVE  IsFiniteSet(Busy) /\ Cardinality(Busy) \in Nat
<1>1. Busy \in SUBSET forks
  BY DEF TableInv, TableIsChildren, Busy, Shutdown
<1>2. QED BY <1>1, FS_Subset, FS_CardinalityType DEF TableInv

\* A child that goes on may take a connection or let one go.
LEMMA BusyMoves ==
    ASSUME TypeOK, IsFiniteSet(Busy), NEW p \in Pids, NEW to,
           pc' = [pc EXCEPT ![p] = to]
    PROVE  Cardinality(Busy') =
               Cardinality(Busy) - (IF pc[p] \in Holding THEN 1 ELSE 0)
                                 + (IF to \in Holding THEN 1 ELSE 0)
<1>1. /\ IsFiniteSet(Busy \ {p}) /\ Cardinality(Busy) \in Nat
      /\ Cardinality(Busy \ {p}) = IF p \in Busy THEN Cardinality(Busy) - 1
                                                 ELSE Cardinality(Busy)
  BY FS_RemoveElement, FS_CardinalityType
<1>2. p \in Busy <=> pc[p] \in Holding
  BY DEF Busy, Holding
<1>3. Cardinality(Busy \ {p}) \in Nat
  BY <1>1, FS_CardinalityType
<1>4. CASE to \in Holding
  <2>1. Busy' = (Busy \ {p}) \cup {p}
    BY <1>4 DEF TypeOK, Busy, Holding
  <2>2. Cardinality(Busy') = Cardinality(Busy \ {p}) + 1
    BY <1>1, <2>1, FS_AddElement
  <2>3. QED BY <1>1, <1>2, <1>3, <1>4, <2>2
<1>5. CASE to \notin Holding
  <2>1. Busy' = Busy \ {p}
    BY <1>5 DEF TypeOK, Busy, Holding
  <2>2. QED BY <1>1, <1>2, <1>3, <1>5, <2>1
<1>6. QED BY <1>4, <1>5

---------------------------------------------------------------------------
(* The invariant                                                           *)

\* Nobody is sent SIGTERM, which could kill a child that serves, before the drain is over.
NoTermYet == mpc \notin Shutdown => \A p \in Pids : "term" \notin pend[p]

LedgerInv == TableInv /\ NoTermYet /\ Ledger

\* The ledger in terms of the places.
Balance(q, s, n, d) ==
    s + Cardinality(Places(q, "a")) - Cardinality(Places(q, "c")) = n + d

\* What is known while the server runs.
LEMMA Standing ==
    ASSUME LedgerInv, mpc \notin Shutdown
    PROVE  /\ TypeOK /\ IsFiniteSet(Busy) /\ Cardinality(Busy) \in Nat
           /\ Cardinality(Places(queue, "a")) \in Nat
           /\ Cardinality(Places(queue, "c")) \in Nat
           /\ Balance(queue, serving, Cardinality(Busy), drift)
           /\ queue \in Seq(Message) /\ serving \in Int /\ drift \in Int
<1>1. TypeOK /\ queue \in Seq(Message) /\ serving \in Int /\ drift \in Int
  BY DEF LedgerInv, TableInv, TypeOK
<1>2. IsFiniteSet(Busy) /\ Cardinality(Busy) \in Nat
  BY BusyFinite DEF LedgerInv
<1>3. Balance(queue, serving, Cardinality(Busy), drift)
  BY DEF LedgerInv, Ledger, Count, Places, Balance
<1>4. QED BY <1>1, <1>2, <1>3, CountType

\* The numbers among it.
LEMMA Figures ==
    ASSUME LedgerInv, mpc \notin Shutdown
    PROVE  /\ Cardinality(Busy) \in Nat /\ serving \in Int /\ drift \in Int
           /\ Cardinality(Places(queue, "a")) \in Nat
           /\ Cardinality(Places(queue, "c")) \in Nat
           /\ serving + Cardinality(Places(queue, "a")) - Cardinality(Places(queue, "c"))
                = Cardinality(Busy) + drift
BY Standing DEF Balance

\* The ledger after a step.
LEMMA LedgerNext ==
    ASSUME Balance(queue', serving', Cardinality(Busy'), drift')
    PROVE  Ledger'
BY DEF Ledger, Count, Places, Balance

\* A step that moves no connection and no message.
LEMMA LedgerSame ==
    ASSUME LedgerInv, mpc \notin Shutdown, UNCHANGED <<queue, serving, drift>>, Busy' = Busy
    PROVE  Ledger'
BY Standing, LedgerNext

\* A child that holds a connection neither before nor after.
LEMMA BusyStays ==
    ASSUME LedgerInv, mpc \notin Shutdown, NEW p \in Pids, NEW to,
           pc' = [pc EXCEPT ![p] = to], pc[p] \in Holding <=> to \in Holding
    PROVE  Busy' = Busy
BY Standing DEF TypeOK, Busy, Holding

\* A step of a child between two places where it holds no connection.
LEMMA LedgerIdle ==
    ASSUME LedgerInv, mpc \notin Shutdown, UNCHANGED <<queue, serving, drift>>,
           NEW p \in Pids, NEW to, pc' = [pc EXCEPT ![p] = to],
           pc[p] \in Holding <=> to \in Holding
    PROVE  Ledger'
BY BusyStays, LedgerSame

\* A child that takes a connection.
LEMMA BusyGains ==
    ASSUME LedgerInv, mpc \notin Shutdown, NEW p \in Pids, NEW to,
           pc' = [pc EXCEPT ![p] = to], pc[p] \notin Holding, to \in Holding
    PROVE  Cardinality(Busy') = Cardinality(Busy) + 1
<1>1. TypeOK /\ IsFiniteSet(Busy) /\ Cardinality(Busy) \in Nat
  BY Standing
<1>2. Cardinality(Busy') = Cardinality(Busy) - 0 + 1
  BY <1>1, BusyMoves
<1>3. QED BY <1>1, <1>2

\* A child that lets one go.
LEMMA BusyLoses ==
    ASSUME LedgerInv, mpc \notin Shutdown, NEW p \in Pids, NEW to,
           pc' = [pc EXCEPT ![p] = to], pc[p] \in Holding, to \notin Holding
    PROVE  Cardinality(Busy') = Cardinality(Busy) - 1
<1>1. TypeOK /\ IsFiniteSet(Busy) /\ Cardinality(Busy) \in Nat
  BY Standing
<1>2. Cardinality(Busy') = Cardinality(Busy) - 1 + 0
  BY <1>1, BusyMoves
<1>3. QED BY <1>1, <1>2

---------------------------------------------------------------------------
(* The steps                                                               *)

\* An exit of a child that holds no connection.
LEMMA ExitLedger ==
    ASSUME LedgerInv, NEW p \in Pids, NEW status \in Zombie, Exit(p, status),
           UNCHANGED <<queue, drift>>, pc[p] \notin Holding, mpc' \notin Shutdown
    PROVE  Ledger' /\ NoTermYet'
<1>1. mpc \notin Shutdown /\ UNCHANGED serving
  BY DEF Exit, Sigchld, Shutdown
<1>2. status \notin Holding /\ pc' = [pc EXCEPT ![p] = status]
  BY DEF Exit, Zombie, Holding
<1>3. Ledger'
  BY <1>1, <1>2, LedgerIdle
<1>4. NoTermYet'
  BY <1>1, Standing DEF LedgerInv, NoTermYet, TypeOK, Exit
<1>5. QED BY <1>3, <1>4

\* A child by itself: connections and messages change together.
LEMMA StepLedger ==
    ASSUME LedgerInv, NEW p \in Pids, Step(p), mpc' \notin Shutdown
    PROVE  Ledger' /\ NoTermYet'
<1> USE DEF Goto, kernel, child, master, bounds
<1>1. CASE LoopTest(p)
  <2>1. CASE Exit(p, "exit0")
    BY <1>1, <2>1, ExitLedger DEF LoopTest, Zombie, Holding
  <2>2. CASE Goto(p, "loop", "wait") /\ UNCHANGED <<hup, pend, late, ready, sock, master>>
    BY <1>1, <2>2, LedgerIdle DEF LoopTest, Holding, LedgerInv, NoTermYet
  <2>3. QED BY <1>1, <2>1, <2>2 DEF LoopTest
<1>2. CASE ~LoopTest(p)
  <2>1. mpc \notin Shutdown /\ UNCHANGED <<pend, mpc, serving>>
    BY <1>2 DEF Step, SemWait, PollReady, PollTimeout, AcceptOk, SemPost, SendAccepted,
                Served, SendClosed
  <2>2. NoTermYet'
    BY <2>1 DEF LedgerInv, NoTermYet
  <2>3. CASE SemWait(p) \/ PollReady(p) \/ PollTimeout(p) \/ SemPost(p) \/ Served(p)
             \/ \E l \in Listeners : AcceptOk(p, l)
    <3>1. \E to : /\ pc' = [pc EXCEPT ![p] = to] /\ (pc[p] \in Holding <=> to \in Holding)
                  /\ UNCHANGED <<queue, drift>>
      BY <2>3 DEF SemWait, PollReady, PollTimeout, SemPost, Served, AcceptOk, Holding
    <3>2. QED BY <2>1, <2>2, <3>1, LedgerIdle
  <2>4. CASE SendAccepted(p)
    <3> DEFINE m == [type |-> "a", from |-> p]
               to == AfterAccepted(p)
    <3>1. /\ queue' = Append(queue, m) /\ pc' = [pc EXCEPT ![p] = to] /\ pc[p] = "sendA"
          /\ drift' = drift + (IF sock[p] = "ok" THEN 0 ELSE 1)
      BY <2>4 DEF SendAccepted, Send
    <3>2. to \in Holding <=> sock[p] = "ok"
      BY DEF AfterAccepted, Holding
    <3>3. m \in Message /\ m.type = "a"
      BY DEF Message
    <3> HIDE DEF m, to
    <3>4. /\ Cardinality(Places(queue', "a")) = Cardinality(Places(queue, "a")) + 1
          /\ Cardinality(Places(queue', "c")) = Cardinality(Places(queue, "c"))
      BY <2>1, <3>1, <3>3, Standing, CountAppend
    <3>5. Cardinality(Busy') = Cardinality(Busy) + (IF sock[p] = "ok" THEN 1 ELSE 0)
      <4>1. pc[p] \notin Holding
        BY <3>1 DEF Holding
      <4>2. CASE sock[p] = "ok"
        BY <2>1, <3>1, <3>2, <4>1, <4>2, BusyGains
      <4>3. CASE sock[p] # "ok"
        <5>1. Busy' = Busy
          BY <2>1, <3>1, <3>2, <4>1, <4>3, BusyStays
        <5>2. QED BY <2>1, <4>3, <5>1, Figures
      <4>4. QED BY <4>2, <4>3
    <3>6. Balance(queue', serving', Cardinality(Busy'), drift')
      BY <2>1, <3>1, <3>4, <3>5, Figures DEF Balance
    <3>7. QED BY <2>2, <3>6, LedgerNext
  <2>5. CASE SendClosed(p)
    <3> DEFINE m == [type |-> "c", from |-> p]
    <3>1. /\ queue' = Append(queue, m) /\ pc' = [pc EXCEPT ![p] = "loop"] /\ pc[p] = "sendC"
          /\ drift' = drift
      BY <2>5 DEF SendClosed, Send
    <3>2. m \in Message /\ m.type = "c"
      BY DEF Message
    <3> HIDE DEF m
    <3>3. /\ Cardinality(Places(queue', "a")) = Cardinality(Places(queue, "a"))
          /\ Cardinality(Places(queue', "c")) = Cardinality(Places(queue, "c")) + 1
      BY <2>1, <3>1, <3>2, Standing, CountAppend
    <3>4. Cardinality(Busy') = Cardinality(Busy) - 1
      <4>1. "sendC" \in Holding /\ "loop" \notin Holding
        BY DEF Holding
      <4>2. QED BY <2>1, <3>1, <4>1, BusyLoses
    <3>5. Balance(queue', serving', Cardinality(Busy'), drift')
      BY <2>1, <3>1, <3>3, <3>4, Figures DEF Balance
    <3>6. QED BY <2>2, <3>5, LedgerNext
  <2>6. QED BY <1>2, <2>3, <2>4, <2>5 DEF Step
<1>3. QED BY <1>1, <1>2

\* An interrupted mq_send loses its message, which the drift remembers.
LEMMA InterruptLedger ==
    ASSUME LedgerInv, mpc \notin Shutdown, NEW p \in Pids, Interrupt(p),
           UNCHANGED <<queue, serving>>
    PROVE  Ledger'
<1> USE DEF Goto, Holding
<1>1. CASE UNCHANGED <<pc, ready, sock, drift>>
  <2>1. Busy' = Busy BY <1>1 DEF Busy
  <2>2. QED BY <1>1, <2>1, LedgerSame
<1>2. CASE Goto(p, "wait", "loop") /\ UNCHANGED drift
  BY <1>2, LedgerIdle
<1>3. CASE Goto(p, "poll", "loop") /\ UNCHANGED drift
  BY <1>3, LedgerIdle
<1>4. CASE Goto(p, "accept", "post") /\ UNCHANGED drift
  BY <1>4, LedgerIdle
<1>5. CASE /\ Goto(p, "sendA", AfterAccepted(p))
           /\ drift' = drift - (IF sock[p] = "ok" THEN 1 ELSE 0)
  <2> DEFINE to == AfterAccepted(p)
  <2>1. (to \in Holding <=> sock[p] = "ok") /\ pc' = [pc EXCEPT ![p] = to] /\ pc[p] \notin Holding
    BY <1>5 DEF AfterAccepted
  <2> HIDE DEF to
  <2>2. Cardinality(Busy') = Cardinality(Busy) + (IF sock[p] = "ok" THEN 1 ELSE 0)
    <3> HIDE DEF Holding
    <3>1. CASE sock[p] = "ok"
      BY <2>1, <3>1, BusyGains
    <3>2. CASE sock[p] # "ok"
      <4>1. Busy' = Busy
        BY <2>1, <3>2, BusyStays
      <4>2. QED BY <3>2, <4>1, Figures
    <3>3. QED BY <3>1, <3>2
  <2>3. Balance(queue', serving', Cardinality(Busy'), drift')
    BY <1>5, <2>2, Figures DEF Balance
  <2>4. QED BY <2>3, LedgerNext
<1>6. CASE Goto(p, "sendC", "loop") /\ drift' = drift + 1
  <2>1. Cardinality(Busy') = Cardinality(Busy) - 1
    <3>1. pc' = [pc EXCEPT ![p] = "loop"] /\ pc[p] \in Holding /\ "loop" \notin Holding
      BY <1>6
    <3>2. QED BY <3>1, BusyLoses
  <2>2. Balance(queue', serving', Cardinality(Busy'), drift')
    BY <1>6, <2>1, Figures DEF Balance
  <2>3. QED BY <2>2, LedgerNext
<1>7. QED BY <1>1, <1>2, <1>3, <1>4, <1>5, <1>6 DEF Interrupt

\* Faults, signal handlers and log messages.
LEMMA MishapLedger ==
    ASSUME LedgerInv, NEW p \in Pids, Mishap(p) \/ Handle(p) \/ Log(p), mpc' \notin Shutdown
    PROVE  Ledger' /\ NoTermYet'
<1> USE DEF Goto, kernel, child, master, bounds
<1>1. CASE PollError(p)
  BY <1>1, ExitLedger DEF PollError, Zombie, Holding
<1>2. CASE Crash(p)
  <2>1. mpc \notin Shutdown /\ UNCHANGED <<queue, serving>> /\ drift' = drift + 1
    BY <1>2 DEF Crash, Exit, Sigchld, Shutdown
  <2>2. pc' = [pc EXCEPT ![p] = "signaled"] /\ pc[p] = "serve"
    BY <1>2 DEF Crash, Exit
  <2>3. Cardinality(Busy') = Cardinality(Busy) - 1
    <3>1. pc[p] \in Holding /\ "signaled" \notin Holding
      BY <2>2 DEF Holding
    <3>2. QED BY <2>1, <2>2, <3>1, BusyLoses
  <2>4. Balance(queue', serving', Cardinality(Busy'), drift')
    BY <2>1, <2>3, Figures DEF Balance
  <2>5. NoTermYet'
    BY <1>2, <2>1, Standing DEF LedgerInv, NoTermYet, TypeOK, Crash, Exit
  <2>6. QED BY <2>4, <2>5, LedgerNext
<1>3. CASE \E l \in Listeners : AcceptError(p, l)
  <2>1. /\ mpc \notin Shutdown /\ UNCHANGED <<pend, mpc, serving, queue, drift>>
        /\ pc' = [pc EXCEPT ![p] = "post"] /\ pc[p] = "accept"
    BY <1>3 DEF AcceptError
  <2>2. Ledger'
    BY <2>1, LedgerIdle DEF Holding
  <2>3. QED BY <2>1, <2>2 DEF LedgerInv, NoTermYet
<1>4. CASE HandleHup(p)
  <2>1. mpc \notin Shutdown /\ UNCHANGED <<queue, serving, mpc>> /\ Interrupt(p)
    BY <1>4 DEF HandleHup
  <2>2. NoTermYet'
    BY <1>4, <2>1, Standing DEF LedgerInv, NoTermYet, TypeOK, HandleHup
  <2>3. QED BY <2>1, <2>2, InterruptLedger
<1>5. CASE HandleTerm(p)
  <2>1. "term" \in pend[p] /\ (mpc' \notin Shutdown => mpc \notin Shutdown)
    BY <1>5 DEF HandleTerm, Exit, Sigchld, Shutdown
  <2>2. QED BY <2>1 DEF LedgerInv, NoTermYet
<1>6. CASE Log(p)
  <2> DEFINE m == [type |-> "log", from |-> p]
  <2>1. /\ mpc \notin Shutdown /\ UNCHANGED <<pend, mpc, serving, pc, drift>>
        /\ queue' = Append(queue, m)
    BY <1>6 DEF Log, Send
  <2>2. m \in Message /\ m.type # "a" /\ m.type # "c"
    BY DEF Message
  <2> HIDE DEF m
  <2>3. /\ Cardinality(Places(queue', "a")) = Cardinality(Places(queue, "a"))
        /\ Cardinality(Places(queue', "c")) = Cardinality(Places(queue, "c"))
    BY <2>1, <2>2, Standing, CountAppend
  <2>4. Busy' = Busy
    BY <2>1 DEF Busy
  <2>5. Balance(queue', serving', Cardinality(Busy'), drift')
    BY <2>1, <2>3, <2>4, Figures DEF Balance
  <2>6. QED BY <2>1, <2>5, LedgerNext DEF LedgerInv, NoTermYet
<1>7. QED BY <1>1, <1>2, <1>3, <1>4, <1>5, <1>6 DEF Mishap, Handle

\* Neither a child that is reaped nor one that is forked holds a connection.
LEMMA ReplaceBusy ==
    ASSUME TypeOK, NEW gone \in SUBSET Pids, NEW new \in SUBSET Pids, NEW isLate,
           gone \cap Busy = {}, new \cap Busy = {}, Replace(gone, new, isLate)
    PROVE  Busy' = Busy /\ UNCHANGED pend
BY DEF TypeOK, Busy, Replace

\* The same of minuted_fork.
LEMMA ForkBusy ==
    ASSUME TypeOK, NEW gone \in SUBSET Pids, NEW isLate, gone \cap Busy = {}, Fork(gone, isLate)
    PROVE  Busy' = Busy /\ UNCHANGED pend
<1>1. CASE Replace(gone, {}, isLate)
  BY <1>1, ReplaceBusy
<1>2. ASSUME NEW q \in Pids, pc[q] = "none" \/ q \in gone, Replace(gone, {q}, isLate)
      PROVE  Busy' = Busy /\ UNCHANGED pend
  <2>1. {q} \cap Busy = {} BY <1>2 DEF Busy
  <2>2. QED BY <1>2, <2>1, ReplaceBusy
<1>3. QED BY <1>1, <1>2 DEF Fork

\* A message received is one less of its type in the queue.
LEMMA ReceiveCounts ==
    ASSUME LedgerInv, mpc \notin Shutdown, NEW type, Receive(type), NEW t
    PROVE  Cardinality(Places(queue', t)) =
               Cardinality(Places(queue, t)) - (IF type = t THEN 1 ELSE 0)
<1>1. queue \in Seq(Message) /\ queue # <<>> /\ queue' = Tail(queue) /\ Head(queue).type = type
  BY Standing DEF Receive
<1>2. QED BY <1>1, CountTail

\* The counts of a step that takes a message of this type from the queue.
LEMMA Received ==
    ASSUME LedgerInv, mpc \notin Shutdown, NEW type, Receive(type), Busy' = Busy,
           UNCHANGED drift,
           serving' = serving + (IF type = "a" THEN 1 ELSE 0) - (IF type = "c" THEN 1 ELSE 0)
    PROVE  Ledger'
<1>1. Cardinality(Places(queue', "a")) =
          Cardinality(Places(queue, "a")) - (IF type = "a" THEN 1 ELSE 0)
  BY ReceiveCounts
<1>2. Cardinality(Places(queue', "c")) =
          Cardinality(Places(queue, "c")) - (IF type = "c" THEN 1 ELSE 0)
  BY ReceiveCounts
<1>3. Balance(queue', serving', Cardinality(Busy'), drift')
  BY <1>1, <1>2, Figures DEF Balance
<1>4. QED BY <1>3, LedgerNext

\* The master: a message moves from the queue to the counter.
LEMMA MasterLedger ==
    ASSUME LedgerInv, Master, mpc' \notin Shutdown
    PROVE  Ledger' /\ NoTermYet'
<1> USE DEF kernel, child, master, bounds
<1>1. CASE BootFork \/ (\E p \in Pids : Reap(p))
  <2>1. mpc \notin Shutdown /\ UNCHANGED <<queue, serving, drift, mpc>>
    BY <1>1 DEF BootFork, Reap
  <2>2. Busy' = Busy /\ UNCHANGED pend
    <3>1. CASE BootFork
      BY <2>1, <3>1, Standing, ForkBusy DEF BootFork
    <3>2. ASSUME NEW p \in Pids, Reap(p)
          PROVE  Busy' = Busy /\ UNCHANGED pend
      <4>1. {p} \cap Busy = {}
        BY <3>2 DEF Reap, Busy, Zombie
      <4>2. Fork({p}, TRUE) \/ Replace({p}, {}, TRUE)
        BY <3>2 DEF Reap
      <4>3. QED BY <2>1, <4>1, <4>2, Standing, ForkBusy, ReplaceBusy
    <3>3. QED BY <1>1, <3>1, <3>2
  <2>3. QED BY <2>1, <2>2, LedgerSame DEF LedgerInv, NoTermYet
<1>2. CASE BootDone \/ Top \/ WaitDone
  <2>1. mpc \notin Shutdown /\ UNCHANGED <<queue, serving, drift, pc>>
    BY <1>2 DEF BootDone, Top, WaitDone, Shutdown
  <2>2. Busy' = Busy
    BY <2>1 DEF Busy
  <2>3. UNCHANGED pend
    BY <1>2 DEF BootDone, Top, WaitDone, Shutdown
  <2>4. QED BY <2>1, <2>2, <2>3, LedgerSame DEF LedgerInv, NoTermYet
<1>3. CASE OnAccepted
  <2>1. mpc \notin Shutdown /\ Receive("a") /\ serving' = serving + 1 /\ UNCHANGED drift
    BY <1>3 DEF OnAccepted, Shutdown
  <2>2. Busy' = Busy /\ UNCHANGED pend
    <3>1. CASE Fork({}, TRUE)
      BY <2>1, <3>1, Standing, ForkBusy
    <3>2. CASE UNCHANGED child
      BY <3>2 DEF Busy
    <3>3. QED BY <1>3, <3>1, <3>2 DEF OnAccepted
  <2>3. Ledger'
    BY <2>1, <2>2, Figures, Received
  <2>4. QED BY <2>1, <2>2, <2>3 DEF LedgerInv, NoTermYet
<1>4. CASE OnClosed
  <2>1. /\ mpc \notin Shutdown /\ Receive("c") /\ serving' = serving - 1 /\ UNCHANGED <<drift, pc>>
        /\ \E P : Kill(P, "hup")
    BY <1>4 DEF OnClosed, Shutdown
  <2>2. Busy' = Busy
    BY <2>1 DEF Busy
  <2>3. Ledger'
    BY <2>1, <2>2, Figures, Received
  <2>4. NoTermYet'
    BY <2>1, Standing DEF LedgerInv, NoTermYet, Kill, TypeOK
  <2>5. QED BY <2>3, <2>4
<1>5. CASE OnLog
  <2>1. mpc \notin Shutdown /\ Receive("log") /\ UNCHANGED <<serving, drift, pc, pend>>
    BY <1>5 DEF OnLog, Shutdown
  <2>2. Busy' = Busy
    BY <2>1 DEF Busy
  <2>3. Ledger'
    BY <2>1, <2>2, Figures, Received
  <2>4. QED BY <2>1, <2>3 DEF LedgerInv, NoTermYet
<1>6. CASE Drain \/ DrainTimeout \/ FinalDone \/ (\E p \in Pids : FinalWait(p))
  BY <1>6 DEF Drain, DrainTimeout, FinalDone, FinalWait, Shutdown
<1>7. QED BY <1>1, <1>2, <1>3, <1>4, <1>5, <1>6 DEF Master

\* The invariant of the ledger.
LEMMA LedgerInvHolds == Spec => []LedgerInv
<1>1. Init => NoTermYet /\ Ledger
  <2> SUFFICES ASSUME Init PROVE NoTermYet /\ Ledger
    OBVIOUS
  <2>1. Busy = {} /\ Places(queue, "a") = {} /\ Places(queue, "c") = {}
    BY DEF Init, Busy, Places
  <2>2. Cardinality({}) = 0
    BY FS_EmptySet
  <2>3. Ledger
    BY <2>1, <2>2 DEF Init, Ledger, Count, Places
  <2>4. QED BY <2>3 DEF Init, NoTermYet
<1>2. TableInv /\ NoTermYet /\ Ledger /\ [Next]_vars => NoTermYet' /\ Ledger'
  <2> SUFFICES ASSUME LedgerInv, [Next]_vars PROVE NoTermYet' /\ Ledger'
    BY DEF LedgerInv
  <2>1. CASE mpc' \in Shutdown
    BY <2>1 DEF NoTermYet, Ledger
  <2>2. CASE mpc' \notin Shutdown /\ Master
    BY <2>2, MasterLedger
  <2>3. ASSUME mpc' \notin Shutdown, NEW p \in Pids, Step(p) \/ Mishap(p) \/ Handle(p) \/ Log(p)
        PROVE  NoTermYet' /\ Ledger'
    BY <2>3, StepLedger, MishapLedger
  <2>4. CASE /\ mpc' \notin Shutdown
             /\ (\E l \in Listeners : Connect(l)) \/ (\E s \in {"hup", "term"} : Signal(s))
                \/ UNCHANGED vars
    <3>1. mpc \notin Shutdown /\ UNCHANGED <<queue, serving, drift, pc, pend>>
      BY <2>4 DEF Connect, Signal, vars, kernel, child, master, bounds
    <3>2. Busy' = Busy
      BY <3>1 DEF Busy
    <3>3. QED BY <3>1, <3>2, LedgerSame DEF LedgerInv, NoTermYet
  <2>5. QED BY <2>1, <2>2, <2>3, <2>4 DEF Next
<1>3. LedgerInv <=> TableInv /\ NoTermYet /\ Ledger
  BY DEF LedgerInv
<1>4. QED BY <1>1, <1>2, <1>3, TableInvHolds, PTL DEF Spec

\* With the messages that are still in the queue, the counter `serving' of the
\* master is the number of children that hold a connection, but for the drift
\* that failed accepts, crashes and lost messages leave behind (minuted_wait,
\* the messages `a' and `c' of minuted_serve_prefork, minuted_serve_processor).
THEOREM LedgerHolds == Spec => []Ledger
<1>1. LedgerInv => Ledger
  BY DEF LedgerInv
<1>2. QED BY <1>1, LedgerInvHolds, PTL

---------------------------------------------------------------------------
(* Spare children                                                          *)

\* Nothing has failed, nobody has been told to go, and the master has not yet seen that
\* it is told to stop.
Regular == /\ mpc \notin Shutdown /\ faults = 0 /\ ~surplus
           /\ stop = "none" \/ mpc \in {"wait", "recv"}

\* Nobody is told to go, has gone, or has a connection to report that is none.
Undisturbed ==
    \A p \in Pids : /\ ~hup[p] /\ pend[p] = {} /\ pc[p] \notin Zombie
                    /\ pc[p] \in {"post", "sendA"} => sock[p] = "ok"

SparesEnough == Active - serving >= MinSpares \/ Active = MaxForks

SparesInv ==
    Regular => /\ Undisturbed /\ drift = 0
               /\ mpc = "boot" => serving = 0
               /\ mpc # "boot" => SparesEnough

\* Before a regular state there was a regular one.
LEMMA RegularBefore ==
    ASSUME TypeOK, [Next]_vars, Regular'
    PROVE  Regular
<1> USE DEF TypeOK, Regular, kernel, child, master, bounds, Fault, Shutdown
<1>1. CASE Master
  <2>1. CASE BootFork \/ OnAccepted \/ \E p \in Pids : Reap(p)
    <3>1. \/ faults' = faults
          \/ \E gone, isLate : Fork(gone, isLate)
      BY <2>1 DEF BootFork, OnAccepted, Reap
    <3>2. ASSUME NEW gone, NEW isLate, Fork(gone, isLate)
          PROVE  faults' = faults \/ faults' = faults + 1
      BY <3>2 DEF Fork
    <3>3. faults' = 0 => faults = 0
      BY <3>1, <3>2
    <3>4. UNCHANGED stop /\ (mpc' = mpc \/ mpc = "recv")
      BY <2>1 DEF BootFork, OnAccepted, Reap
    <3>5. surplus' = surplus
      BY <2>1 DEF BootFork, OnAccepted, Reap
    <3>6. QED BY <3>3, <3>4, <3>5
  <2>2. CASE BootDone \/ Top \/ WaitDone \/ OnClosed \/ OnLog
    BY <2>2 DEF BootDone, Top, WaitDone, OnClosed, OnLog
  <2>3. CASE Drain \/ DrainTimeout \/ FinalDone \/ \E p \in Pids : FinalWait(p)
    BY <2>3 DEF Drain, DrainTimeout, FinalDone, FinalWait
  <2>4. QED BY <1>1, <2>1, <2>2, <2>3 DEF Master
<1>2. ASSUME NEW p \in Pids, Step(p) \/ Mishap(p) \/ Handle(p) \/ Log(p)
      PROVE  Regular
  <2>1. faults' = 0 => faults = 0
    BY <1>2 DEF Step, Mishap, Handle, Log, LoopTest, SemWait, PollReady, PollTimeout, AcceptOk,
                SemPost, SendAccepted, Served, SendClosed, PollError, Crash, AcceptError,
                HandleHup, HandleTerm
  <2>2. UNCHANGED stop /\ (mpc' = mpc \/ mpc = "recv" \/ mpc' \in Shutdown)
    BY <1>2 DEF Step, Mishap, Handle, Log, LoopTest, SemWait, PollReady, PollTimeout, AcceptOk,
                SemPost, SendAccepted, Served, SendClosed, PollError, Crash, AcceptError,
                HandleHup, HandleTerm, Exit, Sigchld
  <2>3. surplus' = surplus
    BY <1>2 DEF Step, Mishap, Handle, Log, LoopTest, SemWait, PollReady, PollTimeout, AcceptOk,
                SemPost, SendAccepted, Served, SendClosed, PollError, Crash, AcceptError,
                HandleHup, HandleTerm
  <2>4. QED BY <2>1, <2>2, <2>3
<1>3. CASE \/ \E l \in Listeners : Connect(l)
           \/ \E s \in {"hup", "term"} : Signal(s)
           \/ UNCHANGED vars
  BY <1>3 DEF Connect, Signal, vars
<1>4. QED BY <1>1, <1>2, <1>3 DEF Next

\* A child that nobody disturbs goes round its loop, and reports what it has accepted.
LEMMA ChildUndisturbed ==
    ASSUME TypeOK, Undisturbed, faults = 0, faults' = 0, NEW p \in Pids,
           Step(p) \/ Mishap(p) \/ Handle(p) \/ Log(p)
    PROVE  Undisturbed' /\ UNCHANGED <<drift, master>>
<1> USE DEF TypeOK, Undisturbed, Goto, kernel, child, master, bounds, Zombie
<1>1. CASE LoopTest(p) BY <1>1 DEF LoopTest
<1>2. CASE SemWait(p) BY <1>2 DEF SemWait
<1>3. CASE PollReady(p) \/ PollTimeout(p) BY <1>3 DEF PollReady, PollTimeout
<1>4. CASE \E l \in Listeners : AcceptOk(p, l) BY <1>4 DEF AcceptOk
<1>5. CASE SemPost(p) BY <1>5 DEF SemPost
<1>6. CASE SendAccepted(p)
  <2>1. /\ pc' = [pc EXCEPT ![p] = "serve"] /\ sock' = [sock EXCEPT ![p] = "none"]
        /\ UNCHANGED <<hup, pend, drift, master>>
    <3>1. sock[p] = "ok"
      BY <1>6 DEF SendAccepted
    <3>2. AfterAccepted(p) = "serve"
      BY <3>1 DEF AfterAccepted
    <3>3. QED BY <1>6, <3>1, <3>2 DEF SendAccepted
  <2>2. QED BY <2>1
<1>7. CASE Served(p) \/ SendClosed(p) BY <1>7 DEF Served, SendClosed
<1>8. CASE Log(p) BY <1>8 DEF Log
<1>9. ~Mishap(p)
  BY DEF Mishap, PollError, Crash, AcceptError, Fault
<1>10. ~Handle(p)
  BY DEF Handle, HandleHup, HandleTerm
<1>11. QED BY <1>1, <1>2, <1>3, <1>4, <1>5, <1>6, <1>7, <1>8, <1>9, <1>10 DEF Step

\* A fork that does not fail adds a child, or finds the table full.
LEMMA ForkAdds ==
    ASSUME TableInv, Undisturbed, mpc \notin Shutdown, faults = 0, faults' = 0, stop = "none",
           NEW isLate, Fork({}, isLate)
    PROVE  /\ Undisturbed'
           /\ \/ Active' = Active + 1 /\ Active < MaxForks
              \/ Active' = Active /\ Active = MaxForks
<1> USE DEF TypeOK
<1>1. TypeOK /\ Active \in Nat /\ Active <= MaxForks /\ MaxForks \in Nat
  BY PreforkAssumption, FS_CardinalityType DEF TableInv, Active
<1>2. forks \ {} = forks
  OBVIOUS
<1>3. CASE Active >= MaxForks
  <2>1. Replace({}, {}, isLate)
    BY <1>2, <1>3 DEF Fork, Active
  <2>2. forks' = forks /\ Undisturbed'
    BY <1>1, <2>1 DEF Replace, Undisturbed
  <2>3. QED BY <1>1, <1>3, <2>2 DEF Active
<1>4. CASE ~(Active >= MaxForks)
  <2>1. PICK q \in Pids : pc[q] = "none" /\ Replace({}, {q}, isLate)
    BY <1>2, <1>4 DEF Fork, Active, Fault
  <2>2. forks' = forks \cup {q} /\ Undisturbed'
    BY <1>1, <2>1 DEF Replace, Undisturbed, Zombie
  <2>3. q \notin forks
    BY <2>1 DEF TableInv, TableIsChildren, Shutdown
  <2>4. Cardinality(forks') = Cardinality(forks) + 1
    BY <2>2, <2>3, FS_AddElement DEF TableInv
  <2>5. QED BY <1>1, <1>4, <2>2, <2>4 DEF Active
<1>5. QED BY <1>3, <1>4

\* The master forks a child for a connection that leaves too few spare.
LEMMA MasterSpares ==
    ASSUME MinSpares <= InitForks,
           TableInv, SparesInv, Regular, Regular', Master
    PROVE  Undisturbed' /\ drift' = 0 /\ (mpc' = "boot" => serving' = 0)
           /\ (mpc' # "boot" => SparesEnough')
<1> USE DEF kernel, child, master, bounds
<1>1. /\ TypeOK /\ Undisturbed /\ drift = 0 /\ Active \in Nat /\ Active <= MaxForks
      /\ serving \in Int /\ (mpc = "boot" => serving = 0) /\ (mpc # "boot" => SparesEnough)
      /\ mpc \notin Shutdown /\ faults = 0 /\ faults' = 0 /\ mpc' \notin Shutdown
      /\ MinSpares \in Nat /\ MaxForks \in Nat /\ MaxSpares \in Nat /\ InitForks \in Nat
  BY PreforkAssumption, FS_CardinalityType DEF TableInv, Active, SparesInv, Regular, TypeOK
<1>2. CASE BootFork
  <2>1. mpc = "boot" /\ mpc' = "boot" /\ stop = "none" /\ UNCHANGED <<serving, drift>>
    BY <1>2 DEF BootFork, Regular
  <2>2. Undisturbed'
    BY <1>1, <1>2, <2>1, ForkAdds DEF BootFork
  <2>3. QED BY <1>1, <2>1, <2>2
<1>3. CASE BootDone
  <2>1. /\ mpc = "boot" /\ mpc' = "top" /\ Active >= InitForks
        /\ UNCHANGED <<serving, drift, forks, hup, pend, pc, sock>>
    BY <1>1, <1>3 DEF BootDone
  <2>2. Active' = Active /\ Undisturbed'
    BY <1>1, <2>1 DEF Active, Undisturbed
  <2>3. QED BY <1>1, <2>1, <2>2 DEF SparesEnough
<1>4. CASE Top \/ WaitDone \/ OnLog
  <2>1. /\ mpc # "boot" /\ mpc' # "boot"
        /\ UNCHANGED <<serving, drift, forks, hup, pend, pc, sock>>
    BY <1>1, <1>4 DEF Top, WaitDone, OnLog, Shutdown
  <2>2. Active' = Active /\ Undisturbed'
    BY <1>1, <2>1 DEF Active, Undisturbed
  <2>3. QED BY <1>1, <2>1, <2>2 DEF SparesEnough
<1>5. CASE OnAccepted
  <2>1. /\ mpc = "recv" /\ mpc' = "top" /\ serving' = serving + 1 /\ drift' = drift
        /\ stop = "none"
    BY <1>5 DEF OnAccepted, Regular
  <2>2. CASE Active - (serving + 1) < MinSpares
    <3>1. Fork({}, TRUE)
      BY <1>5, <2>2 DEF OnAccepted
    <3>2. /\ Undisturbed'
          /\ \/ Active' = Active + 1 /\ Active < MaxForks
             \/ Active' = Active /\ Active = MaxForks
      <4>1. stop = "none" /\ mpc \notin Shutdown /\ faults = 0 /\ faults' = 0 /\ Undisturbed
        BY <1>1, <2>1
      <4>2. QED BY <3>1, <4>1, ForkAdds
    <3>3. SparesEnough'
      BY <1>1, <2>1, <2>2, <3>2 DEF SparesEnough
    <3>4. QED BY <1>1, <2>1, <3>2, <3>3
  <2>3. CASE ~(Active - (serving + 1) < MinSpares)
    <3>1. UNCHANGED <<child, forks>>
      BY <1>5, <2>3 DEF OnAccepted
    <3>2. Active' = Active /\ Undisturbed'
      BY <1>1, <3>1 DEF Active, Undisturbed
    <3>3. QED BY <1>1, <2>1, <2>3, <3>2 DEF SparesEnough
  <2>4. QED BY <2>2, <2>3
<1>6. CASE OnClosed
  <2>1. /\ mpc = "recv" /\ mpc' = "top" /\ serving' = serving - 1
        /\ UNCHANGED <<drift, forks, hup, pc, sock>>
    BY <1>6 DEF OnClosed
  <2>2. ~(Active - (serving - 1) > MaxSpares)
    BY <1>1, <1>6 DEF OnClosed, Regular
  <2>3. Kill({}, "hup")
    BY <1>6, <2>2 DEF OnClosed
  <2>4. Active' = Active /\ Undisturbed'
    BY <1>1, <2>1, <2>3 DEF Active, Undisturbed, Kill, TypeOK
  <2>5. QED BY <1>1, <2>1, <2>4 DEF SparesEnough
<1>7. ~(\E p \in Pids : Reap(p))
  BY <1>1 DEF Reap, Undisturbed
<1>8. ~(Drain \/ DrainTimeout \/ FinalDone \/ \E p \in Pids : FinalWait(p))
  BY <1>1 DEF Drain, DrainTimeout, FinalDone, FinalWait, Shutdown
<1>9. QED BY <1>2, <1>3, <1>4, <1>5, <1>6, <1>7, <1>8 DEF Master

\* Every step keeps the spare children, until one finds too many.
LEMMA SparesStep ==
    ASSUME MinSpares <= InitForks, TableInv, SparesInv, [Next]_vars
    PROVE  SparesInv'
<1> SUFFICES ASSUME Regular'
             PROVE  /\ Undisturbed' /\ drift' = 0
                    /\ mpc' = "boot" => serving' = 0
                    /\ mpc' # "boot" => SparesEnough'
  BY DEF SparesInv
<1>1. TypeOK /\ Regular
  BY RegularBefore DEF TableInv
<1>2. Undisturbed /\ drift = 0 /\ (mpc = "boot" => serving = 0)
      /\ (mpc # "boot" => SparesEnough)
  BY <1>1 DEF SparesInv
<1>3. ASSUME Undisturbed', UNCHANGED <<drift, forks, serving>>,
             mpc' = "boot" <=> mpc = "boot"
      PROVE  /\ Undisturbed' /\ drift' = 0
             /\ mpc' = "boot" => serving' = 0
             /\ mpc' # "boot" => SparesEnough'
  <2>1. Active' = Active BY <1>3 DEF Active
  <2>2. QED BY <1>2, <1>3, <2>1 DEF SparesEnough
<1>4. CASE Master
  BY <1>1, <1>4, MasterSpares
<1>5. ASSUME NEW p \in Pids, Step(p) \/ Mishap(p) \/ Handle(p) \/ Log(p)
      PROVE  Undisturbed' /\ UNCHANGED <<drift, master>>
  BY <1>1, <1>2, <1>5, ChildUndisturbed DEF Regular
<1>6. CASE \/ \E l \in Listeners : Connect(l)
           \/ \E s \in {"hup", "term"} : Signal(s)
           \/ UNCHANGED vars
  <2>1. UNCHANGED <<drift, forks, serving, hup, pend, pc, sock>>
    BY <1>6 DEF Connect, Signal, vars, kernel, child, master, bounds
  <2>2. mpc' = "boot" <=> mpc = "boot"
    BY <1>6 DEF Connect, Signal, vars, kernel, child, master, bounds
  <2>3. Undisturbed'
    BY <1>2, <2>1 DEF Undisturbed
  <2>4. QED BY <1>3, <2>1, <2>2, <2>3
<1>7. QED BY <1>3, <1>4, <1>5, <1>6 DEF Next, master

\* As long as nothing fails and no child has been found to be surplus, a master that has
\* handled every message has min_spares children that serve nobody, or a full table (the
\* rule of the message `a', minuted.c 582).  The hypothesis on the constants is what the
\* initial forks of minuted_serve_prefork provide.
THEOREM SparesKeptHolds ==
    ASSUME MinSpares <= InitForks
    PROVE  Spec => []SparesKept
<1>1. Init => SparesInv
  BY DEF Init, SparesInv, Undisturbed, Zombie
<1>2. TableInv /\ SparesInv /\ [Next]_vars => SparesInv'
  BY SparesStep
<1>3. SparesInv => SparesKept
  BY DEF SparesInv, SparesKept, Regular, SparesEnough, Shutdown
<1>4. QED BY <1>1, <1>2, <1>3, TableInvHolds, PTL DEF Spec
=============================================================================
