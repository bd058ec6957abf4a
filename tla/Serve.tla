------------------------------- MODULE Serve -------------------------------
(* The life of the server process (minuted/main.c, minuted_serve and what   *)
(* it calls in minuted/minuted.c): configure, open the sockets, load the    *)
(* applications, serve, and start over on SIGHUP.  Serving itself is the    *)
(* subject of Prefork; here it lasts until it returns.                      *)
EXTENDS Config

CONSTANTS
    Scripts,    \* what the configuration file may hold
    Sources,    \* application files: which procs sourcing one defines, or that it fails
    MaxEdits,   \* bound: changes to the file
    MaxFaults   \* bound: failing system calls, children left behind

ASSUME ServeAssumption ==
    /\ Scripts \subseteq Seq(CommandType)
    /\ DOMAIN Sources = Readable
    /\ \A f \in Readable : Sources[f] \in [ok : BOOLEAN, procs : SUBSET {"headers", "payload", "response"}]
    /\ MaxEdits \in Nat /\ MaxFaults \in Nat

VARIABLES
    disk,        \* the configuration file
    conf,        \* c: the two dictionaries
    mpc,         \* where the process is
    i,           \* the loop variable of minuted_serve_listen and _load
    ssocks,      \* rs->ssocks: the address a socket is bound to, None for -1
    vhostListen, \* rs->tap.vhostListen
    vs,          \* rs->tap.v
    vhostMap,    \* rs->tap.vhostMap
    r,           \* what minuted_configure or minuted_serve has returned
    daemonize,   \* the option -d, until it is done
    open,        \* addresses of the sockets this process holds
    held,        \* those that a child of an earlier round still holds
    \* history and bounds
    loaded,      \* the script that was configured last
    edits, faults
runstate  == <<i, ssocks, vhostListen, vs, vhostMap>>
servevars == <<disk, conf, mpc, runstate, r, daemonize, open, held, loaded, edits, faults>>

SIGHUP == 1
Crashed == 99   \* any other result of minuted_serve_prefork

Fault == faults < MaxFaults /\ faults' = faults + 1

---------------------------------------------------------------------------
(* main                                                                    *)

\* An administrator edits the file, at any moment.
Edit ==
    /\ edits < MaxEdits /\ edits' = edits + 1
    /\ disk' \in Scripts \ {disk}
    /\ UNCHANGED <<conf, mpc, runstate, r, daemonize, open, held, loaded, faults>>

Configure ==
    /\ mpc = "configure"
    /\ conf' = minuted_configure(disk) /\ loaded' = disk
    /\ IF conf'.ok THEN mpc' = "fork" /\ UNCHANGED r
                   ELSE mpc' = "exit" /\ r' = 1
    /\ UNCHANGED <<disk, runstate, daemonize, open, held, edits, faults>>

\* Into the background, once; it ends there if the pid file cannot be created.
Daemonize ==
    /\ mpc = "fork"
    /\ UNCHANGED <<disk, conf, runstate, r, open, held, loaded, edits>>
    /\ daemonize' = FALSE
    /\ \/ mpc' = "serve" /\ UNCHANGED faults
       \/ daemonize /\ Fault /\ mpc' = "exit"

\* minuted_serve has returned: again on SIGHUP, else the end.
Switch ==
    /\ mpc = "switch"
    /\ mpc' = IF r = SIGHUP THEN "configure" ELSE "exit"
    /\ UNCHANGED <<disk, conf, runstate, r, daemonize, open, held, loaded, edits, faults>>

---------------------------------------------------------------------------
(* minuted_serve                                                           *)

Serving == UNCHANGED <<disk, conf, daemonize, loaded, edits>>

\* The runstate, all zero or -1.
Begin ==
    /\ mpc = "serve" /\ mpc' = "listen" /\ i' = 1
    /\ ssocks' = [j \in DOMAIN conf.listen |-> None]
    /\ vhostListen' = [j \in DOMAIN conf.listen |-> <<>>]
    /\ vs' = [j \in DOMAIN conf.vhosts |-> [app |-> None, nopayload |-> FALSE]]
    /\ vhostMap' = <<>>
    /\ UNCHANGED <<r, open, held, faults>> /\ Serving

Address == conf.listen[i][1]

\* One turn of the loop of minuted_serve_listen.
Listen ==
    /\ mpc = "listen" /\ i \in DOMAIN ssocks
    /\ Address \notin open \cup held
    /\ open' = open \cup {Address}
    /\ ssocks' = [ssocks EXCEPT ![i] = Address]
    /\ vhostListen' = [vhostListen EXCEPT ![i] =
                          IF conf.listen[i][2] = <<>> THEN conf.vhosts ELSE conf.listen[i][2]]
    /\ i' = i + 1
    /\ UNCHANGED <<mpc, vs, vhostMap, r, held, faults>> /\ Serving

Giveup == mpc' = "cleanup" /\ r' = -1

\* The address does not resolve, or there is no socket; or bind() or listen() fail,
\* as they do while somebody listens on the address, and the new socket is forgotten.
ListenFail ==
    /\ mpc = "listen" /\ i \in DOMAIN ssocks
    /\ \/ Fault /\ open' \in {open, open \cup {Address}}
       \/ Address \in open \cup held /\ open' = open \cup {Address} /\ UNCHANGED faults
    /\ Giveup
    /\ UNCHANGED <<runstate, held>> /\ Serving

ListenDone ==
    /\ mpc = "listen" /\ i \notin DOMAIN ssocks
    /\ mpc' = "load" /\ i' = 1
    /\ UNCHANGED <<ssocks, vhostListen, vs, vhostMap, r, open, held, faults>> /\ Serving

App == conf.vhosts[i][2]

Sound(f) == f # None /\ Sources[f].ok /\ {"headers", "response"} \subseteq Sources[f].procs

\* A mutant of Load: the map is filled before the array, with the next index.
LoadShifted ==
    /\ mpc = "load" /\ i \in DOMAIN vs /\ Sound(App)
    /\ vs' = [vs EXCEPT ![i] = [app |-> App, nopayload |-> "payload" \notin Sources[App].procs]]
    /\ vhostMap' = DictPut(vhostMap, conf.vhosts[i][1], (i % Len(vs)) + 1)
    /\ i' = i + 1
    /\ UNCHANGED <<mpc, ssocks, vhostListen, r, open, held, faults>> /\ Serving

\* One turn of the loop of minuted_serve_load.
Load ==
    /\ mpc = "load" /\ i \in DOMAIN vs /\ Sound(App)
    /\ vs' = [vs EXCEPT ![i] = [app |-> App, nopayload |-> "payload" \notin Sources[App].procs]]
    /\ vhostMap' = DictPut(vhostMap, conf.vhosts[i][1], i)
    /\ i' = i + 1
    /\ UNCHANGED <<mpc, ssocks, vhostListen, r, open, held, faults>> /\ Serving

LoadFail ==
    /\ mpc = "load" /\ i \in DOMAIN vs /\ ~Sound(App)
    /\ Giveup
    /\ UNCHANGED <<runstate, open, held, faults>> /\ Serving

LoadDone ==
    /\ mpc = "load" /\ i \notin DOMAIN vs
    /\ mpc' = "prefork"
    /\ UNCHANGED <<runstate, r, open, held, faults>> /\ Serving

\* minuted_serve_prefork returns: SIGTERM, SIGHUP or a failure.  Where the last
\* waitpid() was interrupted a child is left that has the sockets, too.
PreforkReturns ==
    /\ mpc = "prefork" /\ mpc' = "cleanup"
    /\ \/ r' \in {0, SIGHUP} /\ UNCHANGED <<held, faults>>
       \/ r' \in {0, SIGHUP} /\ Fault /\ held' = open
       \/ r' = Crashed /\ Fault /\ UNCHANGED held
    /\ UNCHANGED <<runstate, open>> /\ Serving

\* It ends, too, sooner or later.
LeftoverEnds ==
    /\ held # {} /\ held' = {}
    /\ UNCHANGED <<mpc, runstate, r, open, faults>> /\ Serving

\* A mutant of Cleanup: the last socket is overlooked.
CleanupShort ==
    /\ mpc = "cleanup" /\ mpc' = "switch"
    /\ open' = open \ {ssocks[j] : j \in 1 .. Len(ssocks) - 1}
    /\ vhostMap' = <<>> /\ vs' = <<>> /\ vhostListen' = <<>> /\ ssocks' = <<>>
    /\ UNCHANGED <<i, r, held, faults>> /\ Serving

\* Interpreters are deleted, the sockets that were noted are closed.
Cleanup ==
    /\ mpc = "cleanup" /\ mpc' = "switch"
    /\ open' = open \ ToSet(ssocks)
    /\ vhostMap' = <<>> /\ vs' = <<>> /\ vhostListen' = <<>> /\ ssocks' = <<>>
    /\ UNCHANGED <<i, r, held, faults>> /\ Serving

ServeInit ==
    /\ disk \in Scripts /\ loaded = <<>>
    /\ conf = [vhosts |-> <<>>, listen |-> <<>>, ok |-> TRUE]
    /\ mpc = "configure" /\ i = 1
    /\ ssocks = <<>> /\ vhostListen = <<>> /\ vs = <<>> /\ vhostMap = <<>>
    /\ r = 0 /\ daemonize \in BOOLEAN
    /\ open = {} /\ held = {} /\ edits = 0 /\ faults = 0

ServeNext ==
    Edit \/ Configure \/ Daemonize \/ Switch \/ Begin \/ Listen \/ ListenFail \/ ListenDone
        \/ Load \/ LoadFail \/ LoadDone \/ LeftoverEnds \/ Cleanup

---------------------------------------------------------------------------
(* Properties                                                              *)

Text    == STRING \cup {None}
MapType == Seq(STRING \X Text)

\* The dictionaries and arrays, and where the process is.
ServeTypeOK ==
    /\ disk \in Scripts /\ loaded \in Scripts \cup {<<>>}
    /\ conf.vhosts \in MapType /\ conf.listen \in Seq(STRING \X MapType)
    /\ mpc \in {"configure", "fork", "serve", "listen", "load", "prefork", "cleanup", "switch", "exit"}
    /\ i \in Nat /\ ssocks \in Seq(Text) /\ vhostListen \in Seq(MapType)
    /\ vs \in Seq([app : Text, nopayload : BOOLEAN])
    /\ vhostMap \in Seq(STRING \X Nat)
    /\ r \in {-1, 0, 1, SIGHUP, Crashed} /\ daemonize \in BOOLEAN
    /\ open \subseteq STRING /\ held \subseteq STRING
    /\ edits \in 0 .. MaxEdits /\ faults \in 0 .. MaxFaults

\* A file whose every command succeeds and whose every application is sound.
Proper(script) ==
    /\ minuted_configure(script).ok
    /\ \A h \in Hosts(script) : Sound(Lookup(minuted_configure(script).vhosts, h))

\* A server that is told to reload goes on serving, with as many sockets as it had
\* reason to open: if no call fails and the file is proper, only SIGTERM ends it.
\* (minuted_serve closes what it has opened, on every way out.)
Survives ==
    mpc = "exit" /\ faults = 0 /\ Proper(loaded) => r = 0
=============================================================================
