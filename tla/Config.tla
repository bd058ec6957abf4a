------------------------------- MODULE Config -------------------------------
(* The configuration file (minuted/config.c): a Tcl script, here the        *)
(* sequence of its commands, that fills two dictionaries.  A Tcl dictionary *)
(* keeps its keys in the order in which they were put.                      *)
EXTENDS Integers, Sequences, SequencesExt

CONSTANT Readable   \* application files that can be read

None == ""

\* vhost name {application ...}, listen key hosts, and whatever else makes `source'
\* end with anything but TCL_OK.
CommandType ==
    [cmd : {"vhost"}, name : STRING, apps : Seq(STRING)]
        \cup [cmd : {"listen"}, key : STRING, hosts : Seq(STRING)]
        \cup [cmd : {"error", "break"}]

Keys(d)       == {d[i][1] : i \in DOMAIN d}
Lookup(d, k)  == d[CHOOSE i \in DOMAIN d : d[i][1] = k][2]
DictPut(d, k, x) ==
    IF k \in Keys(d)
    THEN [i \in DOMAIN d |-> IF d[i][1] = k THEN <<k, x>> ELSE d[i]]
    ELSE Append(d, <<k, x>>)

Fail(c) == [c EXCEPT !.ok = FALSE]

\* A second `application' replaces the first; none at all is noticed when the
\* applications are loaded.
minuted_tcl_vhost(c, x) ==
    IF x.name \in Keys(c.vhosts) \/ ~ ToSet(x.apps) \subseteq Readable
    THEN Fail(c)
    ELSE [c EXCEPT !.vhosts = DictPut(@, x.name, IF x.apps = <<>> THEN None ELSE Last(x.apps))]

\* A host for an address, as a pair; hosts before one that is unknown stay.
AddHost(c, l) ==
    CASE ~c.ok -> c
      [] c.ok /\ l[2] \notin Keys(c.vhosts) -> Fail(c)
      [] OTHER -> LET hosts == DictPut(Lookup(c.listen, l[1]), l[2], Lookup(c.vhosts, l[2]))
                  IN  [c EXCEPT !.listen = DictPut(@, l[1], hosts)]

Listing == INSTANCE SeqFold WITH Step <- AddHost

AddHosts(c, x) == Listing!Fold(c, [j \in DOMAIN x.hosts |-> <<x.key, x.hosts[j]>>])

\* The hosts are added to those of the address; `+' adds none, and an address
\* without hosts will be given all.
minuted_tcl_listen(c, x) ==
    LET had == IF x.key \in Keys(c.listen) THEN c
               ELSE [c EXCEPT !.listen = DictPut(@, x.key, <<>>)]
    IN  IF x.hosts = <<"+">> THEN had ELSE AddHosts(had, x)

Command(c, x) ==
    CASE ~c.ok -> c
      [] c.ok /\ x.cmd = "vhost"  -> minuted_tcl_vhost(c, x)
      [] c.ok /\ x.cmd = "listen" -> minuted_tcl_listen(c, x)
      [] OTHER -> Fail(c)

Script == INSTANCE SeqFold WITH Step <- Command

\* Both dictionaries are made anew.  `ok' is a result of 0.
minuted_configure(script) ==
    Script!Fold([vhosts |-> <<>>, listen |-> <<>>, ok |-> TRUE], script)

---------------------------------------------------------------------------
(* What README.md says a file declares: order does not matter, nor does it  *)
(* matter to `+' where a virtual host is declared.                          *)

Commands(script, cmd) == {x \in ToSet(script) : x.cmd = cmd}
Addresses(script) == {x.key : x \in Commands(script, "listen")}
Hosts(script)     == {x.name : x \in Commands(script, "vhost")}
AppOf(script, h)  == Last((CHOOSE x \in Commands(script, "vhost") : x.name = h).apps)

Assigned(script, key) ==
    UNION {IF x.hosts = <<"+">> THEN Hosts(script) ELSE ToSet(x.hosts) :
              x \in {y \in Commands(script, "listen") : y.key = key}}

\* The virtual host for a Host header: itself, or the default one.
HostFor(script, key, host) == IF host \in Assigned(script, key) THEN host ELSE "default"

\* The application for it; None if the address has neither.
Declared(script, key, host) ==
    LET h == HostFor(script, key, host)
    IN  IF h \in Assigned(script, key) THEN AppOf(script, h) ELSE None

\* A file in which the two agree: an address that is given all hosts by `+' is given
\* none by name, any other is given one.
Plain(script) ==
    \A x \in Commands(script, "listen") :
        LET same == {y \in Commands(script, "listen") : y.key = x.key}
        IN  \/ \A y \in same : y.hosts = <<"+">>
            \/ (\A y \in same : y.hosts # <<"+">>) /\ \E y \in same : y.hosts # <<>>
=============================================================================
