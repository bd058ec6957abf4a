---------------------------- MODULE Serve_proofs ----------------------------
(* The configuration and the life of the server around its rounds (Serve),  *)
(* for any configuration files, applications, edits and faults.             *)
EXTENDS Serve, SequenceTheorems, TLAPS

Adding     == INSTANCE SeqFold_proofs WITH Step <- AddHost
Commanding == INSTANCE SeqFold_proofs WITH Step <- Command

---------------------------------------------------------------------------
(* Dictionaries                                                            *)

\* A key occurs once.
Dict(d) == \A n, j \in DOMAIN d : d[n][1] = d[j][1] => n = j

\* The value is where the key is.
LEMMA LookupIs ==
    ASSUME NEW d, Dict(d), NEW n \in DOMAIN d
    PROVE  Lookup(d, d[n][1]) = d[n][2]
<1>1. (CHOOSE j \in DOMAIN d : d[j][1] = d[n][1]) = n
  BY DEF Dict
<1>2. QED BY <1>1 DEF Lookup

\* An entry under k is what e has and d may have; all others are the same.
Puts(d, k, x, e) ==
    /\ \E n \in DOMAIN e : e[n] = <<k, x>>
    /\ \A n \in DOMAIN d : n \in DOMAIN e /\ e[n][1] = d[n][1] /\ (d[n][1] # k => e[n] = d[n])
    /\ \A n \in DOMAIN e : n \in DOMAIN d \/ e[n][1] = k

\* A key that is there is given another value.
LEMMA PutOld ==
    ASSUME NEW T, NEW d \in Seq(STRING \X T), Dict(d), NEW k \in Keys(d), NEW x \in T
    PROVE  DictPut(d, k, x) \in Seq(STRING \X T) /\ Dict(DictPut(d, k, x))
           /\ Puts(d, k, x, DictPut(d, k, x))
<1> DEFINE y == <<k, x>>
           e == [n \in DOMAIN d |-> IF d[n][1] = k THEN y ELSE d[n]]
<1>1. DictPut(d, k, x) = e
  BY DEF DictPut
<1>2. PICK m \in DOMAIN d : d[m][1] = k
  BY DEF Keys
<1>3. \A n \in DOMAIN d : d[n] \in STRING \X T
  OBVIOUS
<1>4. k \in STRING /\ y \in STRING \X T /\ y[1] = k
  BY <1>2, <1>3
<1> HIDE DEF y
<1>5. \A n \in DOMAIN d : /\ e[n] \in STRING \X T /\ e[n][1] = d[n][1]
                          /\ d[n][1] # k => e[n] = d[n]
  BY <1>3, <1>4
<1>6. e[m] = y /\ DOMAIN e = DOMAIN d /\ DOMAIN d = 1 .. Len(d) /\ Len(d) \in Nat
  BY <1>2
<1>7. e \in Seq(STRING \X T)
  <2>1. e \in [1 .. Len(d) -> STRING \X T]
    BY <1>5, <1>6
  <2> HIDE DEF e
  <2>2. QED BY <1>6, <2>1, SeqDef
<1> HIDE DEF e
<1>8. Dict(e)
  BY <1>5, <1>6, Zenon DEF Dict
<1>9. Puts(d, k, x, e)
  BY <1>2, <1>5, <1>6, Zenon DEF Puts, y
<1>10. QED BY <1>1, <1>7, <1>8, <1>9, Zenon

\* A new key comes last.
LEMMA PutNew ==
    ASSUME NEW T, NEW d \in Seq(STRING \X T), Dict(d), NEW k \in STRING, k \notin Keys(d),
           NEW x \in T
    PROVE  DictPut(d, k, x) \in Seq(STRING \X T) /\ Dict(DictPut(d, k, x))
           /\ Puts(d, k, x, DictPut(d, k, x))
<1> DEFINE y == <<k, x>>
           e == Append(d, y)
           l == Len(d) + 1
<1>1. DictPut(d, k, x) = e
  BY DEF DictPut
<1>2. \A n \in DOMAIN d : d[n][1] # k
  BY DEF Keys
<1>3. y \in STRING \X T /\ y[1] = k
  OBVIOUS
<1> HIDE DEF y
<1>4. e \in Seq(STRING \X T) /\ e[l] = y /\ l \in DOMAIN e
  BY <1>3
<1>5. \A n \in DOMAIN d : n \in DOMAIN e /\ e[n] = d[n]
  BY <1>3
<1>6. \A n \in DOMAIN e : n \in DOMAIN d \/ n = l
  BY <1>3
<1> HIDE DEF e, l
<1>7. e[l][1] = k
  BY <1>3, <1>4, Zenon
<1>8. Dict(e)
  BY <1>2, <1>5, <1>6, <1>7, Zenon DEF Dict
<1>9. Puts(d, k, x, e)
  BY <1>4, <1>5, <1>6, <1>7, Zenon DEF Puts, y
<1>10. QED BY <1>1, <1>4, <1>8, <1>9, Zenon

\* A value is put under its key, and the others stay.
Changed(d, k, x, e) ==
    /\ Dict(e) /\ Keys(e) = Keys(d) \cup {k} /\ Lookup(e, k) = x
    /\ \A h \in Keys(d) : h # k => Lookup(e, h) = Lookup(d, h)

LEMMA PutLooks ==
    ASSUME NEW T, NEW d \in Seq(STRING \X T), Dict(d), NEW k \in STRING, NEW x \in T
    PROVE  DictPut(d, k, x) \in Seq(STRING \X T) /\ Changed(d, k, x, DictPut(d, k, x))
<1> DEFINE e == DictPut(d, k, x)
<1>1. e \in Seq(STRING \X T) /\ Dict(e) /\ Puts(d, k, x, e)
  BY PutOld, PutNew, Zenon
<1> HIDE DEF e
<1>2. PICK m \in DOMAIN e : e[m] = <<k, x>>
  BY <1>1, Zenon DEF Puts
<1>3. e[m][1] = k /\ e[m][2] = x
  BY <1>2
<1>4. Keys(e) = Keys(d) \cup {k}
  <2>1. \A n \in DOMAIN d : n \in DOMAIN e /\ e[n][1] = d[n][1]
    BY <1>1, Zenon DEF Puts
  <2>2. \A n \in DOMAIN e : n \in DOMAIN d \/ e[n][1] = k
    BY <1>1, Zenon DEF Puts
  <2>3. Keys(e) \subseteq Keys(d) \cup {k}
    <3> SUFFICES ASSUME NEW n \in DOMAIN e PROVE e[n][1] \in Keys(d) \cup {k}
      BY DEF Keys
    <3>1. CASE n \in DOMAIN d
      BY <2>1, <3>1, Zenon DEF Keys
    <3>2. CASE e[n][1] = k
      BY <3>2
    <3>3. QED BY <2>2, <3>1, <3>2
  <2>4. Keys(d) \subseteq Keys(e) /\ k \in Keys(e)
    BY <1>3, <2>1, Zenon DEF Keys
  <2>5. QED BY <2>3, <2>4
<1>5. Lookup(e, k) = x
  BY <1>1, <1>3, LookupIs, Zenon
<1>6. ASSUME NEW h \in Keys(d), h # k
      PROVE  Lookup(e, h) = Lookup(d, h)
  <2>1. PICK n \in DOMAIN d : d[n][1] = h
    BY Zenon DEF Keys
  <2>2. e[n] = d[n] /\ n \in DOMAIN e
    BY <1>1, <1>6, <2>1, Zenon DEF Puts
  <2>3. QED BY <1>1, <2>1, <2>2, LookupIs, Zenon
<1>7. QED BY <1>1, <1>4, <1>5, <1>6 DEF e, Changed

\* A key has a value.
LEMMA LookupType ==
    ASSUME NEW T, NEW d \in Seq(STRING \X T), NEW k \in Keys(d)
    PROVE  Lookup(d, k) \in T
<1>1. PICK n \in DOMAIN d : d[n][1] = k
  BY DEF Keys
<1> DEFINE m == CHOOSE j \in DOMAIN d : d[j][1] = k
<1>2. m \in DOMAIN d
  BY <1>1
<1>3. d[m] \in STRING \X T
  BY <1>2
<1>4. QED BY <1>3 DEF Lookup

---------------------------------------------------------------------------
(* What the commands of a file make                                        *)

\* A dictionary of hosts that are declared, with their applications.
Agrees(d, v) == Dict(d) /\ \A h \in Keys(d) : h \in Keys(v) /\ Lookup(d, h) = Lookup(v, h)

\* The two dictionaries, as one command hands them to the next.
ConfType == [vhosts : MapType, listen : Seq(STRING \X MapType), ok : BOOLEAN]
Sane(c)  == /\ c \in ConfType /\ Dict(c.vhosts) /\ Dict(c.listen)
            /\ \A k \in Keys(c.listen) : Agrees(Lookup(c.listen, k), c.vhosts)

\* Changes of one field.
LEMMA ConfFields ==
    ASSUME NEW c \in ConfType, NEW x
    PROVE  /\ [c EXCEPT !.ok = x] = [vhosts |-> c.vhosts, listen |-> c.listen, ok |-> x]
           /\ [c EXCEPT !.listen = x] = [vhosts |-> c.vhosts, listen |-> x, ok |-> c.ok]
           /\ [c EXCEPT !.vhosts = x] = [vhosts |-> x, listen |-> c.listen, ok |-> c.ok]
           /\ c.vhosts \in MapType /\ c.listen \in Seq(STRING \X MapType) /\ c.ok \in BOOLEAN
BY DEF ConfType

\* A command that fails changes nothing else.
LEMMA FailIs ==
    ASSUME NEW c, Sane(c)
    PROVE  /\ Fail(c) = [vhosts |-> c.vhosts, listen |-> c.listen, ok |-> FALSE]
           /\ Sane(Fail(c)) /\ Fail(c).vhosts = c.vhosts /\ Fail(c).listen = c.listen
           /\ ~Fail(c).ok
<1>1. Fail(c) = [vhosts |-> c.vhosts, listen |-> c.listen, ok |-> FALSE]
  BY ConfFields DEF Fail, Sane
<1>2. QED BY <1>1, ConfFields DEF Sane, ConfType

\* What a turn of the loop over the hosts does: nothing after a failure, ...
LEMMA AddHostIs ==
    ASSUME NEW c, NEW l
    PROVE  /\ ~c.ok => AddHost(c, l) = c
           /\ c.ok /\ l[2] \notin Keys(c.vhosts) => AddHost(c, l) = Fail(c)
           /\ c.ok /\ l[2] \in Keys(c.vhosts) =>
                 AddHost(c, l) =
                     [c EXCEPT !.listen = DictPut(@, l[1],
                         DictPut(Lookup(c.listen, l[1]), l[2], Lookup(c.vhosts, l[2])))]
BY Zenon DEF AddHost

\* The hosts of an address, none for another.
HostsAt(c, k) == IF k \in Keys(c.listen) THEN Keys(Lookup(c.listen, k)) ELSE {}

\* Hosts in H are added to the address k.
Lists(c, d, k, H) ==
    /\ Sane(d) /\ d.vhosts = c.vhosts /\ Keys(d.listen) = Keys(c.listen) \cup {k}
    /\ d.ok => /\ c.ok
               /\ \A a : HostsAt(d, a) = HostsAt(c, a) \cup (IF a = k THEN H ELSE {})

\* A dictionary of hosts is put under an address.
LEMMA ListenPut ==
    ASSUME NEW c, Sane(c), NEW k \in STRING, NEW hosts \in MapType, Agrees(hosts, c.vhosts)
    PROVE  LET d == [c EXCEPT !.listen = DictPut(@, k, hosts)]
           IN  /\ Sane(d) /\ d.vhosts = c.vhosts /\ d.ok = c.ok
               /\ Keys(d.listen) = Keys(c.listen) \cup {k}
               /\ HostsAt(d, k) = Keys(hosts)
               /\ \A a : a # k => HostsAt(d, a) = HostsAt(c, a)
<1> DEFINE l == DictPut(c.listen, k, hosts)
           d == [c EXCEPT !.listen = DictPut(@, k, hosts)]
<1>1. /\ d = [vhosts |-> c.vhosts, listen |-> l, ok |-> c.ok]
      /\ c.vhosts \in MapType /\ c.listen \in Seq(STRING \X MapType) /\ c.ok \in BOOLEAN
      /\ Dict(c.vhosts) /\ Dict(c.listen)
  BY ConfFields DEF Sane
<1>2. /\ l \in Seq(STRING \X MapType) /\ Dict(l) /\ Keys(l) = Keys(c.listen) \cup {k}
      /\ Lookup(l, k) = hosts
      /\ \A h \in Keys(c.listen) : h # k => Lookup(l, h) = Lookup(c.listen, h)
  <2>1. l \in Seq(STRING \X MapType) /\ Changed(c.listen, k, hosts, l)
    BY <1>1, PutLooks, Zenon
  <2>2. QED BY <2>1, Zenon DEF Changed
<1> HIDE DEF l
<1>3. d.vhosts = c.vhosts /\ d.listen = l /\ d.ok = c.ok /\ d \in ConfType
  BY <1>1, <1>2 DEF ConfType
<1> HIDE DEF d
<1>4. \A h \in Keys(l) : Agrees(Lookup(l, h), c.vhosts)
  BY <1>2 DEF Sane
<1>5. Sane(d)
  BY <1>1, <1>2, <1>3, <1>4 DEF Sane
<1>6. HostsAt(d, k) = Keys(hosts)
  BY <1>2, <1>3 DEF HostsAt
<1>7. \A a : a # k => HostsAt(d, a) = HostsAt(c, a)
  BY <1>2, <1>3 DEF HostsAt
<1>8. QED BY <1>2, <1>3, <1>5, <1>6, <1>7 DEF d

\* A turn of the loop over the hosts of an address.
LEMMA AddHostDoes ==
    ASSUME NEW c, Sane(c), NEW k \in Keys(c.listen), k \in STRING, NEW h \in STRING
    PROVE  Lists(c, AddHost(c, <<k, h>>), k, {h})
<1> DEFINE l == <<k, h>>
           d == AddHost(c, l)
<1>1. l[1] = k /\ l[2] = h
  OBVIOUS
<1> HIDE DEF l
<1>2. CASE ~c.ok
  BY <1>2, AddHostIs DEF Lists
<1>3. CASE c.ok /\ h \notin Keys(c.vhosts)
  BY <1>1, <1>3, AddHostIs, FailIs DEF Lists
<1>4. CASE c.ok /\ h \in Keys(c.vhosts)
  <2> DEFINE old == Lookup(c.listen, k)
             hosts == DictPut(old, h, Lookup(c.vhosts, h))
  <2>1. d = [c EXCEPT !.listen = DictPut(@, k, hosts)]
    BY <1>1, <1>4, AddHostIs, Zenon
  <2>2. /\ c.vhosts \in MapType /\ c.listen \in Seq(STRING \X MapType)
        /\ Agrees(old, c.vhosts) /\ Dict(old)
    BY ConfFields DEF Sane, Agrees
  <2>3. old \in MapType /\ Lookup(c.vhosts, h) \in Text
    BY <1>4, <2>2, LookupType DEF MapType
  <2> DEFINE x == Lookup(c.vhosts, h)
  <2>4. /\ hosts \in MapType /\ Dict(hosts) /\ Keys(hosts) = Keys(old) \cup {h}
        /\ Lookup(hosts, h) = x
        /\ \A g \in Keys(old) : g # h => Lookup(hosts, g) = Lookup(old, g)
    <3>1. old \in Seq(STRING \X Text) /\ x \in Text
      BY <2>3 DEF MapType
    <3> HIDE DEF old, x
    <3>2. DictPut(old, h, x) \in Seq(STRING \X Text) /\ Changed(old, h, x, DictPut(old, h, x))
      BY <2>2, <3>1, PutLooks, Zenon
    <3>3. QED BY <3>2 DEF MapType, x, Changed
  <2> HIDE DEF hosts
  <2>5. Agrees(hosts, c.vhosts)
    BY <1>4, <2>2, <2>4 DEF Agrees
  <2>6. /\ Sane(d) /\ d.vhosts = c.vhosts /\ d.ok = c.ok
        /\ Keys(d.listen) = Keys(c.listen) \cup {k}
        /\ HostsAt(d, k) = Keys(hosts)
        /\ \A a : a # k => HostsAt(d, a) = HostsAt(c, a)
    <3> HIDE DEF d
    <3>1. QED BY <2>1, <2>4, <2>5, ListenPut
  <2>7. HostsAt(c, k) = Keys(old)
    BY DEF HostsAt
  <2> HIDE DEF d, old
  <2>8. \A a : HostsAt(d, a) = HostsAt(c, a) \cup (IF a = k THEN {h} ELSE {})
    BY <2>4, <2>6, <2>7
  <2>9. QED BY <1>4, <2>6, <2>8 DEF Lists, d, l
<1>5. QED BY <1>2, <1>3, <1>4

\* Additions one after the other.
LEMMA ListsOn ==
    ASSUME NEW c, NEW d, NEW e, NEW k, NEW G, NEW H,
           Lists(c, d, k, G), Lists(d, e, k, H)
    PROVE  Lists(c, e, k, G \cup H)
<1>1. Sane(e) /\ e.vhosts = c.vhosts /\ Keys(e.listen) = Keys(c.listen) \cup {k}
  BY DEF Lists
<1>2. ASSUME e.ok
      PROVE  c.ok /\ \A a : HostsAt(e, a) = HostsAt(c, a) \cup (IF a = k THEN G \cup H ELSE {})
  <2>1. /\ d.ok /\ c.ok
        /\ \A a : HostsAt(e, a) = HostsAt(d, a) \cup (IF a = k THEN H ELSE {})
        /\ \A a : HostsAt(d, a) = HostsAt(c, a) \cup (IF a = k THEN G ELSE {})
    BY <1>2, Zenon DEF Lists
  <2>2. QED BY <2>1
<1>3. QED BY <1>1, <1>2, Zenon DEF Lists

\* The loop over the hosts of an address.
LEMMA AddHostsDoes ==
    ASSUME NEW c, Sane(c), NEW x, x.key \in Keys(c.listen), x.key \in STRING,
           x.hosts \in Seq(STRING)
    PROVE  Lists(c, AddHosts(c, x), x.key, ToSet(x.hosts))
<1> DEFINE k == x.key
           hs == x.hosts
           s == [j \in DOMAIN hs |-> <<k, hs[j]>>]
           H(n) == {hs[j] : j \in 1 .. n}
           I == [n \in 0 .. Len(hs) |-> {d \in ConfType : Lists(c, d, k, H(n))}]
<1>1. DOMAIN hs = 1 .. Len(hs) /\ Len(hs) \in Nat /\ \A j \in 1 .. Len(hs) : hs[j] \in STRING
  OBVIOUS
<1>2. Len(s) = Len(hs) /\ \A j \in 1 .. Len(hs) : s[j] = <<k, hs[j]>>
  BY <1>1
<1>3. AddHosts(c, x) = Adding!Fold(c, s)
  BY DEF AddHosts, Listing!Fold, Adding!Fold
<1> HIDE DEF k, hs, s
<1>4. ASSUME NEW n \in 0 .. Len(hs), NEW d
      PROVE  d \in I[n] <=> Lists(c, d, k, H(n))
  <2>1. Lists(c, d, k, H(n)) => d \in ConfType
    BY Zenon DEF Lists, Sane
  <2>2. QED BY <1>4, <2>1
<1> HIDE DEF I
<1>5. H(0) = {}
  OBVIOUS
<1>6. c \in I[0]
  <2>2. Lists(c, c, k, {})
    BY DEF Lists, k
  <2>3. QED BY <1>1, <1>4, <1>5, <2>2
<1>7. ASSUME NEW n \in 1 .. Len(s), NEW d \in I[n - 1]
      PROVE  AddHost(d, s[n]) \in I[n]
  <2>1. Lists(c, d, k, H(n - 1))
    <3> HIDE DEF H
    <3>1. n - 1 \in 0 .. Len(hs) /\ d \in I[n - 1]
      BY <1>1, <1>2, <1>7
    <3>2. QED BY <1>4, <3>1
  <2>2. s[n] = <<k, hs[n]>> /\ hs[n] \in STRING
    BY <1>1, <1>2
  <2>3. Sane(d) /\ k \in Keys(d.listen)
    BY <2>1 DEF Lists
  <2>4. Lists(d, AddHost(d, s[n]), k, {hs[n]})
    BY <2>2, <2>3, AddHostDoes DEF k
  <2>5. H(n) = H(n - 1) \cup {hs[n]}
    BY <1>2
  <2>6. Lists(c, AddHost(d, s[n]), k, H(n))
    <3> HIDE DEF H
    <3>1. Lists(c, AddHost(d, s[n]), k, H(n - 1) \cup {hs[n]})
      BY <2>1, <2>4, ListsOn
    <3>2. QED BY <2>5, <3>1
  <2> HIDE DEF H
  <2>7. QED BY <1>1, <1>2, <1>4, <2>6
<1>8. Adding!Fold(c, s) \in I[Len(s)]
  <2>1. Len(s) \in Nat
    BY <1>1, <1>2
  <2>2. \A n \in 1 .. Len(s) : \A d \in I[n - 1] : AddHost(d, s[n]) \in I[n]
    BY <1>7
  <2>3. QED BY <1>6, <2>1, <2>2, Adding!FoldInvariant
<1>9. H(Len(hs)) = ToSet(hs)
  BY <1>1 DEF ToSet
<1> HIDE DEF H
<1>10. Lists(c, Adding!Fold(c, s), k, H(Len(hs)))
  BY <1>1, <1>2, <1>8, <1>4
<1>11. QED BY <1>3, <1>9, <1>10 DEF k, hs

\* What `listen' adds to its address.
Given(x) == IF x.hosts = <<"+">> THEN {} ELSE ToSet(x.hosts)

ListenCommand == [cmd : {"listen"}, key : STRING, hosts : Seq(STRING)]
VhostCommand  == [cmd : {"vhost"}, name : STRING, apps : Seq(STRING)]

LEMMA ListenDoes ==
    ASSUME NEW c, Sane(c), NEW x \in ListenCommand
    PROVE  Lists(c, minuted_tcl_listen(c, x), x.key, Given(x))
<1> DEFINE had == IF x.key \in Keys(c.listen) THEN c
                  ELSE [c EXCEPT !.listen = DictPut(@, x.key, <<>>)]
<1>1. x.key \in STRING /\ x.hosts \in Seq(STRING)
  BY DEF ListenCommand
<1>2. minuted_tcl_listen(c, x) = IF x.hosts = <<"+">> THEN had ELSE AddHosts(had, x)
  BY DEF minuted_tcl_listen
<1>3. Lists(c, had, x.key, {})
  <2>1. CASE x.key \in Keys(c.listen)
    BY <2>1 DEF Lists
  <2>2. CASE x.key \notin Keys(c.listen)
    <3>1. <<>> \in MapType /\ Keys(<<>>) = {} /\ Agrees(<<>>, c.vhosts)
      BY DEF MapType, Keys, Agrees, Dict
    <3>2. had = [c EXCEPT !.listen = DictPut(@, x.key, <<>>)]
      BY <2>2
    <3> HIDE DEF had
    <3> DEFINE d == [c EXCEPT !.listen = DictPut(@, x.key, <<>>)]
    <3>3. /\ Sane(d) /\ d.vhosts = c.vhosts /\ d.ok = c.ok
          /\ Keys(d.listen) = Keys(c.listen) \cup {x.key}
          /\ HostsAt(d, x.key) = Keys(<<>>)
          /\ \A a : a # x.key => HostsAt(d, a) = HostsAt(c, a)
      BY <1>1, <3>1, ListenPut, Zenon
    <3> HIDE DEF d
    <3>4. /\ Sane(had) /\ had.vhosts = c.vhosts /\ had.ok = c.ok
          /\ Keys(had.listen) = Keys(c.listen) \cup {x.key}
          /\ HostsAt(had, x.key) = {}
          /\ \A a : a # x.key => HostsAt(had, a) = HostsAt(c, a)
      BY <3>1, <3>2, <3>3 DEF d
    <3>5. HostsAt(c, x.key) = {}
      BY <2>2 DEF HostsAt
    <3>6. \A a : HostsAt(had, a) = HostsAt(c, a) \cup (IF a = x.key THEN {} ELSE {})
      BY <3>4, <3>5
    <3>7. QED BY <3>4, <3>6, Zenon DEF Lists
  <2>3. QED BY <2>1, <2>2
<1> HIDE DEF had
<1>4. CASE x.hosts = <<"+">>
  BY <1>2, <1>3, <1>4 DEF Given
<1>5. CASE x.hosts # <<"+">>
  <2>1. Lists(had, AddHosts(had, x), x.key, ToSet(x.hosts))
    BY <1>1, <1>3, AddHostsDoes DEF Lists
  <2>2. Lists(c, AddHosts(had, x), x.key, {} \cup ToSet(x.hosts))
    BY <1>3, <2>1, ListsOn
  <2>3. QED BY <1>2, <1>5, <2>2 DEF Given
<1>6. QED BY <1>4, <1>5

\* The application file that `vhost' takes: the last one.
Chosen(x) == IF x.apps = <<>> THEN None ELSE Last(x.apps)

\* A virtual host is declared once.
LEMMA VhostDoes ==
    ASSUME NEW c, Sane(c), NEW x \in VhostCommand, NEW d, d = minuted_tcl_vhost(c, x)
    PROVE  /\ Sane(d) /\ d.listen = c.listen
           /\ d.ok => c.ok /\ x.name \notin Keys(c.vhosts)
                      /\ Changed(c.vhosts, x.name, Chosen(x), d.vhosts)
<1> DEFINE a == Chosen(x)
           v == DictPut(c.vhosts, x.name, a)
<1>1. x.name \in STRING /\ a \in Text
  <2>1. x.name \in STRING /\ x.apps \in Seq(STRING)
    BY DEF VhostCommand
  <2>2. x.apps # <<>> => x.apps[Len(x.apps)] \in STRING
    BY <2>1
  <2>3. a = None \/ (x.apps # <<>> /\ a = x.apps[Len(x.apps)])
    BY Zenon DEF Chosen, Last
  <2> HIDE DEF a
  <2>4. QED BY <2>1, <2>2, <2>3 DEF Text
<1>2. CASE d = Fail(c)
  BY <1>2, FailIs
<1>3. CASE d # Fail(c)
  <2>1. /\ x.name \notin Keys(c.vhosts)
        /\ d = [c EXCEPT !.vhosts = v]
    BY <1>3, Zenon DEF minuted_tcl_vhost, Chosen
  <2>2. /\ c.vhosts \in MapType /\ c.listen \in Seq(STRING \X MapType) /\ c.ok \in BOOLEAN
        /\ Dict(c.vhosts) /\ Dict(c.listen)
        /\ d = [vhosts |-> v, listen |-> c.listen, ok |-> c.ok]
    BY <2>1, ConfFields, Zenon DEF Sane
  <2>3. v \in MapType /\ Changed(c.vhosts, x.name, a, v)
    <3> HIDE DEF a
    <3>1. QED BY <1>1, <2>2, PutLooks, Zenon DEF MapType
  <2> HIDE DEF v, a
  <2>4. d \in ConfType /\ d.vhosts = v /\ d.listen = c.listen /\ d.ok = c.ok
    BY <2>2, <2>3 DEF ConfType
  <2>5. ASSUME NEW k \in Keys(c.listen)
        PROVE  Agrees(Lookup(c.listen, k), v)
    <3> DEFINE hosts == Lookup(c.listen, k)
    <3>1. Agrees(hosts, c.vhosts)
      BY DEF Sane
    <3> HIDE DEF hosts
    <3>2. QED BY <2>1, <2>3, <3>1 DEF Agrees, Changed, hosts
  <2>6. Sane(d)
    BY <2>2, <2>3, <2>4, <2>5 DEF Sane, Changed
  <2>7. QED BY <2>1, <2>3, <2>4, <2>6 DEF a
<1>4. QED BY <1>2, <1>3

\* What a command does to the dictionaries, unless it fails.
Does(c, x, d) ==
    \/ /\ x.cmd = "vhost" /\ d.listen = c.listen /\ x.name \notin Keys(c.vhosts)
       /\ Changed(c.vhosts, x.name, Chosen(x), d.vhosts)
    \/ /\ x.cmd = "listen" /\ d.vhosts = c.vhosts /\ Keys(d.listen) = Keys(c.listen) \cup {x.key}
       /\ \A a : HostsAt(d, a) = HostsAt(c, a) \cup (IF a = x.key THEN Given(x) ELSE {})

LEMMA CommandDoes ==
    ASSUME NEW c, Sane(c), NEW x \in CommandType, NEW d, d = Command(c, x)
    PROVE  Sane(d) /\ (d.ok => c.ok /\ Does(c, x, d))
<1>1. CASE ~c.ok
  <2>1. d = c
    BY <1>1, Zenon DEF Command
  <2>2. QED BY <1>1, <2>1
<1>2. CASE c.ok /\ x.cmd = "vhost"
  <2>1. d = minuted_tcl_vhost(c, x)
    BY <1>2, Zenon DEF Command
  <2>2. x \in VhostCommand
    BY <1>2 DEF CommandType, VhostCommand
  <2>3. QED BY <1>2, <2>1, <2>2, VhostDoes, Zenon DEF Does
<1>3. CASE c.ok /\ x.cmd = "listen"
  <2>1. d = minuted_tcl_listen(c, x)
    BY <1>3 DEF Command
  <2>2. x \in ListenCommand
    BY <1>3 DEF CommandType, ListenCommand
  <2>3. Lists(c, d, x.key, Given(x))
    BY <2>1, <2>2, ListenDoes
  <2>4. QED BY <1>3, <2>3, Zenon DEF Does, Lists
<1>4. CASE c.ok /\ x.cmd \notin {"vhost", "listen"}
  <2>1. d = Fail(c)
    BY <1>4 DEF Command
  <2>2. QED BY <2>1, FailIs
<1>5. QED BY <1>1, <1>2, <1>3, <1>4

---------------------------------------------------------------------------
(* What the file makes                                                     *)

\* The first n commands of the script that are of a kind.
At(s, n, cmd) == {j \in 1 .. n : s[j].cmd = cmd}
From(s, n, k) == {j \in At(s, n, "listen") : s[j].key = k}

\* After n commands the dictionaries are those commands.
Reads(s, n, c) ==
    /\ Sane(c)
    /\ c.ok => /\ Keys(c.vhosts) = {s[j].name : j \in At(s, n, "vhost")}
               /\ \A j \in At(s, n, "vhost") : Lookup(c.vhosts, s[j].name) = Chosen(s[j])
               /\ Keys(c.listen) = {s[j].key : j \in At(s, n, "listen")}
               /\ \A a : HostsAt(c, a) = UNION {Given(s[j]) : j \in From(s, n, a)}

\* Before the first.
LEMMA ReadNothing ==
    ASSUME NEW s
    PROVE  Reads(s, 0, [vhosts |-> <<>>, listen |-> <<>>, ok |-> TRUE])
<1> DEFINE c == [vhosts |-> <<>>, listen |-> <<>>, ok |-> TRUE]
<1>1. Sane(c)
  BY DEF Sane, ConfType, MapType, Dict, Keys
<1>2. \A cmd : At(s, 0, cmd) = {}
  BY DEF At
<1>3. Keys(<<>>) = {} /\ \A a : HostsAt(c, a) = {} /\ From(s, 0, a) = {}
  BY <1>2 DEF Keys, HostsAt, From
<1>4. QED BY <1>1, <1>2, <1>3 DEF Reads

\* One more.
LEMMA ReadNext ==
    ASSUME NEW s, NEW n \in Nat \ {0}, s[n] \in CommandType,
           NEW c, Reads(s, n - 1, c)
    PROVE  Reads(s, n, Command(c, s[n]))
<1> DEFINE x == s[n]
           d == Command(c, x)
<1>1. Sane(c) /\ Sane(d) /\ (d.ok => c.ok /\ Does(c, x, d))
  <2>1. Sane(c)
    BY DEF Reads
  <2>2. QED BY <2>1, CommandDoes
<1> SUFFICES ASSUME d.ok
             PROVE  /\ Keys(d.vhosts) = {s[j].name : j \in At(s, n, "vhost")}
                    /\ \A j \in At(s, n, "vhost") : Lookup(d.vhosts, s[j].name) = Chosen(s[j])
                    /\ Keys(d.listen) = {s[j].key : j \in At(s, n, "listen")}
                    /\ \A a : HostsAt(d, a) = UNION {Given(s[j]) : j \in From(s, n, a)}
  BY <1>1, Zenon DEF Reads
<1> HIDE DEF d
<1>2. /\ Keys(c.vhosts) = {s[j].name : j \in At(s, n - 1, "vhost")}
      /\ \A j \in At(s, n - 1, "vhost") : Lookup(c.vhosts, s[j].name) = Chosen(s[j])
      /\ Keys(c.listen) = {s[j].key : j \in At(s, n - 1, "listen")}
      /\ \A a : HostsAt(c, a) = UNION {Given(s[j]) : j \in From(s, n - 1, a)}
  BY <1>1, Zenon DEF Reads
<1>3. \A cmd : At(s, n, cmd) = At(s, n - 1, cmd) \cup (IF x.cmd = cmd THEN {n} ELSE {})
  BY DEF At
<1>4. CASE x.cmd = "vhost"
  <2>1. /\ d.listen = c.listen /\ x.name \notin Keys(c.vhosts)
        /\ Changed(c.vhosts, x.name, Chosen(x), d.vhosts)
    BY <1>1, <1>4, Zenon DEF Does
  <2>2. At(s, n, "vhost") = At(s, n - 1, "vhost") \cup {n} /\ At(s, n, "listen") = At(s, n - 1, "listen")
    BY <1>3, <1>4
  <2>3. Keys(d.vhosts) = {s[j].name : j \in At(s, n, "vhost")}
    BY <1>2, <2>1, <2>2 DEF Changed
  <2>4. \A j \in At(s, n, "vhost") : Lookup(d.vhosts, s[j].name) = Chosen(s[j])
    BY <1>2, <2>1, <2>2 DEF Changed
  <2>5. \A a : HostsAt(d, a) = HostsAt(c, a) /\ From(s, n, a) = From(s, n - 1, a)
    BY <2>1, <2>2 DEF HostsAt, From
  <2>6. QED BY <1>2, <2>1, <2>2, <2>3, <2>4, <2>5
<1>5. CASE x.cmd = "listen"
  <2>1. /\ d.vhosts = c.vhosts /\ Keys(d.listen) = Keys(c.listen) \cup {x.key}
        /\ \A a : HostsAt(d, a) = HostsAt(c, a) \cup (IF a = x.key THEN Given(x) ELSE {})
    BY <1>1, <1>5, Zenon DEF Does
  <2>2. At(s, n, "listen") = At(s, n - 1, "listen") \cup {n} /\ At(s, n, "vhost") = At(s, n - 1, "vhost")
    BY <1>3, <1>5
  <2>3. Keys(d.listen) = {s[j].key : j \in At(s, n, "listen")}
    BY <1>2, <2>1, <2>2
  <2>4. ASSUME NEW a
        PROVE  HostsAt(d, a) = UNION {Given(s[j]) : j \in From(s, n, a)}
    <3>1. From(s, n, a) = From(s, n - 1, a) \cup (IF a = x.key THEN {n} ELSE {})
      BY <2>2 DEF From
    <3>2. HostsAt(c, a) = UNION {Given(s[j]) : j \in From(s, n - 1, a)}
      BY <1>2
    <3>3. HostsAt(d, a) = HostsAt(c, a) \cup (IF a = x.key THEN Given(x) ELSE {})
      BY <2>1
    <3>4. QED BY <3>1, <3>2, <3>3
  <2>5. QED BY <1>2, <2>1, <2>2, <2>3, <2>4
<1>6. QED BY <1>1, <1>4, <1>5 DEF Does

\* The whole file.
THEOREM ConfigureReads ==
    ASSUME NEW script \in Seq(CommandType)
    PROVE  Reads(script, Len(script), minuted_configure(script))
<1> DEFINE c == [vhosts |-> <<>>, listen |-> <<>>, ok |-> TRUE]
           I == [n \in 0 .. Len(script) |-> {d \in ConfType : Reads(script, n, d)}]
<1>1. minuted_configure(script) = Commanding!Fold(c, script)
  BY DEF minuted_configure, Script!Fold, Commanding!Fold
<1>2. Len(script) \in Nat /\ \A n \in 1 .. Len(script) : script[n] \in CommandType
  OBVIOUS
<1> HIDE DEF c
<1>3. ASSUME NEW n \in 0 .. Len(script), NEW d
      PROVE  d \in I[n] <=> Reads(script, n, d)
  <2>1. Reads(script, n, d) => d \in ConfType
    BY Zenon DEF Reads, Sane
  <2>2. QED BY <1>3, <2>1
<1> HIDE DEF I
<1>4. c \in I[0]
  BY <1>2, <1>3, ReadNothing DEF c
<1>5. ASSUME NEW n \in 1 .. Len(script), NEW d \in I[n - 1]
      PROVE  Command(d, script[n]) \in I[n]
  <2>1. n - 1 \in 0 .. Len(script) /\ n \in 0 .. Len(script) /\ n \in Nat \ {0}
    BY <1>2
  <2>2. Reads(script, n - 1, d)
    BY <1>3, <1>5, <2>1
  <2>3. Reads(script, n, Command(d, script[n]))
    BY <1>2, <2>1, <2>2, ReadNext
  <2>4. QED BY <1>3, <2>1, <2>3
<1>6. Commanding!Fold(c, script) \in I[Len(script)]
  BY <1>2, <1>4, <1>5, Commanding!FoldInvariant
<1>7. QED BY <1>1, <1>2, <1>3, <1>6

\* What is right about the dictionaries of every file: its names are those of virtual
\* hosts it declares, and no address occurs twice.
LEMMA ConfigureSane ==
    ASSUME NEW script \in Seq(CommandType), NEW c, c = minuted_configure(script)
    PROVE  Sane(c) /\ (c.ok => Keys(c.vhosts) \subseteq Hosts(script))
<1>1. Reads(script, Len(script), c)
  BY ConfigureReads
<1>2. ASSUME c.ok, NEW j \in At(script, Len(script), "vhost")
      PROVE  script[j].name \in Hosts(script)
  BY <1>2 DEF At, Hosts, Commands, ToSet
<1>3. QED BY <1>1, <1>2 DEF Reads

---------------------------------------------------------------------------
(* Reloading                                                               *)

\* The dictionaries are those of the file that was read last.
Configured ==
    /\ disk \in Scripts /\ loaded \in Scripts \cup {<<>>}
    /\ conf = minuted_configure(loaded)

\* The sockets this process holds are those it has noted, and it holds none when
\* minuted_serve begins.
Noted ==
    /\ faults \in Nat
    /\ faults = 0 =>
          /\ held = {}
          /\ mpc \notin {"listen", "load", "prefork", "cleanup"} => open = {}
          /\ mpc = "listen" =>
                /\ i \in Nat \ {0} /\ DOMAIN ssocks = DOMAIN conf.listen
                /\ open = {conf.listen[j][1] : j \in {m \in DOMAIN conf.listen : m < i}}
                /\ \A j \in DOMAIN ssocks : j < i => ssocks[j] = conf.listen[j][1]
          /\ mpc \in {"load", "prefork", "cleanup"} => open \subseteq ToSet(ssocks)

\* There is a place for every virtual host; and with a proper file only a signal ends
\* minuted_serve.
Kept ==
    /\ mpc \in {"listen", "load"} => DOMAIN vs = DOMAIN conf.vhosts
    /\ faults = 0 /\ Proper(loaded) =>
          /\ mpc \in {"cleanup", "switch"} => r \in {0, SIGHUP}
          /\ mpc = "exit" => r = 0

SurvivesInv == Configured /\ Noted /\ Kept

\* At the start.
LEMMA SurvivesInit == ServeInit => SurvivesInv
<1> SUFFICES ASSUME ServeInit PROVE SurvivesInv
  OBVIOUS
<1>1. minuted_configure(<<>>) = [vhosts |-> <<>>, listen |-> <<>>, ok |-> TRUE]
  <2>1. \A b : Commanding!Fold(b, <<>>) = b
    BY Commanding!FoldEmpty
  <2>2. QED BY <2>1 DEF minuted_configure, Script!Fold, Commanding!Fold
<1>2. Configured
  BY <1>1 DEF ServeInit, Configured
<1>3. Noted /\ Kept
  BY DEF ServeInit, Noted, Kept
<1>4. QED BY <1>2, <1>3 DEF SurvivesInv

\* What Configured says of the dictionaries.
LEMMA ConfiguredSane ==
    ASSUME Configured
    PROVE  /\ loaded \in Seq(CommandType) /\ Sane(conf)
           /\ conf.ok => Keys(conf.vhosts) \subseteq Hosts(loaded)
<1>1. <<>> \in Seq(CommandType)
  OBVIOUS
<1>2. loaded \in Seq(CommandType)
  BY <1>1, ServeAssumption DEF Configured
<1>3. QED BY <1>2, ConfigureSane DEF Configured

\* An address is not open before its turn.
LEMMA AddressFree ==
    ASSUME Configured, Noted, faults = 0, mpc = "listen", i \in DOMAIN ssocks
    PROVE  Address \notin open
<1>1. Dict(conf.listen)
  BY ConfiguredSane DEF Sane
<1>2. QED BY <1>1 DEF Noted, Address, Dict

\* The application of a virtual host of a proper file is sound.
LEMMA AppSound ==
    ASSUME Configured, Kept, mpc = "load", i \in DOMAIN vs, Proper(loaded)
    PROVE  Sound(App)
<1>1. Sane(conf) /\ Keys(conf.vhosts) \subseteq Hosts(loaded)
      /\ \A h \in Hosts(loaded) : Sound(Lookup(conf.vhosts, h))
  BY ConfiguredSane, Zenon DEF Proper, Configured
<1>2. i \in DOMAIN conf.vhosts
  BY DEF Kept
<1>3. Lookup(conf.vhosts, conf.vhosts[i][1]) = App
  BY <1>1, <1>2, LookupIs, Zenon DEF Sane, App
<1>4. conf.vhosts[i][1] \in Keys(conf.vhosts)
  BY <1>2 DEF Keys
<1>5. Lookup(conf.vhosts, conf.vhosts[i][1]) = App /\ conf.vhosts[i][1] \in Hosts(loaded)
  BY <1>1, <1>3, <1>4
<1>6. QED BY <1>1, <1>5, Zenon

\* A fault makes the difference for good.
LEMMA FaultCounts ==
    ASSUME Noted, Fault
    PROVE  faults' \in Nat /\ faults' # 0
BY DEF Noted, Fault

\* Every step of the process.
LEMMA SurvivesNext ==
    ASSUME SurvivesInv, ServeNext \/ PreforkReturns \/ UNCHANGED servevars
    PROVE  SurvivesInv'
<1> USE DEF SurvivesInv
<1>1. CASE Edit
  <2>1. Configured'
    BY <1>1 DEF Edit, Configured
  <2>2. Noted' /\ Kept'
    BY <1>1 DEF Edit, runstate, Noted, Kept
  <2>3. QED BY <2>1, <2>2
<1>2. CASE Configure
  <2>1. Configured'
    BY <1>2 DEF Configure, Configured
  <2>2. Noted'
    BY <1>2 DEF Configure, runstate, Noted
  <2>3. Kept'
    <3>1. CASE conf'.ok
      BY <1>2, <3>1 DEF Configure, Kept
    <3>2. CASE ~conf'.ok
      <4>1. ~Proper(loaded') /\ mpc' = "exit"
        BY <1>2, <3>2, Zenon DEF Configure, Proper
      <4>2. QED BY <4>1 DEF Kept
    <3>3. QED BY <3>1, <3>2
  <2>4. QED BY <2>1, <2>2, <2>3
<1>3. CASE Daemonize
  <2>1. Configured'
    BY <1>3 DEF Daemonize, Configured
  <2>2. Noted' /\ Kept'
    BY <1>3, FaultCounts DEF Daemonize, runstate, Noted, Kept
  <2>3. QED BY <2>1, <2>2
<1>4. CASE Switch
  <2>1. Configured'
    BY <1>4 DEF Switch, Configured
  <2>2. Noted' /\ Kept'
    BY <1>4 DEF Switch, runstate, Noted, Kept
  <2>3. QED BY <2>1, <2>2
<1>5. CASE Begin
  <2>1. Configured'
    BY <1>5 DEF Begin, Serving, Configured
  <2>2. DOMAIN conf.listen = 1 .. Len(conf.listen)
    BY ConfiguredSane, ConfFields DEF Sane
  <2>3. conf' = conf /\ i' = 1 /\ mpc' = "listen" /\ faults' = faults /\ held' = held /\ open' = open
        /\ DOMAIN ssocks' = DOMAIN conf.listen /\ DOMAIN vs' = DOMAIN conf.vhosts
        /\ mpc = "serve"
    BY <1>5 DEF Begin, Serving
  <2>4. {m \in DOMAIN conf.listen : m < 1} = {} /\ \A j \in DOMAIN conf.listen : ~(j < 1)
    BY <2>2
  <2>5. Noted'
    BY <2>3, <2>4 DEF Noted
  <2>6. Kept'
    BY <2>3 DEF Kept
  <2>7. QED BY <2>1, <2>5, <2>6
<1>6. CASE Listen
  <2>1. Configured'
    BY <1>6 DEF Listen, Serving, Configured
  <2>2. /\ conf' = conf /\ i' = i + 1 /\ mpc = "listen" /\ mpc' = "listen" /\ i \in DOMAIN ssocks
        /\ faults' = faults /\ held' = held /\ vs' = vs
        /\ open' = open \cup {conf.listen[i][1]}
        /\ ssocks' = [ssocks EXCEPT ![i] = conf.listen[i][1]]
    BY <1>6 DEF Listen, Serving, Address
  <2>3. Kept'
    BY <2>2 DEF Kept
  <2>4. ASSUME faults = 0
        PROVE  /\ i' \in Nat \ {0} /\ DOMAIN ssocks' = DOMAIN conf.listen
               /\ open' = {conf.listen[j][1] : j \in {m \in DOMAIN conf.listen : m < i'}}
               /\ \A j \in DOMAIN ssocks' : j < i' => ssocks'[j] = conf.listen[j][1]
    <3>1. /\ i \in Nat \ {0} /\ DOMAIN ssocks = DOMAIN conf.listen
          /\ open = {conf.listen[j][1] : j \in {m \in DOMAIN conf.listen : m < i}}
          /\ \A j \in DOMAIN ssocks : j < i => ssocks[j] = conf.listen[j][1]
      BY <2>2, <2>4 DEF Noted
    <3>2. DOMAIN conf.listen = 1 .. Len(conf.listen) /\ Len(conf.listen) \in Nat
      BY ConfiguredSane, ConfFields DEF Sane
    <3>3. {m \in DOMAIN conf.listen : m < i'} = {m \in DOMAIN conf.listen : m < i} \cup {i}
      BY <2>2, <3>1, <3>2
    <3>4. QED BY <2>2, <3>1, <3>2, <3>3
  <2>5. Noted'
    BY <2>2, <2>4 DEF Noted
  <2>6. QED BY <2>1, <2>3, <2>5
<1>7. CASE ListenFail
  <2>1. Configured'
    BY <1>7 DEF ListenFail, Serving, Configured
  <2>2. faults' \in Nat /\ faults' # 0
    BY <1>7, FaultCounts, AddressFree DEF ListenFail, Noted
  <2>3. Noted' /\ Kept'
    BY <1>7, <2>2 DEF ListenFail, Giveup, Noted, Kept
  <2>4. QED BY <2>1, <2>3
<1>8. CASE ListenDone
  <2>1. Configured'
    BY <1>8 DEF ListenDone, Serving, Configured
  <2>2. Noted' /\ Kept'
    BY <1>8 DEF ListenDone, Serving, Noted, Kept, ToSet
  <2>3. QED BY <2>1, <2>2
<1>9. CASE Load
  <2>1. Configured'
    BY <1>9 DEF Load, Serving, Configured
  <2>2. Noted' /\ Kept'
    BY <1>9 DEF Load, Serving, Noted, Kept
  <2>3. QED BY <2>1, <2>2
<1>10. CASE LoadFail
  <2>1. Configured'
    BY <1>10 DEF LoadFail, Serving, Configured
  <2>2. ~Proper(loaded)
    BY <1>10, AppSound DEF LoadFail
  <2>3. Noted' /\ Kept'
    BY <1>10, <2>2 DEF LoadFail, Giveup, Serving, runstate, Noted, Kept
  <2>4. QED BY <2>1, <2>3
<1>11. CASE LoadDone
  <2>1. Configured'
    BY <1>11 DEF LoadDone, Serving, Configured
  <2>2. Noted' /\ Kept'
    BY <1>11 DEF LoadDone, Serving, runstate, Noted, Kept
  <2>3. QED BY <2>1, <2>2
<1>12. CASE LeftoverEnds
  <2>1. Configured'
    BY <1>12 DEF LeftoverEnds, Serving, Configured
  <2>2. Noted' /\ Kept'
    BY <1>12 DEF LeftoverEnds, Serving, runstate, Noted, Kept
  <2>3. QED BY <2>1, <2>2
<1>13. CASE Cleanup
  <2>1. Configured'
    BY <1>13 DEF Cleanup, Serving, Configured
  <2>2. Noted' /\ Kept'
    BY <1>13 DEF Cleanup, Serving, Noted, Kept
  <2>3. QED BY <2>1, <2>2
<1>14. CASE PreforkReturns
  <2>1. Configured'
    BY <1>14 DEF PreforkReturns, Serving, Configured
  <2>2. Noted' /\ Kept'
    BY <1>14, FaultCounts DEF PreforkReturns, Serving, runstate, Noted, Kept
  <2>3. QED BY <2>1, <2>2
<1>15. CASE UNCHANGED servevars
  BY <1>15 DEF servevars, runstate, Configured, Noted, Kept
<1>16. QED
  BY <1>1, <1>2, <1>3, <1>4, <1>5, <1>6, <1>7, <1>8, <1>9, <1>10, <1>11, <1>12, <1>13,
     <1>14, <1>15, Zenon DEF ServeNext

\* What it is for.
LEMMA SurvivesIsEnough == SurvivesInv => Survives
  BY DEF SurvivesInv, Kept, Survives

---------------------------------------------------------------------------
(* What a child finds                                                      *)

\* The hosts of an address, all of them if it is given none.
HostsFor(l) == IF l[2] = <<>> THEN conf.vhosts ELSE l[2]

\* The sockets that are open, with their hosts.
Opened ==
    /\ mpc \in {"fork", "serve", "listen", "load", "prefork"} => conf.ok
    /\ mpc \in {"listen", "load", "prefork"} =>
          /\ i \in Nat \ {0}
          /\ DOMAIN ssocks = DOMAIN conf.listen /\ DOMAIN vhostListen = DOMAIN conf.listen
          /\ \A j \in DOMAIN conf.listen :
                (mpc = "listen" => j < i) =>
                    ssocks[j] = conf.listen[j][1] /\ vhostListen[j] = HostsFor(conf.listen[j])

\* The virtual hosts that are loaded, with their numbers.
Mapped ==
    mpc \in {"listen", "load", "prefork"} =>
        /\ vhostMap \in Seq(STRING \X Nat) /\ Dict(vhostMap)
        /\ DOMAIN vs = DOMAIN conf.vhosts
        /\ mpc = "prefork" => i \notin DOMAIN vs
        /\ \A j \in DOMAIN conf.vhosts :
              mpc # "listen" /\ j < i =>
                  /\ conf.vhosts[j][1] \in Keys(vhostMap)
                  /\ Lookup(vhostMap, conf.vhosts[j][1]) = j
                  /\ vs[j].app = conf.vhosts[j][2] /\ Sound(conf.vhosts[j][2])

SetUpInv == Configured /\ Opened /\ Mapped

\* At the start.
LEMMA SetUpInit == ServeInit => SetUpInv
  BY SurvivesInit DEF ServeInit, SetUpInv, SurvivesInv, Opened, Mapped

\* One more socket.
LEMMA OpenedNext ==
    ASSUME SetUpInv, Listen
    PROVE  Opened'
<1>1. /\ conf' = conf /\ i' = i + 1 /\ mpc = "listen" /\ mpc' = "listen" /\ i \in DOMAIN ssocks
      /\ ssocks' = [ssocks EXCEPT ![i] = conf.listen[i][1]]
      /\ vhostListen' = [vhostListen EXCEPT ![i] = HostsFor(conf.listen[i])]
  BY DEF Listen, Serving, Address, HostsFor
<1>2. \A l : HostsFor(l)' = HostsFor(l)
  BY <1>1 DEF HostsFor
<1>3. DOMAIN conf.listen = 1 .. Len(conf.listen) /\ Len(conf.listen) \in Nat
  BY ConfiguredSane, ConfFields DEF Sane, SetUpInv
<1>4. QED BY <1>1, <1>2, <1>3 DEF SetUpInv, Opened

\* One more virtual host.
LEMMA MappedNext ==
    ASSUME SetUpInv, Load
    PROVE  Mapped'
<1> DEFINE k == conf.vhosts[i][1]
           x == [app |-> App, nopayload |-> "payload" \notin Sources[App].procs]
<1>1. /\ conf' = conf /\ i' = i + 1 /\ mpc = "load" /\ mpc' = "load" /\ i \in DOMAIN vs
      /\ Sound(conf.vhosts[i][2]) /\ x.app = conf.vhosts[i][2]
      /\ vs' = [vs EXCEPT ![i] = x] /\ vhostMap' = DictPut(vhostMap, k, i)
  BY DEF Load, Serving, App
<1>2. /\ vhostMap \in Seq(STRING \X Nat) /\ Dict(vhostMap)
      /\ DOMAIN vs = DOMAIN conf.vhosts /\ i \in Nat \ {0}
      /\ \A j \in DOMAIN conf.vhosts :
              j < i => /\ conf.vhosts[j][1] \in Keys(vhostMap)
                       /\ Lookup(vhostMap, conf.vhosts[j][1]) = j
                       /\ vs[j].app = conf.vhosts[j][2] /\ Sound(conf.vhosts[j][2])
  BY <1>1 DEF SetUpInv, Mapped, Opened
<1>3. /\ DOMAIN conf.vhosts = 1 .. Len(conf.vhosts) /\ Len(conf.vhosts) \in Nat
      /\ Dict(conf.vhosts) /\ conf.vhosts[i] \in STRING \X Text
  <2>1. Dict(conf.vhosts) /\ conf.vhosts \in Seq(STRING \X Text)
    BY ConfiguredSane, ConfFields DEF Sane, SetUpInv, MapType
  <2>2. i \in DOMAIN conf.vhosts
    BY <1>1, <1>2
  <2> HIDE DEF x, k
  <2>3. QED BY <2>1, <2>2
<1>4. k \in STRING
  BY <1>3
<1> HIDE DEF x
<1>5. vhostMap' \in Seq(STRING \X Nat) /\ Changed(vhostMap, k, i, vhostMap')
  <2> HIDE DEF k
  <2>1. QED BY <1>1, <1>2, <1>4, PutLooks, Zenon
<1>6. ASSUME NEW j \in DOMAIN conf.vhosts, j < i
      PROVE  conf.vhosts[j][1] # k
  BY <1>1, <1>2, <1>3, <1>6 DEF Dict
<1> HIDE DEF k
<1>7. ASSUME NEW j \in DOMAIN conf.vhosts, j < i'
      PROVE  /\ conf.vhosts[j][1] \in Keys(vhostMap')
             /\ Lookup(vhostMap', conf.vhosts[j][1]) = j
             /\ vs'[j].app = conf.vhosts[j][2] /\ Sound(conf.vhosts[j][2])
  <2>1. CASE j = i
    BY <1>1, <1>2, <1>5, <2>1 DEF Changed, k
  <2>2. CASE j < i
    BY <1>1, <1>2, <1>3, <1>5, <1>6, <2>2 DEF Changed
  <2>3. QED BY <1>1, <1>2, <1>3, <1>7, <2>1, <2>2
<1>8. QED BY <1>1, <1>2, <1>5, <1>7 DEF Mapped, Changed

\* Every step.
LEMMA SetUpNext ==
    ASSUME SetUpInv, Configured', ServeNext \/ PreforkReturns \/ UNCHANGED servevars
    PROVE  SetUpInv'
<1> SUFFICES Opened' /\ Mapped'
  BY DEF SetUpInv
<1> USE DEF SetUpInv
<1>1. CASE Edit
  BY <1>1 DEF Edit, runstate, Opened, Mapped, HostsFor
<1>2. CASE Configure
  BY <1>2 DEF Configure, runstate, Opened, Mapped
<1>3. CASE Daemonize
  BY <1>3 DEF Daemonize, runstate, Opened, Mapped
<1>4. CASE Switch
  BY <1>4 DEF Switch, runstate, Opened, Mapped
<1>5. CASE Begin
  <2>1. \A j \in DOMAIN conf.listen : ~(j < 1)
    BY ConfiguredSane, ConfFields DEF Sane
  <2>2. /\ conf' = conf /\ i' = 1 /\ mpc' = "listen" /\ mpc = "serve" /\ vhostMap' = <<>>
        /\ DOMAIN ssocks' = DOMAIN conf.listen /\ DOMAIN vhostListen' = DOMAIN conf.listen
        /\ DOMAIN vs' = DOMAIN conf.vhosts
    BY <1>5 DEF Begin, Serving
  <2>3. Opened'
    BY <2>1, <2>2 DEF Opened
  <2>4. Mapped'
    BY <2>2 DEF Mapped, Dict
  <2>5. QED BY <2>3, <2>4
<1>6. CASE Listen
  <2>1. Mapped'
    BY <1>6 DEF Listen, Serving, Mapped
  <2>2. QED BY <1>6, <2>1, OpenedNext
<1>7. CASE ListenFail
  BY <1>7 DEF ListenFail, Giveup, Serving, Opened, Mapped
<1>8. CASE ListenDone
  <2>1. DOMAIN conf.listen = 1 .. Len(conf.listen) /\ Len(conf.listen) \in Nat
    BY ConfiguredSane, ConfFields DEF Sane
  <2>2. DOMAIN conf.vhosts = 1 .. Len(conf.vhosts) /\ Len(conf.vhosts) \in Nat
    BY ConfiguredSane, ConfFields DEF Sane, MapType
  <2>3. /\ conf' = conf /\ mpc = "listen" /\ mpc' = "load" /\ i' = 1 /\ i \notin DOMAIN ssocks
        /\ ssocks' = ssocks /\ vhostListen' = vhostListen /\ vs' = vs /\ vhostMap' = vhostMap
    BY <1>8 DEF ListenDone, Serving
  <2>4. \A l : HostsFor(l)' = HostsFor(l)
    BY <2>3 DEF HostsFor
  <2>5. Opened'
    BY <2>1, <2>3, <2>4 DEF Opened
  <2>6. Mapped'
    BY <2>2, <2>3 DEF Mapped
  <2>7. QED BY <2>5, <2>6
<1>9. CASE Load
  <2>1. Opened'
    BY <1>9 DEF Load, Serving, Opened, HostsFor
  <2>2. QED BY <1>9, <2>1, MappedNext
<1>10. CASE LoadFail
  BY <1>10 DEF LoadFail, Giveup, Serving, runstate, Opened, Mapped
<1>11. CASE LoadDone
  BY <1>11 DEF LoadDone, Serving, runstate, Opened, Mapped, HostsFor
<1>12. CASE LeftoverEnds
  BY <1>12 DEF LeftoverEnds, Serving, runstate, Opened, Mapped, HostsFor
<1>13. CASE Cleanup
  BY <1>13 DEF Cleanup, Serving, Opened, Mapped
<1>14. CASE PreforkReturns
  BY <1>14 DEF PreforkReturns, Serving, Opened, Mapped
<1>15. CASE UNCHANGED servevars
  BY <1>15 DEF servevars, runstate, Opened, Mapped, HostsFor
<1>16. QED
  BY <1>1, <1>2, <1>3, <1>4, <1>5, <1>6, <1>7, <1>8, <1>9, <1>10, <1>11, <1>12, <1>13,
     <1>14, <1>15, Zenon DEF ServeNext

\* Once the server is set up, and if the file is plain, an address has the hosts that the
\* file declares for it, each with its application.
SetUp ==
    \A j \in DOMAIN ssocks :
        /\ Keys(vhostListen[j]) = Assigned(loaded, ssocks[j])
        /\ \A h \in Keys(vhostListen[j]) :
              /\ h \in Keys(vhostMap) /\ Lookup(vhostMap, h) # 0
              /\ vs[Lookup(vhostMap, h)].app = AppOf(loaded, h) /\ AppOf(loaded, h) # None

\* The hosts of an address are those assigned to it.
LEMMA AssignedIs ==
    ASSUME Configured, conf.ok, Plain(loaded), NEW j \in DOMAIN conf.listen
    PROVE  /\ Keys(HostsFor(conf.listen[j])) = Assigned(loaded, conf.listen[j][1])
           /\ Keys(HostsFor(conf.listen[j])) \subseteq Keys(conf.vhosts)
           /\ \A h \in Keys(HostsFor(conf.listen[j])) :
                 Lookup(HostsFor(conf.listen[j]), h) = Lookup(conf.vhosts, h)
<1> DEFINE k == conf.listen[j][1]
           d == conf.listen[j][2]
           n == Len(loaded)
           same == {y \in Commands(loaded, "listen") : y.key = k}
<1>1. /\ loaded \in Seq(CommandType) /\ Reads(loaded, n, conf) /\ Sane(conf)
  BY ConfiguredSane, ConfigureReads DEF Configured
<1>2. /\ Keys(conf.vhosts) = {loaded[m].name : m \in At(loaded, n, "vhost")}
      /\ Keys(conf.listen) = {loaded[m].key : m \in At(loaded, n, "listen")}
      /\ HostsAt(conf, k) = UNION {Given(loaded[m]) : m \in From(loaded, n, k)}
  BY <1>1, Zenon DEF Reads
<1>3. k \in Keys(conf.listen) /\ Lookup(conf.listen, k) = d /\ d \in Seq(STRING \X Text)
  <2>1. conf.listen \in Seq(STRING \X MapType) /\ Dict(conf.listen)
    BY <1>1, ConfFields DEF Sane
  <2>2. conf.listen[j] \in STRING \X MapType
    BY <2>1
  <2>3. QED BY <2>1, <2>2, LookupIs DEF Keys, MapType
<1>4. HostsAt(conf, k) = Keys(d) /\ Agrees(d, conf.vhosts)
  BY <1>1, <1>3 DEF HostsAt, Sane
<1>5. same = {loaded[m] : m \in From(loaded, n, k)}
  BY <1>1 DEF From, At, Commands, ToSet
<1>6. Hosts(loaded) = Keys(conf.vhosts)
  BY <1>1, <1>2 DEF At, Hosts, Commands, ToSet
<1> HIDE DEF k, d, n
<1>7. PICK x \in Commands(loaded, "listen") : x.key = k
  BY <1>1, <1>2, <1>3 DEF At, Commands, ToSet, n
<1>8. \/ \A y \in same : y.hosts = <<"+">>
      \/ (\A y \in same : y.hosts # <<"+">>) /\ \E y \in same : y.hosts # <<>>
  BY <1>7 DEF Plain
<1>9. Keys(d) = UNION {Given(y) : y \in same}
  BY <1>2, <1>4, <1>5
<1>10. Assigned(loaded, k) = UNION {IF y.hosts = <<"+">> THEN Hosts(loaded) ELSE ToSet(y.hosts) : y \in same}
  BY DEF Assigned
<1>11. x \in same
  BY <1>7
<1>12. CASE \A y \in same : y.hosts = <<"+">>
  <2> HIDE DEF same
  <2>1. Keys(d) = {} /\ Assigned(loaded, k) = Keys(conf.vhosts)
    BY <1>6, <1>9, <1>10, <1>11, <1>12 DEF Given
  <2>2. d = <<>>
    <3>1. DOMAIN d = {}
      BY <2>1 DEF Keys
    <3>2. QED BY <1>3, <3>1
  <2>3. HostsFor(conf.listen[j]) = conf.vhosts
    BY <2>2 DEF HostsFor, d
  <2>4. QED BY <2>1, <2>3 DEF k
<1>13. CASE (\A y \in same : y.hosts # <<"+">>) /\ \E y \in same : y.hosts # <<>>
  <2>1. PICK y \in same : y.hosts # <<>>
    BY <1>13
  <2>2. y.hosts \in Seq(STRING)
    <3>1. y \in CommandType /\ y.cmd = "listen"
      BY <1>1 DEF Commands, ToSet
    <3>2. QED BY <3>1 DEF CommandType
  <2> HIDE DEF same
  <2>3. Keys(d) = Assigned(loaded, k)
    BY <1>9, <1>10, <1>13 DEF Given
  <2>4. y.hosts[1] \in Given(y)
    BY <1>13, <2>1, <2>2 DEF Given, ToSet
  <2>5. Keys(d) # {}
    BY <1>9, <2>4
  <2>6. d # <<>>
    BY <2>5 DEF Keys
  <2>7. HostsFor(conf.listen[j]) = d
    BY <2>6 DEF HostsFor, d
  <2>8. QED BY <1>4, <2>3, <2>7 DEF Agrees, k
<1>14. QED BY <1>8, <1>12, <1>13

\* The application of a virtual host is the one declared for it.
LEMMA AppIs ==
    ASSUME Configured, conf.ok, NEW h \in Keys(conf.vhosts), Sound(Lookup(conf.vhosts, h))
    PROVE  Lookup(conf.vhosts, h) = AppOf(loaded, h) /\ AppOf(loaded, h) # None
<1> DEFINE n == Len(loaded)
           x == CHOOSE y \in Commands(loaded, "vhost") : y.name = h
<1>1. loaded \in Seq(CommandType) /\ Reads(loaded, n, conf)
  BY ConfiguredSane, ConfigureReads DEF Configured
<1>2. /\ Keys(conf.vhosts) = {loaded[m].name : m \in At(loaded, n, "vhost")}
      /\ \A m \in At(loaded, n, "vhost") : Lookup(conf.vhosts, loaded[m].name) = Chosen(loaded[m])
  BY <1>1, Zenon DEF Reads
<1>3. Commands(loaded, "vhost") = {loaded[m] : m \in At(loaded, n, "vhost")}
  BY <1>1 DEF At, Commands, ToSet
<1>4. x \in Commands(loaded, "vhost") /\ x.name = h
  BY <1>2, <1>3
<1> HIDE DEF x
<1>5. Lookup(conf.vhosts, h) = Chosen(x)
  BY <1>2, <1>3, <1>4
<1>6. Chosen(x) # None
  BY <1>5 DEF Sound
<1>7. Chosen(x) = Last(x.apps)
  BY <1>6, Zenon DEF Chosen
<1>8. AppOf(loaded, h) = Last(x.apps)
  BY Zenon DEF AppOf, x
<1>9. QED BY <1>5, <1>6, <1>7, <1>8

LEMMA SetUpHolds ==
    ASSUME SetUpInv, mpc = "prefork", Plain(loaded)
    PROVE  SetUp
<1> SUFFICES ASSUME NEW j \in DOMAIN ssocks
             PROVE  /\ Keys(vhostListen[j]) = Assigned(loaded, ssocks[j])
                    /\ \A h \in Keys(vhostListen[j]) :
                          /\ h \in Keys(vhostMap) /\ Lookup(vhostMap, h) # 0
                          /\ vs[Lookup(vhostMap, h)].app = AppOf(loaded, h)
                          /\ AppOf(loaded, h) # None
  BY DEF SetUp
<1>1. /\ Configured /\ conf.ok /\ j \in DOMAIN conf.listen
      /\ ssocks[j] = conf.listen[j][1] /\ vhostListen[j] = HostsFor(conf.listen[j])
  BY DEF SetUpInv, Opened
<1>2. /\ Keys(vhostListen[j]) = Assigned(loaded, ssocks[j])
      /\ Keys(vhostListen[j]) \subseteq Keys(conf.vhosts)
  BY <1>1, AssignedIs
<1>3. ASSUME NEW h \in Keys(vhostListen[j])
      PROVE  /\ h \in Keys(vhostMap) /\ Lookup(vhostMap, h) # 0
             /\ vs[Lookup(vhostMap, h)].app = AppOf(loaded, h)
             /\ AppOf(loaded, h) # None
  <2>1. PICK m \in DOMAIN conf.vhosts : conf.vhosts[m][1] = h
    BY <1>2, <1>3 DEF Keys
  <2>2. DOMAIN conf.vhosts = 1 .. Len(conf.vhosts) /\ Len(conf.vhosts) \in Nat /\ Dict(conf.vhosts)
    BY <1>1, ConfiguredSane, ConfFields DEF Sane, MapType
  <2>3. /\ i \in Nat \ {0} /\ i \notin DOMAIN vs /\ DOMAIN vs = DOMAIN conf.vhosts
        /\ \A g \in DOMAIN conf.vhosts : g < i =>
              /\ conf.vhosts[g][1] \in Keys(vhostMap)
              /\ Lookup(vhostMap, conf.vhosts[g][1]) = g
              /\ vs[g].app = conf.vhosts[g][2] /\ Sound(conf.vhosts[g][2])
    BY DEF SetUpInv, Opened, Mapped
  <2>4. m < i
    BY <2>1, <2>2, <2>3
  <2>5. Lookup(conf.vhosts, h) = conf.vhosts[m][2]
    BY <2>1, <2>2, LookupIs, Zenon
  <2>6. /\ h \in Keys(vhostMap) /\ Lookup(vhostMap, h) = m
        /\ vs[m].app = conf.vhosts[m][2] /\ Sound(conf.vhosts[m][2])
    BY <2>1, <2>3, <2>4
  <2>7. conf.vhosts[m][2] = AppOf(loaded, h) /\ AppOf(loaded, h) # None
    BY <1>1, <1>2, <1>3, <2>5, <2>6, AppIs
  <2>8. QED BY <2>2, <2>6, <2>7
<1>4. QED BY <1>2, <1>3

---------------------------------------------------------------------------
(* Types                                                                   *)

\* The dictionaries of the file that was read last.
LEMMA ConfTyped ==
    ASSUME Configured
    PROVE  conf.vhosts \in MapType /\ conf.listen \in Seq(STRING \X MapType)
BY ConfiguredSane, ConfFields DEF Sane

\* A place of an array is given a value.
LEMMA Placed ==
    ASSUME NEW S, NEW s \in Seq(S), NEW n, NEW x \in S
    PROVE  [s EXCEPT ![n] = x] \in Seq(S)
<1> DEFINE m == Len(s)
           t == [j \in 1 .. m |-> IF j = n THEN x ELSE s[j]]
<1>1. m \in Nat /\ s \in [1 .. m -> S]
  OBVIOUS
<1> HIDE DEF m
<1>2. [s EXCEPT ![n] = x] = t
  BY <1>1
<1>3. t \in Seq(S)
  BY <1>1
<1>4. QED BY <1>2, <1>3

\* Opening a socket.
LEMMA ListenTyped ==
    ASSUME ServeTypeOK, SetUpInv, Listen \/ ListenFail
    PROVE  ServeTypeOK'
<1>1. UNCHANGED <<disk, conf, daemonize, loaded, edits, vs, vhostMap, held>> /\ i \in DOMAIN ssocks
  BY DEF Listen, ListenFail, Serving, runstate
<1>2. /\ conf.vhosts \in MapType /\ conf.listen[i] \in STRING \X MapType
  <2>1. i \in DOMAIN conf.listen
    BY <1>1 DEF SetUpInv, Opened, Listen, ListenFail
  <2>2. conf.listen \in Seq(STRING \X MapType) /\ conf.vhosts \in MapType
    BY DEF ServeTypeOK
  <2> HIDE DEF MapType
  <2>3. QED BY <2>1, <2>2
<1>3. Address \in STRING /\ conf.listen[i][2] \in MapType
  <2> HIDE DEF MapType
  <2>1. QED BY <1>2 DEF Address
<1>4. open' \subseteq STRING
  BY <1>3 DEF Listen, ListenFail, ServeTypeOK
<1>5. CASE Listen
  <2>1. ssocks' \in Seq(Text)
    <3>1. ssocks \in Seq(Text) /\ Address \in Text /\ ssocks' = [ssocks EXCEPT ![i] = Address]
      BY <1>3, <1>5 DEF Listen, ServeTypeOK, Text
    <3>2. QED BY <3>1, Placed
  <2>2. vhostListen' \in Seq(MapType)
    <3> DEFINE x == IF conf.listen[i][2] = <<>> THEN conf.vhosts ELSE conf.listen[i][2]
    <3>1. vhostListen \in Seq(MapType) /\ x \in MapType /\ vhostListen' = [vhostListen EXCEPT ![i] = x]
      BY <1>2, <1>3, <1>5 DEF Listen, ServeTypeOK
    <3> HIDE DEF x
    <3>2. QED BY <3>1, Placed
  <2>3. i' \in Nat /\ UNCHANGED <<mpc, r, faults>>
    BY <1>5 DEF Listen, ServeTypeOK
  <2>4. QED BY <1>1, <1>4, <2>1, <2>2, <2>3 DEF ServeTypeOK
<1>6. CASE ListenFail
  <2>1. UNCHANGED runstate /\ mpc' = "cleanup" /\ r' = -1 /\ faults' \in 0 .. MaxFaults
    BY <1>6, ServeAssumption DEF ListenFail, Giveup, Fault, ServeTypeOK
  <2>2. QED BY <1>1, <1>4, <2>1 DEF ServeTypeOK, runstate
<1>7. QED BY <1>5, <1>6

\* Loading an application.
LEMMA LoadTyped ==
    ASSUME ServeTypeOK, SetUpInv, Load
    PROVE  ServeTypeOK'
<1> DEFINE k == conf.vhosts[i][1]
           x == [app |-> App, nopayload |-> "payload" \notin Sources[App].procs]
<1>1. /\ UNCHANGED <<disk, conf, daemonize, loaded, edits, mpc, ssocks, vhostListen, r, open, held, faults>>
      /\ i' = i + 1 /\ vs' = [vs EXCEPT ![i] = x] /\ vhostMap' = DictPut(vhostMap, k, i)
      /\ i \in DOMAIN vs /\ i \in Nat
  BY DEF Load, Serving, ServeTypeOK
<1>2. conf.vhosts[i] \in STRING \X Text
  <2>1. i \in DOMAIN conf.vhosts /\ conf.vhosts \in Seq(STRING \X Text)
    BY <1>1 DEF SetUpInv, Mapped, Load, ServeTypeOK, MapType
  <2>2. QED BY <2>1
<1>3. k \in STRING /\ App \in Text
  BY <1>2 DEF App
<1>4. vs' \in Seq([app : Text, nopayload : BOOLEAN])
  <2>1. x \in [app : Text, nopayload : BOOLEAN]
    BY <1>3
  <2> HIDE DEF x
  <2>2. QED BY <1>1, <2>1, Placed DEF ServeTypeOK
<1>5. vhostMap' \in Seq(STRING \X Nat)
  <2> HIDE DEF k
  <2>1. vhostMap \in Seq(STRING \X Nat) /\ Dict(vhostMap)
    BY DEF SetUpInv, Mapped, Load
  <2>2. QED BY <1>1, <1>3, <2>1, PutLooks, Zenon
<1>6. QED BY <1>1, <1>4, <1>5 DEF ServeTypeOK

\* Every step of the process.
LEMMA ServeTyped ==
    ASSUME ServeTypeOK, SetUpInv, Configured', ServeNext \/ PreforkReturns \/ UNCHANGED servevars
    PROVE  ServeTypeOK'
<1> DEFINE Bound == faults' \in 0 .. MaxFaults
<1>0. (UNCHANGED faults => Bound) /\ (Fault => Bound)
  BY ServeAssumption DEF Fault, ServeTypeOK
<1> HIDE DEF Bound
<1>1. CASE Edit
  BY <1>1, ServeAssumption DEF Edit, runstate, ServeTypeOK
<1>2. CASE Configure
  <2>1. conf'.vhosts \in MapType /\ conf'.listen \in Seq(STRING \X MapType)
    <3>1. disk \in Seq(CommandType) /\ conf' = minuted_configure(disk)
      BY <1>2, ServeAssumption DEF Configure, ServeTypeOK
    <3>2. QED BY <3>1, ConfigureSane, ConfFields DEF Sane
  <2>2. QED BY <1>2, <2>1 DEF Configure, runstate, ServeTypeOK
<1>3. CASE Daemonize
  <2>1. Bound /\ daemonize' = FALSE /\ mpc' \in {"serve", "exit"}
    BY <1>0, <1>3 DEF Daemonize
  <2>2. UNCHANGED <<disk, conf, i, ssocks, vhostListen, vs, vhostMap, r, open, held, loaded, edits>>
    BY <1>3 DEF Daemonize, runstate
  <2>3. QED BY <2>1, <2>2 DEF ServeTypeOK, Bound
<1>4. CASE Switch
  BY <1>4 DEF Switch, runstate, ServeTypeOK
<1>5. CASE Begin
  <2>1. conf.vhosts \in Seq(STRING \X Text) /\ conf.listen \in Seq(STRING \X MapType)
    BY DEF ServeTypeOK, MapType
  <2>2. ssocks' \in Seq(Text) /\ vhostListen' \in Seq(MapType)
    <3>1. None \in Text /\ <<>> \in MapType
      BY DEF Text, MapType
    <3>2. DOMAIN conf.listen = 1 .. Len(conf.listen) /\ Len(conf.listen) \in Nat
      BY <2>1
    <3>3. QED BY <1>5, <3>1, <3>2 DEF Begin
  <2>3. vs' \in Seq([app : Text, nopayload : BOOLEAN])
    <3>1. [app |-> None, nopayload |-> FALSE] \in [app : Text, nopayload : BOOLEAN]
      BY DEF Text
    <3>2. DOMAIN conf.vhosts = 1 .. Len(conf.vhosts) /\ Len(conf.vhosts) \in Nat
      BY <2>1
    <3>3. QED BY <1>5, <3>1, <3>2 DEF Begin
  <2>4. /\ UNCHANGED <<disk, conf, daemonize, loaded, edits, r, open, held, faults>>
        /\ mpc' = "listen" /\ i' = 1 /\ vhostMap' = <<>>
    BY <1>5 DEF Begin, Serving
  <2>5. QED BY <2>2, <2>3, <2>4 DEF ServeTypeOK
<1>6. CASE Listen \/ ListenFail
  BY <1>6, ListenTyped
<1>7. CASE Load
  BY <1>7, LoadTyped
<1>8. CASE ListenDone \/ LoadFail \/ LoadDone
  <2>1. /\ mpc' \in {"load", "cleanup", "prefork"} /\ r' \in {r, -1} /\ i' \in {i, 1}
        /\ UNCHANGED <<disk, conf, daemonize, loaded, edits, ssocks, vhostListen, vs, vhostMap>>
        /\ UNCHANGED <<open, held, faults>>
    BY <1>8 DEF ListenDone, LoadFail, LoadDone, Giveup, Serving, runstate
  <2>2. i' \in Nat /\ r' \in {-1, 0, 1, SIGHUP, Crashed}
    BY <2>1 DEF ServeTypeOK
  <2>3. QED BY <2>1, <2>2 DEF ServeTypeOK
<1>9. CASE LeftoverEnds
  BY <1>9 DEF LeftoverEnds, Serving, runstate, ServeTypeOK
<1>10. CASE Cleanup
  <2>1. /\ open' \subseteq open /\ mpc' = "switch"
        /\ vhostMap' = <<>> /\ vs' = <<>> /\ vhostListen' = <<>> /\ ssocks' = <<>>
        /\ UNCHANGED <<disk, conf, daemonize, loaded, edits, i, r, held, faults>>
    BY <1>10 DEF Cleanup, Serving
  <2>2. QED BY <2>1 DEF ServeTypeOK
<1>11. CASE PreforkReturns
  <2>1. Bound /\ mpc' = "cleanup" /\ r' \in {0, SIGHUP, Crashed} /\ held' \in {held, open}
    BY <1>0, <1>11, Zenon DEF PreforkReturns
  <2>2. UNCHANGED <<disk, conf, i, ssocks, vhostListen, vs, vhostMap, daemonize, open, loaded, edits>>
    BY <1>11 DEF PreforkReturns, Serving, runstate
  <2>3. QED BY <2>1, <2>2 DEF ServeTypeOK, Bound
<1>12. CASE UNCHANGED servevars
  BY <1>12 DEF servevars, runstate, ServeTypeOK
<1>13. QED
  BY <1>1, <1>2, <1>3, <1>4, <1>5, <1>6, <1>7, <1>8, <1>9, <1>10, <1>11, <1>12, Zenon
  DEF ServeNext

\* At the start.
LEMMA ServeTypedInit == ServeInit => ServeTypeOK
<1> SUFFICES ASSUME ServeInit PROVE ServeTypeOK
  OBVIOUS
<1>1. <<>> \in MapType /\ <<>> \in Seq(STRING \X MapType)
  BY DEF MapType
<1>2. conf.vhosts = <<>> /\ conf.listen = <<>>
  BY DEF ServeInit
<1>3. QED BY <1>1, <1>2, ServeAssumption DEF ServeInit, ServeTypeOK
=============================================================================
