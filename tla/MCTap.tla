------------------------------- MODULE MCTap -------------------------------
(* Configuration files, applications and requests for Tap.                 *)
EXTENDS Tap

VHost(name, apps)  == [cmd |-> "vhost", name |-> name, apps |-> apps]
On(key, hosts)     == [cmd |-> "listen", key |-> key, hosts |-> hosts]
Stop(how)          == [cmd |-> how]

MCReadable == {"a.tap", "b.tap", "broken.tap", "half.tap"}
All3 == {"headers", "payload", "response"}
MCSources == [f \in MCReadable |->
    CASE f = "a.tap"      -> [ok |-> TRUE, procs |-> All3]
      [] f = "b.tap"      -> [ok |-> TRUE, procs |-> {"headers", "response"}]
      [] f = "broken.tap" -> [ok |-> FALSE, procs |-> All3]
      [] f = "half.tap"   -> [ok |-> TRUE, procs |-> {"headers", "payload"}]]

\* No file says `+' for an address that is given hosts as well, or gives an address
\* an empty list of hosts: the code and README.md part ways there.
Proper1 == <<VHost("default", <<"a.tap">>), VHost("h", <<"b.tap">>),
             On("any 80", <<"h">>), On("any 80", <<"default">>), On("lo 80", <<"h">>)>>
Proper2 == <<On("lo 80", <<"+">>), VHost("h", <<"b.tap", "a.tap">>),
             VHost("default", <<"b.tap">>), On("any 80", <<"default">>)>>
Bad1 == <<VHost("default", <<"a.tap">>), VHost("default", <<"b.tap">>)>>
Bad2 == <<VHost("h", <<"a.tap">>), On("lo 80", <<"h", "default">>)>>
Bad3 == <<VHost("h", <<"none.tap">>)>>
Bad4 == <<VHost("h", <<"a.tap">>), Stop("error"), On("lo 80", <<"h">>)>>
Unsound1 == <<VHost("h", <<>>), On("lo 80", <<"h">>)>>
Unsound2 == <<VHost("default", <<"a.tap">>), VHost("h", <<"broken.tap">>), On("lo 80", <<"h">>)>>
Unsound3 == <<VHost("h", <<"half.tap">>), On("lo 80", <<"+">>)>>

MCScripts == {Proper1, Proper2, Bad1, Bad2, Bad3, Bad4, Unsound1, Unsound2, Unsound3}
OneScript == {Proper1}

Request(method, path, lines, keep) ==
    [method |-> method, path |-> path, lines |-> lines, keep |-> keep]
Header(name, value) == <<name, value, "CRLF">>
MCRequests == {
    Request("GET", "/1", <<Header("Host", "h"), Header("Accept", "x"), Header("Accept", "y"),
                           Header("Transfer-Encoding", "gzip")>>, TRUE),
    Request("POST", "/2", <<Header("Content-Length", "5"), Header("Connection", "close"),
                            Header("Host", "default"), Header("Content-Length", "007")>>, FALSE),
    \* A length beyond an int, and one that ends in a lone line feed.
    Request("HEAD", "/3", <<Header("Host", "else"), Header("X-Other", "z"),
                            Header("Content-Length", "150"), <<"Content-Length", "9", "LF">>,
                            Header("Transfer-Encoding", "chunked")>>, TRUE)}
OneRequest == {Request("GET", "/1", <<Header("Host", "h")>>, FALSE)}
MCDecimal == ("5" :> 5 @@ "007" :> 7 @@ "9" :> 9 @@ "150" :> 150)

MCResults == {100, 200, 204, NotInteger, NoElement}
MCAsked == {"Accept", "Content-Length", "Transfer-Encoding", "Connection", "Warning", "X-Other"}
MCAdded == {"Accept-Ranges", "Content-Type", "Via", "X-Unknown-Header"}
AddedAll == ToSet(Tail(http_response_header_names))

\* The theorems of Tap_proofs are about files and requests of this kind.
ASSUME TheoremsApply ==
    /\ \A q \in Requests : OneHost(q)
    /\ \A s \in Scripts : Plain(s)
=============================================================================
