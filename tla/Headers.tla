------------------------------ MODULE Headers ------------------------------
(* The tables of header names (libhttp/http-headers.c) and how an           *)
(* application's name for a header is looked up in them (minuted/tap.c).    *)
(* The position of a name, from 0, is its number.                           *)
EXTENDS Integers, Sequences, SequencesExt

http_request_header_names == <<
    "X-Unknown-Header", "Accept", "Accept-Charset", "Accept-Encoding",
    "Accept-Language", "Authorization", "Cache-Control", "Connection",
    "Content-Encoding", "Content-Language", "Content-Length", "Content-Location",
    "Content-MD5", "Content-Type", "Cookie", "Date", "Expect", "From", "Host",
    "If-Match", "If-Modified-Since", "If-None-Match", "If-Range",
    "If-Unmodified-Since", "Max-Forwards", "Origin", "Pragma",
    "Proxy-Authorization", "Range", "Referer", "TE", "Trailer", "Transfer-Encoding",
    "Upgrade", "User-Agent", "Via", "Warning">>

http_response_header_names == <<
    "X-Unknown-Header", "Accept-Ranges", "Age", "Allow", "Cache-Control",
    "Connection", "Content-Encoding", "Content-Language", "Content-Length",
    "Content-Location", "Content-MD5", "Content-Disposition", "Content-Range",
    "Content-Type", "Date", "ETag", "Expires", "Last-Modified", "Link", "Location",
    "P3P", "Pragma", "Proxy-Authenticate", "Refresh", "Retry-After", "Server",
    "Set-Cookie", "Strict-Transport-Security", "Trailer", "Transfer-Encoding",
    "Vary", "Via", "Warning", "WWW-Authenticate">>

\* Both, and a name that is in neither, as the C library orders them without regard
\* to case.
Alphabet == <<
    "Accept", "Accept-Charset", "Accept-Encoding", "Accept-Language",
    "Accept-Ranges", "Age", "Allow", "Authorization", "Cache-Control", "Connection",
    "Content-Disposition", "Content-Encoding", "Content-Language", "Content-Length",
    "Content-Location", "Content-MD5", "Content-Range", "Content-Type", "Cookie",
    "Date", "ETag", "Expect", "Expires", "From", "Host", "If-Match",
    "If-Modified-Since", "If-None-Match", "If-Range", "If-Unmodified-Since",
    "Last-Modified", "Link", "Location", "Max-Forwards", "Origin", "P3P", "Pragma",
    "Proxy-Authenticate", "Proxy-Authorization", "Range", "Referer", "Refresh",
    "Retry-After", "Server", "Set-Cookie", "Strict-Transport-Security", "TE",
    "Trailer", "Transfer-Encoding", "Upgrade", "User-Agent", "Vary", "Via",
    "Warning", "WWW-Authenticate", "X-Other", "X-Unknown-Header">>

Rank == [x \in ToSet(Alphabet) |-> CHOOSE j \in DOMAIN Alphabet : Alphabet[j] = x]

strcasecmp(s, t) == Rank[s] - Rank[t]

\* A mutant of minuted_tap_binary_search: the upper end is taken to be inclusive.
minuted_tap_binary_search_inclusive(s, ls) ==
    LET find[w \in (0 .. Len(ls)) \X (-1 .. Len(ls))] ==
            LET mid  == (w[2] + w[1]) \div 2
                diff == strcasecmp(s, ls[mid + 1])
            IN  CASE w[1] >= w[2] -> -1
                  [] w[1] < w[2] /\ diff = 0 -> mid
                  [] w[1] < w[2] /\ diff < 0 -> find[<<w[1], mid - 1>>]
                  [] OTHER -> find[<<mid + 1, w[2]>>]
    IN  find[<<0, Len(ls)>>]

\* The position of s in ls, -1 if it is not found.  w is lo and hi.
minuted_tap_binary_search(s, ls) ==
    LET find[w \in (0 .. Len(ls)) \X (0 .. Len(ls))] ==
            LET mid  == (w[2] + w[1]) \div 2
                diff == strcasecmp(s, ls[mid + 1])
            IN  CASE w[1] >= w[2] -> -1
                  [] w[1] < w[2] /\ diff = 0 -> mid
                  [] w[1] < w[2] /\ diff < 0 -> find[<<w[1], mid>>]
                  [] OTHER -> find[<<mid + 1, w[2]>>]
    IN  find[<<0, Len(ls)>>]

\* The number of a header, 0 (unknown) also for the name at position 0.
Number(h) == IF h > 0 THEN h ELSE 0
minuted_tap_request_header(name) ==
    Number(minuted_tap_binary_search(name, http_request_header_names))
minuted_tap_response_header(name) ==
    Number(minuted_tap_binary_search(name, http_response_header_names))

\* The number the parser gives to a header that it knows.
HeaderNumber(name) ==
    (CHOOSE j \in DOMAIN http_request_header_names : http_request_header_names[j] = name) - 1

\* The names of a table; the first stands for all others.
Known(names) == ToSet(Tail(names))

\* A name is where a search by halves looks for it, or is not there at all.
InPlace(ls, s) ==
    \A j, k \in 2 .. Len(ls) :
        ls[k] = s => /\ j < k => strcasecmp(s, ls[j]) > 0
                     /\ j > k => strcasecmp(s, ls[j]) < 0

ASSUME HeadersAssumption ==
    /\ ToSet(http_request_header_names) \cup ToSet(http_response_header_names) \subseteq ToSet(Alphabet)
    /\ \A s \in Known(http_request_header_names) : InPlace(http_request_header_names, s)

\* Numbers the code has names for (libhttp/http-headers.h).
http_rq_content_length    == 10
http_rq_host              == 18
http_rq_transfer_encoding == 32
=============================================================================
