------------------------------- MODULE MCHttp -------------------------------
(* Requests and files for the model checker.                               *)
EXTENDS Http

Req(method, fault) == [kind |-> "request", method |-> method, fault |-> fault]
Get == Req("GET", "none")
Field(name, value) == [kind |-> "header", name |-> name, value |-> value]
RangeOf(form, from, to) ==
    [kind |-> "header", name |-> "Range", form |-> form, from |-> from, to |-> to]
Data == [kind |-> "data"]

Encode(ws) == FlattenSeq([i \in DOMAIN ws |-> <<ws[i], CR, LF>>]) \o <<CR, LF>>

Fields ==
    {Field("Accept", 0), Field("Connection", 0), Field("Cookie", 0), Field("Connect-Length", 2),
     Field("If-Modified-Since", 0), Field("If-Modified-Since", 1),
     Field("If-Modified-Since", 2), Field("unknown", 0), Field("faulty", 0),
     RangeOf("other", 0, 0), RangeOf("no dash", 0, 0)}
Ranges == {RangeOf("bytes", from, to) : from \in {0, 1, 2}, to \in {0, 1, 3, 4}}

\* Whole requests with no, one and two headers; then ones that are cut short,
\* have a body, or lack part of an end of line.
MCBodies ==
    {Encode(<<Req(m, "none")>>) : m \in Methods \cup {"other"}}
    \cup {Encode(<<Req("GET", fault)>>) : fault \in {"no url", "rest"}}
    \cup {Encode(<<Get, f>>) : f \in Fields \cup Ranges}
    \cup {Encode(<<Get, Field("Cookie", 0), RangeOf("bytes", 1, 2)>>),
          Encode(<<Get, RangeOf("bytes", 1, 9), RangeOf("bytes", 1, 2)>>),
          Encode(<<Get, Field("If-Modified-Since", 1), RangeOf("bytes", 1, 2)>>),
          Encode(<<Get, Field("Connect-Length", 1)>>) \o <<Data, CR, LF>>,
          Encode(<<Get, Data>>),
          <<Get, CR, LF>>, <<Get, CR>>, <<Get>>, <<LF, Get>>, <<Get, CR, Data>>,
          <<Data, CR, LF, CR, LF>>, <<>>}

\* Requests as a browser would send them.
PlainBodies == {Encode(<<Get>>), Encode(<<Get, Field("Accept", 0)>>)}

File(size, mtime, opens) ==
    [st |-> "file", size |-> size, mtime |-> mtime, opens |-> opens]

MCFiles ==
    {[st |-> "missing"], [st |-> "directory"], [st |-> "private"],
     File(0, 1, TRUE), File(3, 2, TRUE), File(9, 1, TRUE), File(3, 1, FALSE)}
=============================================================================
