-------------------------------- MODULE Http --------------------------------
(***************************************************************************)
(* The HTTP server object of one connection (logic/ngx_c_http*.cpp and, as *)
(* HttpsServer has the same Business, logic/ngx_c_https.cpp): how a package *)
(* is read as a request, what is answered, and how sendMsg writes it.  The *)
(* object is made in ngx_event_accept and lives as long as the connection; *)
(* init runs in its constructor only.                                      *)
(*                                                                         *)
(* A request is a sequence of cells.  CR and LF are cells of their own, and *)
(* so is the text of a line, of which it is told what the parser finds in  *)
(* it.  Lengths count cells; a field of the answer has length 1.  Every    *)
(* member function is an operator from the object to the object, with its  *)
(* result in "ret".                                                        *)
(***************************************************************************)
EXTENDS Integers, Sequences, SequencesExt

CONSTANTS
    Bodies,         \* requests, as sequences of cells
    Files,          \* what stat, open and mmap find at the URL
    WriteResults,   \* subset of {"all", "some", "EAGAIN", "EINTR", "EPIPE"}
    UShort,         \* 2^16, the values of an unsigned short
    MaxRequests     \* bound on the requests of a connection

PKGHEADERLEN == 1

ASSUME HttpAssumption ==
    /\ WriteResults \subseteq {"all", "some", "EAGAIN", "EINTR", "EPIPE"}
    /\ UShort \in Nat /\ UShort > PKGHEADERLEN
    /\ MaxRequests \in Nat

VARIABLES
    http,       \* the HttpServer
    phase,      \* "idle", "read" and "send" are process_read and sendMsg
    isendlen,
    mapped,     \* the request whose mapping of a file exists, or 0
    again,      \* history: WriteData was called before for this answer
    requests,   \* how many packages Business was called with
    file        \* history: what the last request found at its URL

vars == <<http, phase, isendlen, mapped, again, requests, file>>

CR == [kind |-> "CR"]
LF == [kind |-> "LF"]

\* A cell: an end-of-line character, or the text of a line: a request line, a
\* header, whose value the parser reads as a number, or anything else.
Cells ==
    {CR, LF, [kind |-> "data"]}
    \cup [kind : {"request"}, method : STRING, fault : {"none", "no url", "rest"}]
    \cup [kind : {"header"}, name : STRING \ {"Range"}, value : Int]
    \cup [kind : {"header"}, name : {"Range"}, form : {"bytes", "no dash", "other"},
          from : Int, to : Int]

Stats ==
    [st : {"missing", "directory", "private"}]
    \cup [st : {"file"}, size : Nat, mtime : Int, opens : BOOLEAN]

\* A cell holds all the text up to the end of its line.
ASSUME InputAssumption ==
    /\ Bodies \subseteq Seq(Cells)
    /\ \A b \in Bodies : \A i \in 1..(Len(b) - 1) : b[i] \in {CR, LF} \/ b[i + 1] \in {CR, LF}
    /\ Files \subseteq Stats

init ==
    [m_start_idx |-> 0, m_check_idx |-> 0, m_check_state |-> "REQUETLINE",
     m_method |-> "GET", m_content_length |-> 0,
     m_range_start |-> 0, m_range_end |-> 0, m_if_modified_since_time |-> 0,
     m_cookie_value |-> FALSE, m_header_func_vec |-> <<>>,
     m_file_ptr |-> "null", m_stat |-> [st |-> "none"],
     m_read_buffer |-> <<>>, m_write_buffer |-> <<>>,
     m_iov |-> [head |-> 0, off |-> 0, len |-> 0, of |-> 0], m_iov_count |-> 0,
     ret |-> "NO_REQUEST"]

Init ==
    /\ http = init
    /\ phase = "idle"
    /\ isendlen = 0 /\ mapped = 0 /\ again = FALSE /\ requests = 0
    /\ file = [st |-> "none"]

Return(h, code) == [h EXCEPT !.ret = code]

-----------------------------------------------------------------------------
(* Lines.                                                                  *)

m_read_idx(h) == Len(h.m_read_buffer)
At(h, i) == h.m_read_buffer[i + 1]

\* The first end-of-line character from m_check_idx on, if there is one.
LineEnds(h) == {i \in h.m_check_idx..(m_read_idx(h) - 1) : At(h, i) \in {CR, LF}}
LineEnd(h) == CHOOSE i \in LineEnds(h) : \A j \in LineEnds(h) : i <= j

parse_line(h) ==
    LET i == LineEnd(h)
        Line(s, idx) == [status |-> s, idx |-> idx] IN
    IF LineEnds(h) = {}
    THEN Line("LINE_OPEN",
              IF h.m_check_idx < m_read_idx(h) THEN m_read_idx(h) ELSE h.m_check_idx)
    ELSE IF At(h, i) = CR
    THEN IF i + 1 = m_read_idx(h) THEN Line("LINE_OPEN", i)
         ELSE IF At(h, i + 1) = LF THEN Line("LINE_OK", i + 2)
         ELSE Line("LINE_BAD", i)
    ELSE IF i > 1 /\ At(h, i - 1) = CR THEN Line("LINE_OK", i + 2)
    ELSE Line("LINE_BAD", i)

\* The text of the line that ends at i, which may start earlier than the
\* search for its end.
Text(h, i) == SubSeq(h.m_read_buffer, h.m_start_idx + 1, i)

\* Where there is more in it than ends of lines.
Words(text) == {i \in DOMAIN text : text[i] \notin {CR, LF}}
FirstWord(text) == text[Min(Words(text))]

-----------------------------------------------------------------------------
(* parse_request, parse_header, parse_content.                             *)

Methods == {"GET", "POST", "HEAD", "OPTIONS"}

\* A request line without a URL; or with one, but the version, the scheme or
\* the path is not accepted.  An unknown method leaves m_method as it is.
parse_request(h, text) ==
    IF Words(text) = {} \/ FirstWord(text).kind # "request"
    THEN Return(h, "BAD_REQUEST")
    ELSE LET w == FirstWord(text)
             m == IF w = Head(text) /\ w.method \in Methods THEN w.method ELSE h.m_method IN
         IF w.fault = "no url" THEN Return(h, "BAD_REQUEST")
         ELSE IF w.fault = "rest" THEN Return([h EXCEPT !.m_method = m], "BAD_REQUEST")
         ELSE Return([h EXCEPT !.m_method = m, !.m_check_state = "HEADER"], "NO_REQUEST")

Range_func(h, w) ==
    IF w.form = "other" THEN Return(h, "BAD_REQUEST")
    ELSE LET g == IF w.form = "no dash" THEN h
                  ELSE [h EXCEPT !.m_range_start = w.from, !.m_range_end = w.to] IN
         Return([g EXCEPT !.m_header_func_vec = Append(@, "range")], "NO_REQUEST")

\* m_keeplive and m_host are set and never read, and decompose_weight fills
\* copies of the Accept maps.
Connection_func(h) == Return(h, "NO_REQUEST")
Accept_func(h) == Return(h, "NO_REQUEST")
Connect_Length_func(h, w) == Return([h EXCEPT !.m_content_length = w.value], "NO_REQUEST")
If_Modified_Since_func(h, w) ==
    Return([h EXCEPT !.m_if_modified_since_time = w.value], "NO_REQUEST")
Cookie_func(h) == Return([h EXCEPT !.m_cookie_value = TRUE], "NO_REQUEST")

\* A "faulty" value is one that stoi rejects or a strchr does not find, as in
\* If_Match_func.
parse_header_func_map(h, w) ==
    CASE w.name = "Connection" -> Connection_func(h)
      [] w.name = "Accept" -> Accept_func(h)
      [] w.name = "Connect-Length" -> Connect_Length_func(h, w)
      [] w.name = "Range" -> Range_func(h, w)
      [] w.name = "If-Modified-Since" -> If_Modified_Since_func(h, w)
      [] w.name = "Cookie" -> Cookie_func(h)
      [] w.name = "faulty" -> Return(h, "aborted")
      [] OTHER -> Return(h, "BAD_REQUEST")

HasColon(w) == w.kind = "header" \/ (w.kind = "request" /\ w.fault # "no url")

parse_header(h, text) ==
    IF text = <<>>
    THEN IF h.m_content_length > 0
         THEN Return([h EXCEPT !.m_check_state = "CONTENT"], "NO_REQUEST")
         ELSE Return(h, "GET_REQUEST")
    ELSE IF Words(text) = {} \/ ~HasColon(FirstWord(text))
    THEN Return(h, "aborted")
    ELSE IF Head(text).kind = "header" THEN parse_header_func_map(h, Head(text))
    ELSE Return(h, "BAD_REQUEST")

parse_content(h) ==
    Return(h, IF m_read_idx(h) >= h.m_content_length + h.m_check_idx
              THEN "GET_REQUEST" ELSE "NO_REQUEST")

-----------------------------------------------------------------------------
(* do_request.                                                             *)

\* Mutant: a range that nobody asked for.
RangeHonoured_Any(h, size) == h.m_range_end <= size

RangeHonoured(h, size) ==
    /\ h.m_range_start # 0 /\ h.m_range_end # 0
    /\ ~(h.m_range_start < 0 \/ h.m_range_end > size)

\* Mutant: the length of the file stands, although only a part is sent.
MapFile_WholeLength(h, f) ==
    IF ~f.opens THEN Return(h, "INTERNAL_ERROR")
    ELSE IF f.size = 0 THEN Return([h EXCEPT !.m_file_ptr = "MAP_FAILED"], "INTERNAL_ERROR")
    ELSE Return([h EXCEPT !.m_file_ptr = "file", !.m_content_length = f.size],
                IF RangeHonoured(h, f.size) THEN "PARTIAL_CONTENT" ELSE "FILE_REQUEST")

\* Mutant: the result of mmap is not looked at.
MapFile_Unchecked(h, f) ==
    IF ~f.opens THEN Return(h, "INTERNAL_ERROR")
    ELSE Return([h EXCEPT !.m_file_ptr = IF f.size = 0 THEN "MAP_FAILED" ELSE "file",
                          !.m_content_length = f.size], "FILE_REQUEST")

\* The file is there and may be read: map it.  mmap refuses a length of 0.
MapFile(h, f) ==
    IF ~f.opens THEN Return(h, "INTERNAL_ERROR")
    ELSE IF f.size = 0 THEN Return([h EXCEPT !.m_file_ptr = "MAP_FAILED"], "INTERNAL_ERROR")
    ELSE LET g == [h EXCEPT !.m_file_ptr = "file", !.m_content_length = f.size] IN
         IF RangeHonoured(h, f.size)
         THEN Return([g EXCEPT !.m_content_length = h.m_range_end - h.m_range_start + 1],
                     "PARTIAL_CONTENT")
         ELSE Return(g, "FILE_REQUEST")

\* m_if_unmodified_since_time stays 0: no header sets it.
do_request(h, f) ==
    LET g == [h EXCEPT !.m_stat = f] IN
    IF h.m_method = "OPTIONS" THEN Return(h, "FILE_REQUEST")
    ELSE IF f.st = "missing" THEN Return(h, "NO_RESOURCE")
    ELSE IF f.st = "directory" THEN Return(g, "BAD_REQUEST")
    ELSE IF f.st = "private" THEN Return(g, "FORBIDDEN_REQUEST")
    ELSE IF h.m_if_modified_since_time = 0 THEN MapFile(g, f)
    ELSE IF f.mtime > h.m_if_modified_since_time
    THEN MapFile([g EXCEPT !.m_header_func_vec = Append(@, "Last-Modified")], f)
    ELSE Return(g, "NOT_MODIFIED")

-----------------------------------------------------------------------------
(* process_write.                                                          *)

add_senddata(h, fields) == [h EXCEPT !.m_write_buffer = @ \o fields]
add_headers(h) == add_senddata(h, <<"Connect-Length", "blank">>)
add_content(h) == add_senddata(h, <<"text">>)
add_cookie(h) == add_senddata(h, <<"Set-Cookie">>)

\* A callback of m_header_func_vec.
Callback(h, f) ==
    IF f = "Last-Modified" THEN add_senddata(h, <<"Last-Modified">>)
    ELSE IF ~(h.m_range_start < 0 \/ h.m_range_end > h.m_stat.size)
    THEN add_senddata(h, <<"Accept: bytes">>)
    ELSE add_senddata([h EXCEPT !.m_range_start = 0, !.m_range_end = h.m_stat.size],
                      <<"Accept: none">>)
Callbacks(h) == FoldLeft(Callback, h, h.m_header_func_vec)

\* Only the text that has been written is sent, or a part of the file with it.
SendText(h) ==
    [h EXCEPT !.m_iov.head = Len(h.m_write_buffer), !.m_iov_count = 2]
SendFile(h, off, len) ==
    [h EXCEPT !.m_iov = [head |-> Len(h.m_write_buffer), off |-> off, len |-> len,
                         of |-> requests],
              !.m_iov_count = 3]

ErrorCodes == {"BAD_REQUEST", "INTERNAL_ERROR", "NO_RESOURCE", "FORBIDDEN_REQUEST"}
Status(code) ==
    CASE code = "BAD_REQUEST" -> "400"
      [] code = "INTERNAL_ERROR" -> "500"
      [] code = "NO_RESOURCE" -> "404"
      [] code = "FORBIDDEN_REQUEST" -> "403"
      [] code = "NOT_MODIFIED" -> "304"
      [] code = "PARTIAL_CONTENT" -> "206"
      [] code = "FILE_REQUEST" -> "200"

GET_func(h) ==
    LET g == add_senddata(h, <<Status(h.ret)>>)
        d == add_senddata(g, <<"Date", "Connect-Length">>)
        c == IF h.ret = "FILE_REQUEST" /\ ~h.m_cookie_value THEN add_cookie(d) ELSE d
        w == add_senddata(Callbacks(c), <<"blank">>) IN
    IF h.ret \in ErrorCodes THEN SendText(add_content(add_headers(g)))
    ELSE IF h.ret = "NOT_MODIFIED" THEN SendText(g)
    ELSE IF h.ret = "FILE_REQUEST" THEN SendFile(w, 0, w.m_content_length)
    ELSE SendFile(w, w.m_range_start, w.m_range_end - w.m_range_start + 1)

\* HEAD and OPTIONS say 200 whatever process_read returned; POST says nothing.
POST_func(h) == h
HEAD_func(h) ==
    SendText(add_senddata(h, <<"200", "Date", "Allow", "Content-Length",
                               "Last-Modified", "Server", "Accept", "blank">>))
OPTIONS_func(h) == SendText(add_senddata(h, <<"200", "Date", "Allow", "blank">>))

process_write(h) ==
    CASE h.m_method = "GET" -> GET_func(h)
      [] h.m_method = "POST" -> POST_func(h)
      [] h.m_method = "HEAD" -> HEAD_func(h)
      [] h.m_method = "OPTIONS" -> OPTIONS_func(h)

-----------------------------------------------------------------------------
(* Business: a package of the client, one turn of the loop in process_read *)
(* after another, and the answer.                                          *)

Business(body) ==
    /\ phase = "idle"
    /\ requests < MaxRequests
    /\ http' = [http EXCEPT !.m_read_buffer = body]
    /\ phase' = "read"
    /\ requests' = requests + 1
    /\ file' = [st |-> "none"]
    /\ UNCHANGED <<isendlen, mapped, again>>

\* The rest of Business, once process_read has returned.
Answer(h) ==
    LET w == process_write(h) IN
    /\ http' = w
    /\ isendlen' = (Len(w.m_write_buffer) + w.m_content_length + PKGHEADERLEN) % UShort
    /\ phase' = "send"
    /\ mapped' = IF h.m_method # "OPTIONS" /\ h.m_file_ptr = "file"
                    /\ h.ret \in {"FILE_REQUEST", "PARTIAL_CONTENT"}
                 THEN requests ELSE 0
    /\ again' = FALSE
    /\ UNCHANGED requests

\* Mutant: the end of the buffer is taken for a reason to wait for more.
NextLine_Waits(h) ==
    IF parse_line(h).status = "LINE_OPEN"
    THEN Return([h EXCEPT !.m_check_idx = parse_line(h).idx], "NO_REQUEST")
    ELSE LET g == [h EXCEPT !.m_start_idx = parse_line(h).idx,
                            !.m_check_idx = parse_line(h).idx] IN
         IF h.m_check_state = "REQUETLINE" THEN parse_request(g, Text(h, LineEnd(h)))
         ELSE parse_header(g, Text(h, LineEnd(h)))

\* The line taken off the buffer, and what the state of the parser makes of it.
NextLine(h) ==
    LET line == parse_line(h)
        g == [h EXCEPT !.m_check_idx = line.idx]
        text == Text(h, LineEnd(h))
        rest == [g EXCEPT !.m_start_idx = line.idx] IN
    IF line.status # "LINE_OK" THEN Return(g, "BAD_REQUEST")
    ELSE CASE h.m_check_state = "REQUETLINE" -> parse_request(rest, text)
           [] h.m_check_state = "HEADER" -> parse_header(rest, text)
           [] h.m_check_state = "CONTENT" -> parse_content(rest)

process_read ==
    /\ phase = "read"
    /\ LET h == NextLine(http) IN
       \/ /\ h.ret = "NO_REQUEST"
          /\ http' = h
          /\ UNCHANGED <<phase, isendlen, mapped, again, requests, file>>
       \/ h.ret = "BAD_REQUEST" /\ Answer(h) /\ UNCHANGED file
       \/ /\ h.ret = "GET_REQUEST"
          /\ \E f \in Files : Answer(do_request(h, f)) /\ file' = f
       \/ /\ h.ret = "aborted"
          /\ phase' = "aborted"
          /\ UNCHANGED <<http, isendlen, mapped, again, requests, file>>

-----------------------------------------------------------------------------
(* sendMsg.                                                                *)

\* The bytes that m_iov describes.
Bytes == IF http.m_iov_count = 0 THEN 0
         ELSE PKGHEADERLEN + http.m_iov.head
              + (IF http.m_iov_count = 3 THEN http.m_iov.len ELSE 0)

Retry == again' = TRUE /\ UNCHANGED <<phase, isendlen>>

\* writev took ret bytes.  There is no branch for more than isendlen.
Wrote(ret) ==
    \/ ret < isendlen /\ phase' = "rest" /\ UNCHANGED <<isendlen, again>>
    \/ ret = isendlen /\ phase' = "idle" /\ isendlen' = 0 /\ UNCHANGED again
    \/ ret > isendlen /\ Retry

\* writev refuses a length that is negative as an int (EINVAL), and reads no
\* further than the memory that is there (EFAULT if that is nothing at all).
Refused == http.m_iov_count = 3 /\ http.m_iov.len < 0
Readable == ~Refused /\ (http.m_iov_count = 3 => http.m_iov.of = mapped)

\* One call of HttpWriteData, which unmaps the file whatever writev returned,
\* and what sendMsg makes of it.  "rest" waits for sendRemainMsg, "broken"
\* leaves logicPorcMutex locked.
sendMsg ==
    /\ phase = "send"
    /\ mapped' = 0
    /\ \/ ~Readable /\ Retry
       \/ Readable /\ "all" \in WriteResults /\ Wrote(Bytes)
       \/ ~Refused /\ "some" \in WriteResults /\ \E ret \in 0..(Bytes - 1) : Wrote(ret)
       \/ /\ ~Refused /\ "EAGAIN" \in WriteResults
          /\ phase' = "rest" /\ UNCHANGED <<isendlen, again>>
       \/ ~Refused /\ "EINTR" \in WriteResults /\ Retry
       \/ /\ ~Refused /\ "EPIPE" \in WriteResults
          /\ phase' = "broken" /\ isendlen' = 0 /\ UNCHANGED again
    /\ UNCHANGED <<http, requests, file>>

Next == (\E body \in Bodies : Business(body)) \/ process_read \/ sendMsg

Spec == Init /\ [][Next]_vars

\* The pool thread that parses a request goes on.
FairSpec == Spec /\ WF_vars(process_read)

-----------------------------------------------------------------------------
(* What a request asks for, read off as a whole.                           *)

\* The i-th line is one text with its CR and LF.
IsLine(b, i) ==
    /\ 3 * i <= Len(b)
    /\ b[3 * i - 2] \notin {CR, LF} /\ b[3 * i - 1] = CR /\ b[3 * i] = LF
Line(b, i) == b[3 * i - 2]

\* A blank line follows n others.
IsBlank(b, n) == 3 * n + 2 <= Len(b) /\ b[3 * n + 1] = CR /\ b[3 * n + 2] = LF

\* The number of lines before the first blank one; 0 if there is none.
Lines(b) ==
    LET ns == {n \in 1..Len(b) : IsBlank(b, n) /\ \A i \in 1..n : IsLine(b, i)} IN
    IF ns = {} THEN 0 ELSE CHOOSE n \in ns : TRUE

Accepted(w) ==
    /\ w.kind = "header"
    /\ w.name \in {"Connection", "Accept", "Connect-Length",
                  "If-Modified-Since", "Cookie"}
       \/ (w.name = "Range" /\ w.form # "other")

WellFormed(b) ==
    /\ Lines(b) > 0
    /\ Line(b, 1).kind = "request" /\ Line(b, 1).fault = "none"
    /\ \A i \in 2..Lines(b) : Accepted(Line(b, i))

\* The headers of that name in the first n lines which have a value; the last
\* one counts.
Given(b, n, name) ==
    {i \in 2..n : /\ Line(b, i).kind = "header" /\ Line(b, i).name = name
                  /\ name = "Range" => Line(b, i).form = "bytes"}
LastOf(b, n, name) ==
    {i \in Given(b, n, name) : \A j \in Given(b, n, name) : j <= i}

WantsPart(b, size) ==
    \E i \in LastOf(b, Lines(b), "Range") :
        Line(b, i).from > 0 /\ Line(b, i).to # 0 /\ Line(b, i).to <= size

Unchanged(b, f) ==
    \E i \in LastOf(b, Lines(b), "If-Modified-Since") :
        Line(b, i).value # 0 /\ f.mtime <= Line(b, i).value

HasBody(b) ==
    \E i \in Given(b, Lines(b), "Connect-Length") : Line(b, i).value > 0

Outcome(b, f) ==
    IF ~WellFormed(b) THEN "BAD_REQUEST"
    ELSE IF f.st = "none" THEN "the file was not looked for"
    ELSE IF f.st = "missing" THEN "NO_RESOURCE"
    ELSE IF f.st = "directory" THEN "BAD_REQUEST"
    ELSE IF f.st = "private" THEN "FORBIDDEN_REQUEST"
    ELSE IF Unchanged(b, f) THEN "NOT_MODIFIED"
    ELSE IF ~f.opens \/ f.size = 0 THEN "INTERNAL_ERROR"
    ELSE IF WantsPart(b, f.size) THEN "PARTIAL_CONTENT"
    ELSE "FILE_REQUEST"

-----------------------------------------------------------------------------
(* Properties.                                                             *)

\* The answer prepared for a GET without a body is the one it asks for: the
\* parser, going line by line over the indexes it keeps in the object, and
\* do_request come to the same result as the request read as a whole; and
\* the answer starts with the status of that result.  (What is no request, or
\* has an unknown method, leaves m_method at GET.)
AnswerRight ==
    http.m_method = "GET" /\ ~HasBody(http.m_read_buffer) =>
        /\ http.ret = Outcome(http.m_read_buffer, file)
        /\ Head(http.m_write_buffer) = Status(http.ret)

\* It is for the first request of a connection.
FirstAnswerRight == phase = "send" /\ requests = 1 => AnswerRight

\* It is for every request: connections are kept alive,
\* "是否保持长连接，http1.1默认开启".
EveryAnswerRight == phase = "send" => AnswerRight

\* The length put into the package header, by which sendMsg decides whether
\* everything was sent, is what m_iov describes, for every request of the
\* connection, stale fields included, up to the width of pkgLen.
LengthAgrees ==
    phase = "send" /\ http.m_method = "GET"
        /\ http.ret \in {"FILE_REQUEST", "PARTIAL_CONTENT"}
    => isendlen = Bytes % UShort

\* The part of the file that writev is first told to read is mapped, and ends
\* at most one byte past the file (the test of a range accepts its size as the
\* index of the last byte).
MappedWhenSent ==
    phase = "send" /\ http.m_method = "GET" /\ http.m_iov_count = 3 /\ ~again
    => /\ http.m_iov.of = mapped
       /\ http.m_iov.off >= 0
       /\ http.m_iov.off + http.m_iov.len <= http.m_stat.size + 1

\* The loop of process_read ends: each package is answered, unless a header
\* without a colon or with a faulty value ends the process.
Answered == phase = "read" ~> phase \in {"send", "aborted"}
=============================================================================
