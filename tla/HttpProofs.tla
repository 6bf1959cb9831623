----------------------------- MODULE HttpProofs -----------------------------
(***************************************************************************)
(* For any requests, files and stale fields of the object: the length in   *)
(* the package header of an answer is that of m_iov, and the part of the   *)
(* file in it is mapped.  And the first request of a connection gets the   *)
(* answer it asks for.                                                     *)
(***************************************************************************)
EXTENDS Http, FiniteSetTheorems, TLAPS

-----------------------------------------------------------------------------
(* Types.                                                                  *)

Fields == {"range", "Last-Modified"}
Codes == {"NO_REQUEST", "GET_REQUEST", "aborted", "NOT_MODIFIED", "PARTIAL_CONTENT",
          "FILE_REQUEST"} \cup ErrorCodes
Texts == {"200", "206", "304", "400", "403", "404", "500", "Date", "Allow", "Server",
          "Connect-Length", "Content-Length", "Last-Modified", "Accept",
          "Accept: bytes", "Accept: none", "Set-Cookie", "text", "blank"}
Iov == [head : Int, off : Int, len : Int, of : Int]
Found == Stats \cup {[st |-> "none"]}

\* The HttpServer.
Server ==
    [m_start_idx : Nat, m_check_idx : Nat,
     m_check_state : {"REQUETLINE", "HEADER", "CONTENT"},
     m_method : Methods, m_content_length : Int,
     m_range_start : Int, m_range_end : Int, m_if_modified_since_time : Int,
     m_cookie_value : BOOLEAN, m_header_func_vec : Seq(Fields),
     m_file_ptr : {"null", "file", "MAP_FAILED"}, m_stat : Found,
     m_read_buffer : Seq(Cells), m_write_buffer : Seq(Texts),
     m_iov : Iov, m_iov_count : Nat, ret : Codes]

LEMMA CellTyped ==
    ASSUME NEW w \in Cells, w.kind = "header"
    PROVE  IF w.name = "Range" THEN w.from \in Int /\ w.to \in Int ELSE w.value \in Int
<1>1. w \notin {CR, LF, [kind |-> "data"]}
  BY DEF CR, LF
<1>2. w \notin [kind : {"request"}, method : STRING, fault : {"none", "no url", "rest"}]
  OBVIOUS
<1>3. CASE w \in [kind : {"header"}, name : STRING \ {"Range"}, value : Int]
  BY <1>3
<1>4. CASE w \in [kind : {"header"}, name : {"Range"}, form : {"bytes", "no dash", "other"},
                 from : Int, to : Int]
  BY <1>4
<1> QED
  BY <1>1, <1>2, <1>3, <1>4 DEF Cells

LEMMA InitTyped == init \in Server
<1>1. <<>> \in Seq(Fields) /\ <<>> \in Seq(Cells) /\ <<>> \in Seq(Texts)
  OBVIOUS
<1>2. [st |-> "none"] \in Found
  BY DEF Found
<1>3. [head |-> 0, off |-> 0, len |-> 0, of |-> 0] \in Iov
  BY DEF Iov
<1>4. "GET" \in Methods
  BY DEF Methods
<1>5. "NO_REQUEST" \in Codes
  BY DEF Codes
<1>6. ASSUME NEW v \in Seq(Fields), NEW r \in Seq(Cells), NEW w \in Seq(Texts),
             NEW st \in Found, NEW iov \in Iov, NEW m \in Methods
      PROVE  [m_start_idx |-> 0, m_check_idx |-> 0, m_check_state |-> "REQUETLINE",
              m_method |-> m, m_content_length |-> 0,
              m_range_start |-> 0, m_range_end |-> 0, m_if_modified_since_time |-> 0,
              m_cookie_value |-> FALSE, m_header_func_vec |-> v,
              m_file_ptr |-> "null", m_stat |-> st,
              m_read_buffer |-> r, m_write_buffer |-> w,
              m_iov |-> iov, m_iov_count |-> 0, ret |-> "NO_REQUEST"] \in Server
  BY <1>5 DEF Server
<1> QED
  BY <1>1, <1>2, <1>3, <1>4, <1>6, Zenon DEF init

LEMMA ReturnTyped ==
    ASSUME NEW h \in Server, NEW code \in Codes
    PROVE  Return(h, code) \in Server
  BY DEF Return, Server

LEMMA RequestTyped ==
    ASSUME NEW h \in Server, NEW text \in Seq(Cells)
    PROVE  parse_request(h, text) \in Server
<1> DEFINE w == FirstWord(text)
           m == IF w = Head(text) /\ w.method \in Methods THEN w.method ELSE h.m_method
           g == [h EXCEPT !.m_method = m]
           k == [g EXCEPT !.m_check_state = "HEADER"]
<1>1. m \in Methods
  BY DEF Server
<1>2. g \in Server
  <2> HIDE DEF m
  <2> QED BY <1>1 DEF Server
<1>3. [h EXCEPT !.m_method = m, !.m_check_state = "HEADER"] \in Server
  <2> HIDE DEF m
  <2> QED BY <1>1 DEF Server
<1>4. Return(h, "BAD_REQUEST") \in Server /\ Return(g, "BAD_REQUEST") \in Server
       /\ Return([h EXCEPT !.m_method = m, !.m_check_state = "HEADER"], "NO_REQUEST") \in Server
  <2>1. "BAD_REQUEST" \in Codes /\ "NO_REQUEST" \in Codes
    BY DEF Codes, ErrorCodes
  <2> QED BY <1>2, <1>3, <2>1, ReturnTyped, Zenon
<1> QED
  BY <1>4, Zenon DEF parse_request

LEMMA RangeTyped ==
    ASSUME NEW h \in Server, NEW w \in Cells, w.kind = "header", w.name = "Range"
    PROVE  Range_func(h, w) \in Server
<1> DEFINE k == [h EXCEPT !.m_range_start = w.from, !.m_range_end = w.to]
           g == IF w.form = "no dash" THEN h ELSE k
           a == [g EXCEPT !.m_header_func_vec = Append(@, "range")]
<1>1. w.from \in Int /\ w.to \in Int
  BY CellTyped, Zenon
<1>2. k \in Server
  BY <1>1 DEF Server
<1>3. g \in Server
  <2> HIDE DEF k
  <2> QED BY <1>2
<1>4. a \in Server
  <2> HIDE DEF g
  <2>1. "range" \in Fields
    BY DEF Fields
  <2>2. Append(g.m_header_func_vec, "range") \in Seq(Fields)
    BY <1>3, <2>1 DEF Server
  <2> QED BY <1>3, <2>2 DEF Server
<1>5. Return(h, "BAD_REQUEST") \in Server /\ Return(a, "NO_REQUEST") \in Server
  <2> HIDE DEF a
  <2>1. "BAD_REQUEST" \in Codes /\ "NO_REQUEST" \in Codes
    BY DEF Codes, ErrorCodes
  <2> QED BY <1>4, <2>1, ReturnTyped, Zenon
<1> QED
  BY <1>5, Zenon DEF Range_func

LEMMA HeaderFieldTyped ==
    ASSUME NEW h \in Server, NEW w \in Cells, w.kind = "header"
    PROVE  parse_header_func_map(h, w) \in Server
<1>1. "BAD_REQUEST" \in Codes /\ "NO_REQUEST" \in Codes /\ "aborted" \in Codes
  BY DEF Codes, ErrorCodes
<1>2. Connection_func(h) \in Server /\ Accept_func(h) \in Server
       /\ Return(h, "aborted") \in Server /\ Return(h, "BAD_REQUEST") \in Server
  BY <1>1, ReturnTyped, Zenon DEF Connection_func, Accept_func
<1>3. ASSUME w.name # "Range"
      PROVE  Connect_Length_func(h, w) \in Server /\ If_Modified_Since_func(h, w) \in Server
  <2>1. w.value \in Int
    BY <1>3, CellTyped, Zenon
  <2>2. [h EXCEPT !.m_content_length = w.value] \in Server
        /\ [h EXCEPT !.m_if_modified_since_time = w.value] \in Server
    BY <2>1 DEF Server
  <2> QED
    BY <1>1, <2>2, ReturnTyped, Zenon DEF Connect_Length_func, If_Modified_Since_func
<1>4. Cookie_func(h) \in Server
  <2>1. [h EXCEPT !.m_cookie_value = TRUE] \in Server
    BY DEF Server
  <2> QED BY <1>1, <2>1, ReturnTyped, Zenon DEF Cookie_func
<1>5. w.name = "Range" => Range_func(h, w) \in Server
  BY RangeTyped
<1> QED
  BY <1>2, <1>3, <1>4, <1>5 DEF parse_header_func_map

LEMMA HeaderTyped ==
    ASSUME NEW h \in Server, NEW text \in Seq(Cells)
    PROVE  parse_header(h, text) \in Server
<1>1. "BAD_REQUEST" \in Codes /\ "NO_REQUEST" \in Codes /\ "aborted" \in Codes
       /\ "GET_REQUEST" \in Codes
  BY DEF Codes, ErrorCodes
<1>2. [h EXCEPT !.m_check_state = "CONTENT"] \in Server
  BY DEF Server
<1>3. Return([h EXCEPT !.m_check_state = "CONTENT"], "NO_REQUEST") \in Server
       /\ Return(h, "GET_REQUEST") \in Server /\ Return(h, "aborted") \in Server
       /\ Return(h, "BAD_REQUEST") \in Server
  BY <1>1, <1>2, ReturnTyped, Zenon
<1>4. text # <<>> => Head(text) \in Cells
  OBVIOUS
<1>5. text # <<>> /\ Head(text).kind = "header" =>
          parse_header_func_map(h, Head(text)) \in Server
  BY <1>4, HeaderFieldTyped, Zenon
<1> QED
  BY <1>3, <1>5, Zenon DEF parse_header

LEMMA ContentTyped ==
    ASSUME NEW h \in Server
    PROVE  parse_content(h) \in Server
<1>1. "NO_REQUEST" \in Codes /\ "GET_REQUEST" \in Codes
  BY DEF Codes, ErrorCodes
<1> QED
  BY <1>1, ReturnTyped, Zenon DEF parse_content

-----------------------------------------------------------------------------
(* A turn of the loop in process_read.                                     *)

\* A non-empty set of natural numbers has a least element.
LEMMA NatMin ==
    ASSUME NEW X \in SUBSET Nat, X # {}
    PROVE  \E m \in X : \A k \in X : m <= k
<1> DEFINE T == {0..n : n \in X}
<1>1. \A n \in Nat : 0..n \in FiniteSubsetsOf(Nat)
  BY FS_Interval DEF FiniteSubsetsOf
<1>2. T \subseteq FiniteSubsetsOf(Nat) /\ T # {}
  BY <1>1
<1>3. IsWellFoundedOn(StrictSubsetOrdering(Nat), FiniteSubsetsOf(Nat))
  BY FS_StrictSubsetOrderingWellFounded
<1>4. PICK x \in T : \A y \in T : ~(<<y, x>> \in StrictSubsetOrdering(Nat))
  <2> HIDE DEF T
  <2> QED BY <1>2, <1>3, WFMin
<1>5. PICK m \in X : x = 0..m
  BY <1>4
<1>6. ASSUME NEW k \in X, ~(m <= k) PROVE FALSE
  <2>1. 0..k \in T /\ 0..k \in SUBSET Nat /\ 0..m \in SUBSET Nat
    BY <1>6
  <2>2. 0..k \subseteq 0..m /\ 0..k # 0..m
    BY <1>6
  <2>3. <<0..k, 0..m>> \in StrictSubsetOrdering(Nat)
    BY <2>1, <2>2 DEF StrictSubsetOrdering
  <2> QED BY <1>4, <1>5, <2>1, <2>3
<1> QED BY <1>6

LEMMA LineTyped ==
    ASSUME NEW h \in Server
    PROVE  /\ parse_line(h).idx \in Nat
           /\ parse_line(h).status = "LINE_OK" =>
                  LineEnd(h) \in Nat /\ LineEnd(h) < Len(h.m_read_buffer)
<1> DEFINE len == Len(h.m_read_buffer)
<1>1. len \in Nat /\ h.m_check_idx \in Nat
  BY DEF Server
<1>2. LineEnds(h) \in SUBSET Nat /\ \A i \in LineEnds(h) : i < len
  BY <1>1 DEF LineEnds, m_read_idx
<1>3. ASSUME LineEnds(h) # {}
      PROVE  LineEnd(h) \in LineEnds(h)
  <2>1. \E i \in LineEnds(h) : \A j \in LineEnds(h) : i <= j
    BY <1>2, <1>3, NatMin
  <2> QED BY <2>1 DEF LineEnd
<1>4. CASE LineEnds(h) = {}
  <2> DEFINE idx == IF h.m_check_idx < m_read_idx(h) THEN m_read_idx(h) ELSE h.m_check_idx
  <2>1. parse_line(h) = [status |-> "LINE_OPEN", idx |-> idx]
    BY <1>4 DEF parse_line
  <2>2. idx \in Nat
    BY <1>1 DEF m_read_idx
  <2> QED BY <2>1, <2>2
<1>5. CASE LineEnds(h) # {}
  <2> DEFINE i == LineEnd(h)
  <2>1. i \in Nat /\ i < len
    BY <1>2, <1>3, <1>5
  <2>2. \E st \in {"LINE_OPEN", "LINE_OK", "LINE_BAD"}, idx \in {i, i + 2} :
            parse_line(h) = [status |-> st, idx |-> idx]
    BY <1>5 DEF parse_line
  <2> QED BY <2>1, <2>2
<1> QED BY <1>4, <1>5

\* Whatever the line, the object keeps its type.
LEMMA NextLineTyped ==
    ASSUME NEW h \in Server
    PROVE  NextLine(h) \in Server
<1> DEFINE idx == parse_line(h).idx
           text == Text(h, LineEnd(h))
           g == [h EXCEPT !.m_check_idx = idx]
           rest == [g EXCEPT !.m_start_idx = idx]
<1>1. g \in Server /\ rest \in Server
  <2>1. idx \in Nat
    BY LineTyped
  <2> HIDE DEF idx
  <2> QED BY <2>1 DEF Server
<1>2. Return(g, "BAD_REQUEST") \in Server
  <2> HIDE DEF g
  <2>1. "BAD_REQUEST" \in Codes
    BY DEF Codes, ErrorCodes
  <2> QED BY <1>1, <2>1, ReturnTyped
<1>3. ASSUME parse_line(h).status = "LINE_OK"
      PROVE  text \in Seq(Cells)
  <2> DEFINE i == LineEnd(h)
  <2>1. i \in Nat /\ i < Len(h.m_read_buffer)
    BY <1>3, LineTyped
  <2>2. h.m_read_buffer \in Seq(Cells) /\ h.m_start_idx \in Nat
    BY DEF Server
  <2> HIDE DEF i
  <2>3. SubSeq(h.m_read_buffer, h.m_start_idx + 1, i) \in Seq(Cells)
    BY <2>1, <2>2
  <2> QED BY <2>3 DEF Text, i
<1>4. ASSUME parse_line(h).status = "LINE_OK"
      PROVE  parse_request(rest, text) \in Server /\ parse_header(rest, text) \in Server
             /\ parse_content(rest) \in Server
  <2> HIDE DEF rest, text
  <2> QED BY <1>1, <1>3, <1>4, RequestTyped, HeaderTyped, ContentTyped
<1>5. h.m_check_state \in {"REQUETLINE", "HEADER", "CONTENT"}
  BY DEF Server
<1>6. CASE parse_line(h).status # "LINE_OK"
  BY <1>2, <1>6, Zenon DEF NextLine
<1>7. CASE parse_line(h).status = "LINE_OK"
  <2>1. CASE h.m_check_state = "REQUETLINE"
    BY <1>4, <1>7, <2>1 DEF NextLine
  <2>2. CASE h.m_check_state = "HEADER"
    BY <1>4, <1>7, <2>2 DEF NextLine
  <2>3. CASE h.m_check_state = "CONTENT"
    BY <1>4, <1>7, <2>3 DEF NextLine
  <2> QED BY <1>5, <2>1, <2>2, <2>3
<1> QED BY <1>6, <1>7

-----------------------------------------------------------------------------
(* What do_request prepares.                                               *)

Answers == ErrorCodes \cup {"NOT_MODIFIED", "FILE_REQUEST", "PARTIAL_CONTENT"}

\* A file that will be sent is mapped, and m_content_length is the length of
\* the part that was asked for, which lies in the file.
Prepared(h) ==
    h.m_method = "GET" /\ h.ret \in {"FILE_REQUEST", "PARTIAL_CONTENT"} =>
        /\ h.m_file_ptr = "file"
        /\ h.m_stat.size \in Nat
        /\ h.ret = "FILE_REQUEST" => h.m_content_length = h.m_stat.size
        /\ h.ret = "PARTIAL_CONTENT" =>
              /\ 0 <= h.m_range_start /\ h.m_range_end <= h.m_stat.size
              /\ h.m_content_length = h.m_range_end - h.m_range_start + 1

LEMMA CodesOfAnswers ==
    /\ Answers \subseteq Codes
    /\ {"BAD_REQUEST", "INTERNAL_ERROR", "NO_RESOURCE", "FORBIDDEN_REQUEST", "NOT_MODIFIED",
        "FILE_REQUEST", "PARTIAL_CONTENT"} \subseteq Answers
    /\ \A e \in ErrorCodes \cup {"NOT_MODIFIED"} : e \notin {"FILE_REQUEST", "PARTIAL_CONTENT"}
  BY DEF Answers, Codes, ErrorCodes

LEMMA StatTyped ==
    ASSUME NEW f \in Stats, f.st \notin {"missing", "directory", "private"}
    PROVE  f.size \in Nat /\ f.mtime \in Int /\ f.opens \in BOOLEAN
<1>1. f \in [st : {"file"}, size : Nat, mtime : Int, opens : BOOLEAN]
  BY DEF Stats
<1> QED BY <1>1

\* An answer with an error, or with the status line only, needs no file.
LEMMA ReturnPrepared ==
    ASSUME NEW h \in Server, NEW code \in ErrorCodes \cup {"NOT_MODIFIED"}
    PROVE  LET r == Return(h, code) IN
           r \in Server /\ r.ret \in Answers /\ Prepared(r) /\ r.m_method = h.m_method
<1>1. code \in Codes /\ code \in Answers /\ code \notin {"FILE_REQUEST", "PARTIAL_CONTENT"}
  BY DEF Codes, Answers, ErrorCodes
<1>2. Return(h, code) \in Server
  BY <1>1, ReturnTyped
<1>3. Return(h, code).ret = code /\ Return(h, code).m_method = h.m_method
  BY DEF Return, Server
<1> QED BY <1>1, <1>2, <1>3 DEF Prepared

LEMMA MapFilePrepared ==
    ASSUME NEW h \in Server, NEW f \in Stats, h.m_stat = f,
           f.st \notin {"missing", "directory", "private"}
    PROVE  LET r == MapFile(h, f) IN
           r \in Server /\ r.ret \in Answers /\ Prepared(r) /\ r.m_method = h.m_method
<1>1. f.size \in Nat /\ f.opens \in BOOLEAN
  BY StatTyped
<1>2. "INTERNAL_ERROR" \in ErrorCodes \cup {"NOT_MODIFIED"}
  BY DEF ErrorCodes
<1>3. CASE ~f.opens
  BY <1>2, <1>3, ReturnPrepared DEF MapFile
<1>4. CASE f.opens /\ f.size = 0
  <2> DEFINE k == [h EXCEPT !.m_file_ptr = "MAP_FAILED"]
  <2>1. k \in Server /\ k.m_method = h.m_method
    BY DEF Server
  <2>2. MapFile(h, f) = Return(k, "INTERNAL_ERROR")
    BY <1>4 DEF MapFile
  <2> HIDE DEF k
  <2> QED BY <1>2, <2>1, <2>2, ReturnPrepared
<1>5. CASE f.opens /\ f.size # 0
  <2> DEFINE g == [h EXCEPT !.m_file_ptr = "file", !.m_content_length = f.size]
             len == h.m_range_end - h.m_range_start + 1
             k == [g EXCEPT !.m_content_length = len]
  <2>0. h.m_range_start \in Int /\ h.m_range_end \in Int
    BY DEF Server
  <2>1. /\ g \in Server /\ g.m_method = h.m_method /\ g.m_file_ptr = "file"
        /\ g.m_stat = f /\ g.m_content_length = f.size
        /\ g.m_range_start = h.m_range_start /\ g.m_range_end = h.m_range_end
    <3>1. ASSUME NEW n \in Int
          PROVE  LET x == [h EXCEPT !.m_file_ptr = "file", !.m_content_length = n] IN
                 /\ x \in Server /\ x.m_method = h.m_method /\ x.m_file_ptr = "file"
                 /\ x.m_stat = h.m_stat /\ x.m_content_length = n
                 /\ x.m_range_start = h.m_range_start /\ x.m_range_end = h.m_range_end
      BY DEF Server
    <3>2. f.size \in Int
      BY <1>1
    <3> QED BY <3>1, <3>2, Zenon
  <2>2. /\ k \in Server /\ k.m_method = h.m_method /\ k.m_file_ptr = "file"
        /\ k.m_stat = f /\ k.m_content_length = len
        /\ k.m_range_start = h.m_range_start /\ k.m_range_end = h.m_range_end
    <3> HIDE DEF g
    <3>1. len \in Int
      BY <2>0
    <3> QED BY <2>1, <3>1 DEF Server
  <2>3. CASE RangeHonoured(h, f.size)
    <3>1. MapFile(h, f) = Return(k, "PARTIAL_CONTENT")
      BY <1>5, <2>3 DEF MapFile
    <3> HIDE DEF k
    <3>2. "PARTIAL_CONTENT" \in Codes /\ "PARTIAL_CONTENT" \in Answers
      BY CodesOfAnswers
    <3> DEFINE r == Return(k, "PARTIAL_CONTENT")
    <3>3. r \in Server
      BY <2>2, <3>2, ReturnTyped
    <3>4. /\ r.ret = "PARTIAL_CONTENT" /\ r.m_method = k.m_method
          /\ r.m_file_ptr = k.m_file_ptr /\ r.m_stat = k.m_stat
          /\ r.m_content_length = k.m_content_length
          /\ r.m_range_start = k.m_range_start /\ r.m_range_end = k.m_range_end
      BY <2>2 DEF Return, Server
    <3> HIDE DEF r
    <3>5. 0 <= h.m_range_start /\ h.m_range_end <= f.size
      BY <1>1, <2>0, <2>3 DEF RangeHonoured
    <3>6. Prepared(r)
      BY <1>1, <2>2, <3>4, <3>5 DEF Prepared
    <3> QED BY <2>2, <3>1, <3>2, <3>3, <3>4, <3>6 DEF r
  <2>4. CASE ~RangeHonoured(h, f.size)
    <3>1. MapFile(h, f) = Return(g, "FILE_REQUEST")
      BY <1>5, <2>4 DEF MapFile
    <3> HIDE DEF g
    <3>2. "FILE_REQUEST" \in Codes /\ "FILE_REQUEST" \in Answers
      BY CodesOfAnswers
    <3> DEFINE r == Return(g, "FILE_REQUEST")
    <3>3. r \in Server
      BY <2>1, <3>2, ReturnTyped
    <3>4. /\ r.ret = "FILE_REQUEST" /\ r.m_method = g.m_method
          /\ r.m_file_ptr = g.m_file_ptr /\ r.m_stat = g.m_stat
          /\ r.m_content_length = g.m_content_length
      BY <2>1 DEF Return, Server
    <3> HIDE DEF r
    <3>5. Prepared(r)
      BY <1>1, <2>1, <3>4 DEF Prepared
    <3> QED BY <2>1, <3>1, <3>2, <3>3, <3>4, <3>5 DEF r
  <2> QED BY <2>3, <2>4
<1> QED BY <1>1, <1>3, <1>4, <1>5

LEMMA DoRequestPrepared ==
    ASSUME NEW h \in Server, NEW f \in Stats
    PROVE  LET r == do_request(h, f) IN
           r \in Server /\ r.ret \in Answers /\ Prepared(r) /\ r.m_method = h.m_method
<1> DEFINE g == [h EXCEPT !.m_stat = f]
           k == [g EXCEPT !.m_header_func_vec = Append(@, "Last-Modified")]
           OK(r) == r \in Server /\ r.ret \in Answers /\ Prepared(r)
                      /\ r.m_method = h.m_method
<1>1. g \in Server /\ g.m_stat = f /\ g.m_method = h.m_method
  BY DEF Server, Found
<1>2. k \in Server /\ k.m_stat = f /\ k.m_method = h.m_method
  <2> HIDE DEF g
  <2>1. Append(g.m_header_func_vec, "Last-Modified") \in Seq(Fields)
    <3>1. "Last-Modified" \in Fields
      BY DEF Fields
    <3> QED BY <1>1, <3>1 DEF Server
  <2> QED BY <1>1, <2>1 DEF Server
<1>3. OK(Return(h, "FILE_REQUEST")) \/ h.m_method # "OPTIONS"
  <2> SUFFICES ASSUME h.m_method = "OPTIONS" PROVE OK(Return(h, "FILE_REQUEST"))
    OBVIOUS
  <2>1. "FILE_REQUEST" \in Codes /\ "FILE_REQUEST" \in Answers
    BY CodesOfAnswers
  <2>2. Return(h, "FILE_REQUEST") \in Server
    BY <2>1, ReturnTyped
  <2>3. Return(h, "FILE_REQUEST").ret = "FILE_REQUEST"
        /\ Return(h, "FILE_REQUEST").m_method = h.m_method
    BY DEF Return, Server
  <2> QED BY <2>1, <2>2, <2>3 DEF Prepared
<1> HIDE DEF k, g
<1>4. OK(Return(h, "NO_RESOURCE")) /\ OK(Return(g, "BAD_REQUEST"))
       /\ OK(Return(g, "FORBIDDEN_REQUEST")) /\ OK(Return(g, "NOT_MODIFIED"))
  <2>1. {"NO_RESOURCE", "BAD_REQUEST", "FORBIDDEN_REQUEST", "NOT_MODIFIED"}
           \subseteq ErrorCodes \cup {"NOT_MODIFIED"}
    BY DEF ErrorCodes
  <2> QED BY <1>1, <2>1, ReturnPrepared
<1>5. ASSUME f.st \notin {"missing", "directory", "private"}
      PROVE  OK(MapFile(g, f)) /\ OK(MapFile(k, f))
  BY <1>1, <1>2, <1>5, MapFilePrepared
<1>6. OK(do_request(h, f))
  <2> HIDE DEF OK
  <2> QED BY <1>3, <1>4, <1>5, Zenon DEF do_request, k, g
<1> QED BY <1>6

-----------------------------------------------------------------------------
(* The callbacks of the answer.                                            *)

\* What has been written stays at the front of the answer.
Started(a, b) == a # <<>> => b # <<>> /\ Head(b) = Head(a)

LEMMA StartedGrows ==
    ASSUME NEW a \in Seq(Texts), NEW b \in Seq(Texts), NEW fields \in Seq(Texts), Started(a, b)
    PROVE  Started(a, b \o fields)
  BY DEF Started

\* What writing the header fields of an answer leaves alone: all that the body
\* is sent by, a range that lies in the file included.
Writes(h, g) ==
    /\ g \in Server
    /\ g.ret = h.ret /\ g.m_method = h.m_method /\ g.m_stat = h.m_stat
    /\ g.m_file_ptr = h.m_file_ptr /\ g.m_content_length = h.m_content_length
    /\ g.m_read_buffer = h.m_read_buffer /\ Started(h.m_write_buffer, g.m_write_buffer)
    /\ 0 <= h.m_range_start /\ h.m_range_end <= h.m_stat.size =>
          g.m_range_start = h.m_range_start /\ g.m_range_end = h.m_range_end

LEMMA AddTyped ==
    ASSUME NEW h \in Server, NEW fields \in Seq(Texts)
    PROVE  LET g == add_senddata(h, fields) IN
           /\ g \in Server
           /\ g.ret = h.ret /\ g.m_method = h.m_method /\ g.m_stat = h.m_stat
           /\ g.m_file_ptr = h.m_file_ptr /\ g.m_content_length = h.m_content_length
           /\ g.m_range_start = h.m_range_start /\ g.m_range_end = h.m_range_end
           /\ g.m_read_buffer = h.m_read_buffer
           /\ g.m_write_buffer = h.m_write_buffer \o fields
<1>1. h.m_write_buffer \o fields \in Seq(Texts)
  BY DEF Server
<1> QED BY <1>1 DEF add_senddata, Server

LEMMA AddWrites ==
    ASSUME NEW h \in Server, NEW g, Writes(h, g), NEW fields \in Seq(Texts)
    PROVE  Writes(h, add_senddata(g, fields))
<1> DEFINE k == add_senddata(g, fields)
<1>1. g \in Server
  BY DEF Writes
<1>2. /\ k \in Server
      /\ k.ret = g.ret /\ k.m_method = g.m_method /\ k.m_stat = g.m_stat
      /\ k.m_file_ptr = g.m_file_ptr /\ k.m_content_length = g.m_content_length
      /\ k.m_range_start = g.m_range_start /\ k.m_range_end = g.m_range_end
      /\ k.m_read_buffer = g.m_read_buffer /\ k.m_write_buffer = g.m_write_buffer \o fields
  BY <1>1, AddTyped
<1> HIDE DEF k
<1>3. h.m_write_buffer \in Seq(Texts) /\ g.m_write_buffer \in Seq(Texts)
  BY <1>1 DEF Server
<1>4. Started(h.m_write_buffer, g.m_write_buffer \o fields)
  BY <1>3, StartedGrows DEF Writes
<1> QED BY <1>2, <1>4 DEF Writes, k

LEMMA RangeSet ==
    ASSUME NEW g \in Server, NEW m \in Int, NEW n \in Int
    PROVE  LET x == [g EXCEPT !.m_range_start = m, !.m_range_end = n] IN
           /\ x \in Server
           /\ x.ret = g.ret /\ x.m_method = g.m_method /\ x.m_stat = g.m_stat
           /\ x.m_file_ptr = g.m_file_ptr /\ x.m_content_length = g.m_content_length
           /\ x.m_read_buffer = g.m_read_buffer /\ x.m_write_buffer = g.m_write_buffer
  BY DEF Server

LEMMA CallbackWrites ==
    ASSUME NEW h \in Server, h.m_stat.size \in Nat, NEW g, Writes(h, g), NEW f
    PROVE  Writes(h, Callback(g, f))
<1> DEFINE k == [g EXCEPT !.m_range_start = 0, !.m_range_end = g.m_stat.size]
<1>1. <<"Last-Modified">> \in Seq(Texts) /\ <<"Accept: bytes">> \in Seq(Texts)
       /\ <<"Accept: none">> \in Seq(Texts)
  BY DEF Texts
<1>2. g \in Server /\ g.m_stat = h.m_stat
  BY DEF Writes
<1>3. ASSUME g.m_range_start < 0 \/ g.m_range_end > g.m_stat.size
      PROVE  Writes(h, k)
  <2>1. h.m_range_start \in Int /\ h.m_range_end \in Int
    BY DEF Server
  <2>2. ~(0 <= h.m_range_start /\ h.m_range_end <= h.m_stat.size)
    BY <1>2, <1>3, <2>1 DEF Writes
  <2>3. /\ k \in Server
        /\ k.ret = g.ret /\ k.m_method = g.m_method /\ k.m_stat = g.m_stat
        /\ k.m_file_ptr = g.m_file_ptr /\ k.m_content_length = g.m_content_length
        /\ k.m_read_buffer = g.m_read_buffer /\ k.m_write_buffer = g.m_write_buffer
    <3>1. 0 \in Int
      OBVIOUS
    <3>2. h.m_stat.size \in Int
      OBVIOUS
    <3>3. g.m_stat.size \in Int
      BY <1>2, <3>2, Zenon
    <3> QED BY <1>2, <3>1, <3>3, RangeSet, Zenon
  <2> HIDE DEF k
  <2> QED BY <2>2, <2>3 DEF Writes
<1>4. Writes(h, add_senddata(g, <<"Last-Modified">>))
       /\ Writes(h, add_senddata(g, <<"Accept: bytes">>))
  BY <1>1, AddWrites
<1>5. ASSUME g.m_range_start < 0 \/ g.m_range_end > g.m_stat.size
      PROVE  Writes(h, add_senddata(k, <<"Accept: none">>))
  <2> HIDE DEF k
  <2> QED BY <1>1, <1>3, <1>5, AddWrites
<1> QED
  BY <1>4, <1>5, Zenon DEF Callback

\* The function by which FoldLeft is defined, on the callbacks of h.
IsRun(h, g) ==
    g = [s \in SUBSET DOMAIN h.m_header_func_vec |->
            IF s = {} THEN h
            ELSE Callback(g[s \ {Max(s)}], h.m_header_func_vec[Max(s)])]

LEMMA CallbacksRun ==
    ASSUME NEW h
    PROVE  Callbacks(h) = (CHOOSE g : IsRun(h, g))[DOMAIN h.m_header_func_vec]
  BY DEF Callbacks, FoldLeft, MapThenFoldSet, IsRun

LEMMA NatMax ==
    ASSUME NEW n \in Nat, NEW s \in SUBSET (1..n), s # {}
    PROVE  Max(s) \in s /\ \A k \in s : k <= Max(s)
<1> DEFINE X == {n - k : k \in s}
<1>1. X \in SUBSET Nat /\ X # {}
  <2>1. \A k \in s : k \in Int /\ n - k \in Nat
    OBVIOUS
  <2> QED BY <2>1
<1>2. PICK m \in X : \A k \in X : m <= k
  <2> HIDE DEF X
  <2> QED BY <1>1, NatMin
<1>3. PICK x \in s : m = n - x
  OBVIOUS
<1>4. \A k \in s : x >= k
  <2> SUFFICES ASSUME NEW k \in s PROVE x >= k
    OBVIOUS
  <2>1. n - k \in X
    OBVIOUS
  <2>2. n - x <= n - k
    BY <1>2, <1>3, <2>1
  <2>3. x \in Int /\ k \in Int
    OBVIOUS
  <2> QED BY <2>2, <2>3
<1>5. Max(s) \in s /\ \A k \in s : Max(s) >= k
  BY <1>3, <1>4, Zenon DEF Max
<1> QED BY <1>5

\* The same for the first n callbacks.
RunTo(h, n, g) ==
    g = [s \in SUBSET (1..n) |->
            IF s = {} THEN h
            ELSE Callback(g[s \ {Max(s)}], h.m_header_func_vec[Max(s)])]

LEMMA RunExtended ==
    ASSUME NEW h, NEW n \in Nat, NEW g, RunTo(h, n, g)
    PROVE  \E k : RunTo(h, n + 1, k)
<1> DEFINE v == h.m_header_func_vec
           k == [s \in SUBSET (1..(n + 1)) |->
                   IF s = {} THEN h
                   ELSE IF n + 1 \in s THEN Callback(g[s \ {n + 1}], v[n + 1])
                   ELSE g[s]]
<1>1. \A s \in SUBSET (1..n) :
          g[s] = IF s = {} THEN h ELSE Callback(g[s \ {Max(s)}], v[Max(s)])
  BY Zenon DEF RunTo
<1>2. ASSUME NEW s \in SUBSET (1..(n + 1)), n + 1 \notin s
      PROVE  s \in SUBSET (1..n)
  BY <1>2
<1>3. ASSUME NEW s \in SUBSET (1..n)
      PROVE  k[s] = g[s]
  <2>1. s \in SUBSET (1..(n + 1)) /\ n + 1 \notin s
    OBVIOUS
  <2>2. k[s] = IF s = {} THEN h ELSE g[s]
    BY <2>1, Zenon
  <2> QED BY <1>1, <2>2, Zenon
<1>4. ASSUME NEW s \in SUBSET (1..(n + 1)), s # {}
      PROVE  k[s] = Callback(k[s \ {Max(s)}], v[Max(s)])
  <2>1. n + 1 \in Nat
    OBVIOUS
  <2>2. Max(s) \in s /\ \A j \in s : j <= Max(s)
    BY <1>4, <2>1, NatMax, Zenon
  <2>3. CASE n + 1 \in s
    <3>1. Max(s) = n + 1
      <4>0. Max(s) \in 1..(n + 1)
        BY <2>2, Zenon
      <4>1. Max(s) \in Int /\ Max(s) <= n + 1
        BY <4>0
      <4>2. n + 1 <= Max(s)
        BY <2>2, <2>3, Zenon
      <4> QED BY <4>1, <4>2
    <3>2. s \ {n + 1} \in SUBSET (1..n)
      OBVIOUS
    <3>3. k[s] = Callback(g[s \ {n + 1}], v[n + 1])
      BY <1>4, <2>3, Zenon
    <3>4. k[s \ {n + 1}] = g[s \ {n + 1}]
      <4> HIDE DEF k
      <4> QED BY <1>3, <3>2
    <3> HIDE DEF k
    <3> QED BY <3>1, <3>3, <3>4
  <2>4. CASE n + 1 \notin s
    <3>1. s \in SUBSET (1..n) /\ s \ {Max(s)} \in SUBSET (1..n)
      BY <1>2, <2>4
    <3> HIDE DEF k
    <3>2. k[s] = g[s] /\ k[s \ {Max(s)}] = g[s \ {Max(s)}]
      BY <1>3, <3>1
    <3>3. g[s] = Callback(g[s \ {Max(s)}], v[Max(s)])
      BY <1>1, <1>4, <3>1, Zenon
    <3> QED BY <3>2, <3>3
  <2> QED BY <2>3, <2>4
<1>5. \A s \in SUBSET (1..(n + 1)) :
          k[s] = IF s = {} THEN h ELSE Callback(k[s \ {Max(s)}], v[Max(s)])
  <2>1. {} \in SUBSET (1..(n + 1))
    OBVIOUS
  <2>2. k[{}] = h
    BY <2>1, Zenon
  <2> HIDE DEF k
  <2> QED BY <1>4, <2>2, Zenon
<1>6. k = [s \in SUBSET (1..(n + 1)) |-> k[s]]
  OBVIOUS
<1>7. RunTo(h, n + 1, k)
  <2> HIDE DEF k
  <2> QED BY <1>5, <1>6, Zenon DEF RunTo
<1> QED BY <1>7

LEMMA RunExists ==
    ASSUME NEW h \in Server
    PROVE  \E g : IsRun(h, g)
<1> DEFINE X == {n \in Nat : ~ \E g : RunTo(h, n, g)}
<1>1. 0 \notin X
  <2> DEFINE g == [s \in SUBSET (1..0) |-> h]
  <2>1. \A s \in SUBSET (1..0) : s = {}
    OBVIOUS
  <2>2. RunTo(h, 0, g)
    BY <2>1, Zenon DEF RunTo
  <2> QED BY <2>2
<1>2. X = {}
  <2> SUFFICES ASSUME X # {} PROVE FALSE
    OBVIOUS
  <2>1. PICK m \in X : \A k \in X : m <= k
    <3>1. X \in SUBSET Nat
      OBVIOUS
    <3> HIDE DEF X
    <3> QED BY <3>1, NatMin
  <2>2. m \in Nat /\ m # 0
    BY <1>1
  <2>3. m - 1 \in Nat /\ m - 1 \notin X /\ (m - 1) + 1 = m
    <3> HIDE DEF X
    <3> QED BY <2>1, <2>2
  <2>4. PICK g : RunTo(h, m - 1, g)
    BY <2>3
  <2>5. \E k : RunTo(h, m, k)
    BY <2>3, <2>4, RunExtended
  <2> QED BY <2>5
<1>3. DOMAIN h.m_header_func_vec = 1..Len(h.m_header_func_vec)
       /\ Len(h.m_header_func_vec) \in Nat
  BY DEF Server
<1>4. PICK g : RunTo(h, Len(h.m_header_func_vec), g)
  BY <1>2, <1>3
<1>5. IsRun(h, g)
  BY <1>3, <1>4, Zenon DEF RunTo, IsRun
<1> QED BY <1>5

\* So the callbacks change nothing that the body is sent by.
LEMMA CallbacksWrite ==
    ASSUME NEW h0 \in Server, NEW h \in Server, Writes(h0, h), h0.m_stat.size \in Nat
    PROVE  Writes(h0, Callbacks(h))
<1> DEFINE v == h.m_header_func_vec
           g == CHOOSE k : IsRun(h, k)
           X == {n \in 0..Len(v) : \E s \in SUBSET (1..n) : ~Writes(h0, g[s])}
<1>1. DOMAIN v = 1..Len(v) /\ Len(v) \in Nat
  BY DEF Server
<1>2. IsRun(h, g)
  BY RunExists
<1>3. \A s \in SUBSET (1..Len(v)) :
          g[s] = IF s = {} THEN h ELSE Callback(g[s \ {Max(s)}], v[Max(s)])
  <2> HIDE DEF g
  <2> QED BY <1>1, <1>2, Zenon DEF IsRun
<1> HIDE DEF g
<1>4. X = {}
  <2> SUFFICES ASSUME X # {} PROVE FALSE
    OBVIOUS
  <2>1. PICK m \in X : \A k \in X : m <= k
    <3>1. X \in SUBSET Nat
      BY <1>1
    <3> HIDE DEF X
    <3> QED BY <3>1, NatMin
  <2>2. PICK s \in SUBSET (1..m) : ~Writes(h0, g[s])
    OBVIOUS
  <2>3. m \in Nat /\ m <= Len(v) /\ s \in SUBSET (1..Len(v))
    BY <1>1
  <2>4. s # {}
    BY <1>3, <2>2, <2>3, Zenon
  <2>5. Max(s) \in s /\ \A k \in s : k <= Max(s)
    BY <2>3, <2>4, NatMax
  <2>6. Max(s) \in 1..m
    BY <2>5
  <2>7. s \ {Max(s)} \in SUBSET (1..(Max(s) - 1))
    <3> SUFFICES ASSUME NEW k \in s, k # Max(s) PROVE k \in 1..(Max(s) - 1)
      OBVIOUS
    <3>1. k <= Max(s) /\ k \in 1..m
      BY <2>5
    <3> QED BY <2>6, <3>1
  <2>8. Max(s) - 1 \notin X /\ Max(s) - 1 \in 0..Len(v)
    <3> HIDE DEF X
    <3> QED BY <1>1, <2>1, <2>3, <2>6
  <2>9. Writes(h0, g[s \ {Max(s)}])
    BY <2>7, <2>8
  <2>10. Writes(h0, g[s])
    <3>1. g[s] = Callback(g[s \ {Max(s)}], v[Max(s)])
      BY <1>3, <2>3, <2>4, Zenon
    <3> QED BY <2>9, <3>1, CallbackWrites
  <2> QED BY <2>2, <2>10
<1>5. Writes(h0, g[1..Len(v)])
  BY <1>1, <1>4
<1>6. Callbacks(h) = g[1..Len(v)]
  BY <1>1, CallbacksRun DEF g
<1> QED BY <1>5, <1>6

-----------------------------------------------------------------------------
(* process_write.                                                          *)

LEMMA SendTextTyped ==
    ASSUME NEW h \in Server
    PROVE  LET g == SendText(h) IN
           /\ g \in Server /\ g.m_iov_count = 2 /\ g.ret = h.ret /\ g.m_method = h.m_method
           /\ g.m_read_buffer = h.m_read_buffer /\ g.m_write_buffer = h.m_write_buffer
<1>1. Len(h.m_write_buffer) \in Int /\ h.m_iov \in Iov
  BY DEF Server
<1>2. [h.m_iov EXCEPT !.head = Len(h.m_write_buffer)] \in Iov
  BY <1>1 DEF Iov
<1>3. ASSUME NEW iov \in Iov, NEW n \in Nat
      PROVE  LET g == [h EXCEPT !.m_iov = iov, !.m_iov_count = n] IN
             /\ g \in Server /\ g.m_iov_count = n /\ g.ret = h.ret /\ g.m_method = h.m_method
             /\ g.m_read_buffer = h.m_read_buffer /\ g.m_write_buffer = h.m_write_buffer
  BY DEF Server
<1>4. SendText(h) = [h EXCEPT !.m_iov = [h.m_iov EXCEPT !.head = Len(h.m_write_buffer)],
                              !.m_iov_count = 2]
  BY DEF SendText, Server, Iov
<1> DEFINE k == [h EXCEPT !.m_iov = [h.m_iov EXCEPT !.head = Len(h.m_write_buffer)],
                          !.m_iov_count = 2]
<1>5. /\ k \in Server /\ k.m_iov_count = 2 /\ k.ret = h.ret /\ k.m_method = h.m_method
      /\ k.m_read_buffer = h.m_read_buffer /\ k.m_write_buffer = h.m_write_buffer
  <2>1. 2 \in Nat
    OBVIOUS
  <2> QED BY <1>2, <1>3, <2>1, Zenon
<1> HIDE DEF k
<1> QED BY <1>4, <1>5 DEF k

LEMMA SendFileTyped ==
    ASSUME NEW h \in Server, NEW off \in Int, NEW len \in Int, requests \in Int
    PROVE  LET g == SendFile(h, off, len) IN
           /\ g \in Server /\ g.m_iov_count = 3 /\ g.ret = h.ret /\ g.m_method = h.m_method
           /\ g.m_content_length = h.m_content_length /\ g.m_stat = h.m_stat
           /\ g.m_read_buffer = h.m_read_buffer /\ g.m_write_buffer = h.m_write_buffer
           /\ g.m_iov = [head |-> Len(h.m_write_buffer), off |-> off, len |-> len,
                         of |-> requests]
<1>1. Len(h.m_write_buffer) \in Int
  BY DEF Server
<1>2. [head |-> Len(h.m_write_buffer), off |-> off, len |-> len, of |-> requests] \in Iov
  BY <1>1 DEF Iov
<1>3. ASSUME NEW iov \in Iov, NEW n \in Nat
      PROVE  LET g == [h EXCEPT !.m_iov = iov, !.m_iov_count = n] IN
             /\ g \in Server /\ g.m_iov_count = n /\ g.ret = h.ret /\ g.m_method = h.m_method
             /\ g.m_content_length = h.m_content_length /\ g.m_stat = h.m_stat
             /\ g.m_read_buffer = h.m_read_buffer /\ g.m_write_buffer = h.m_write_buffer
             /\ g.m_iov = iov
  BY DEF Server
<1>4. 3 \in Nat
  OBVIOUS
<1> QED BY <1>2, <1>3, <1>4, Zenon DEF SendFile

LEMMA TextsTyped ==
    /\ \A code \in Answers : <<Status(code)>> \in Seq(Texts)
    /\ <<"Date", "Connect-Length">> \in Seq(Texts)
    /\ <<"Connect-Length", "blank">> \in Seq(Texts)
    /\ <<"blank">> \in Seq(Texts) /\ <<"text">> \in Seq(Texts)
    /\ <<"Set-Cookie">> \in Seq(Texts)
    /\ <<"200", "Date", "Allow", "blank">> \in Seq(Texts)
    /\ <<"200", "Date", "Allow", "Content-Length", "Last-Modified", "Server", "Accept",
         "blank">> \in Seq(Texts)
<1>1. \A code \in Answers : <<Status(code)>> \in Seq(Texts)
  <2>1. ASSUME NEW code \in Answers PROVE Status(code) \in Texts
    BY DEF Answers, ErrorCodes, Status, Texts
  <2> HIDE DEF Texts
  <2> QED BY <2>1
<1>2. /\ <<"Date", "Connect-Length">> \in Seq(Texts)
      /\ <<"Connect-Length", "blank">> \in Seq(Texts)
      /\ <<"blank">> \in Seq(Texts) /\ <<"text">> \in Seq(Texts)
      /\ <<"Set-Cookie">> \in Seq(Texts)
  BY DEF Texts
<1>3. <<"200", "Date", "Allow", "blank">> \in Seq(Texts)
  BY DEF Texts
<1>4. <<"200", "Date", "Allow", "Content-Length", "Last-Modified", "Server", "Accept",
        "blank">> \in Seq(Texts)
  <2>1. ASSUME NEW a \in Texts, NEW b \in Texts, NEW c \in Texts, NEW d \in Texts,
               NEW e \in Texts, NEW f \in Texts, NEW g \in Texts, NEW h \in Texts
        PROVE  <<a, b, c, d, e, f, g, h>> \in Seq(Texts)
    OBVIOUS
  <2>2. {"200", "Date", "Allow", "Content-Length", "Last-Modified", "Server", "Accept",
         "blank"} \subseteq Texts
    BY DEF Texts
  <2> QED BY <2>1, <2>2, Zenon
<1> QED BY <1>1, <1>2, <1>3, <1>4

LEMMA WritesItself == ASSUME NEW h \in Server PROVE Writes(h, h)
  BY DEF Writes, Started

\* What GET_func makes of an answer that do_request has prepared: the file is
\* described as it is announced, and lies in what is mapped.
LEMMA GetSends ==
    ASSUME NEW h \in Server, Prepared(h), h.ret \in Answers, h.m_method = "GET",
           requests \in Int
    PROVE  LET r == GET_func(h) IN
           /\ r \in Server /\ r.ret = h.ret /\ r.m_method = h.m_method
           /\ r.m_read_buffer = h.m_read_buffer
           /\ h.m_write_buffer = <<>> => Head(r.m_write_buffer) = Status(r.ret)
           /\ r.ret \notin {"FILE_REQUEST", "PARTIAL_CONTENT"} => r.m_iov_count = 2
           /\ r.ret \in {"FILE_REQUEST", "PARTIAL_CONTENT"} =>
                 /\ r.m_iov_count = 3 /\ r.m_iov.of = requests
                 /\ r.m_iov.head = Len(r.m_write_buffer)
                 /\ r.m_iov.len = r.m_content_length
                 /\ r.m_iov.off >= 0
                 /\ r.m_iov.off + r.m_iov.len <= r.m_stat.size + 1
<1> DEFINE g == add_senddata(h, <<Status(h.ret)>>)
           d == add_senddata(g, <<"Date", "Connect-Length">>)
           c == IF h.ret = "FILE_REQUEST" /\ ~h.m_cookie_value THEN add_cookie(d) ELSE d
           w == add_senddata(Callbacks(c), <<"blank">>)
           t == add_content(add_headers(g))
           Begins(r) == /\ r.ret = h.ret /\ r.m_method = h.m_method
                        /\ r.m_read_buffer = h.m_read_buffer
                        /\ h.m_write_buffer = <<>> => Head(r.m_write_buffer) = Status(h.ret)
<1>1. /\ g \in Server /\ Begins(g) /\ Writes(g, g) /\ g.m_stat = h.m_stat
      /\ h.m_write_buffer = <<>> => g.m_write_buffer # <<>>
      /\ g.m_content_length = h.m_content_length
      /\ g.m_range_start = h.m_range_start /\ g.m_range_end = h.m_range_end
  <2>1. /\ g \in Server
        /\ g.ret = h.ret /\ g.m_method = h.m_method /\ g.m_stat = h.m_stat
        /\ g.m_content_length = h.m_content_length
        /\ g.m_range_start = h.m_range_start /\ g.m_range_end = h.m_range_end
        /\ g.m_read_buffer = h.m_read_buffer
        /\ g.m_write_buffer = h.m_write_buffer \o <<Status(h.ret)>>
    BY AddTyped, TextsTyped
  <2> HIDE DEF g
  <2>2. ASSUME NEW x PROVE <<>> \o <<x>> # <<>> /\ Head(<<>> \o <<x>>) = x
    OBVIOUS
  <2>3. h.m_write_buffer = <<>> =>
            g.m_write_buffer # <<>> /\ Head(g.m_write_buffer) = Status(h.ret)
    BY <2>1, <2>2, Zenon
  <2>4. Writes(g, g)
    BY <2>1, WritesItself
  <2> QED BY <2>1, <2>3, <2>4
<1> HIDE DEF g
<1>2. ASSUME NEW r, Writes(g, r)
      PROVE  r \in Server /\ Begins(r) /\ r.m_stat = h.m_stat
             /\ r.m_content_length = h.m_content_length
  BY <1>1, <1>2 DEF Writes, Started
<1> HIDE DEF Begins
<1>3. Writes(g, t)
  <2>1. Writes(g, add_headers(g))
    BY <1>1, AddWrites, TextsTyped DEF add_headers
  <2> QED BY <1>1, <2>1, AddWrites, TextsTyped DEF add_content
<1>4. Writes(g, c)
  <2>1. Writes(g, d)
    BY <1>1, AddWrites, TextsTyped
  <2> HIDE DEF d
  <2>2. Writes(g, add_cookie(d))
    BY <1>1, <2>1, AddWrites, TextsTyped DEF add_cookie
  <2> QED BY <2>1, <2>2
<1>5. ASSUME NEW k, Writes(g, k), GET_func(h) = SendText(k),
             h.ret \notin {"FILE_REQUEST", "PARTIAL_CONTENT"}
      PROVE  LET r == GET_func(h) IN r \in Server /\ Begins(r) /\ r.m_iov_count = 2
  <2>1. k \in Server /\ Begins(k)
    BY <1>2, <1>5
  <2>2. LET r == SendText(k) IN
        /\ r \in Server /\ r.m_iov_count = 2 /\ r.ret = k.ret /\ r.m_method = k.m_method
        /\ r.m_read_buffer = k.m_read_buffer /\ r.m_write_buffer = k.m_write_buffer
    BY <2>1, SendTextTyped
  <2> QED BY <1>5, <2>1, <2>2 DEF Begins
<1> DEFINE q == GET_func(h)
<1>9. ASSUME Begins(q)
      PROVE  /\ q.ret = h.ret /\ q.m_method = h.m_method
             /\ q.m_read_buffer = h.m_read_buffer
             /\ h.m_write_buffer = <<>> => Head(q.m_write_buffer) = Status(q.ret)
  <2> HIDE DEF q
  <2>1. q.ret = h.ret
    BY <1>9 DEF Begins
  <2>2. q.m_method = h.m_method /\ q.m_read_buffer = h.m_read_buffer
    BY <1>9 DEF Begins
  <2>3. h.m_write_buffer = <<>> => Head(q.m_write_buffer) = Status(h.ret)
    BY <1>9, Zenon DEF Begins
  <2> QED BY <2>1, <2>2, <2>3, Zenon
<1>6. CASE h.ret \in ErrorCodes
  <2>1. GET_func(h) = SendText(t)
    BY <1>6, Zenon DEF GET_func, g
  <2>2. h.ret \notin {"FILE_REQUEST", "PARTIAL_CONTENT"}
    BY <1>6, CodesOfAnswers
  <2> HIDE DEF t
  <2>3. q \in Server /\ Begins(q) /\ q.m_iov_count = 2
    BY <1>3, <1>5, <2>1, <2>2, Zenon
  <2> HIDE DEF q
  <2> QED BY <1>9, <2>2, <2>3, Zenon DEF q
<1>7. CASE h.ret = "NOT_MODIFIED"
  <2>1. h.ret \notin ErrorCodes
    BY <1>7 DEF ErrorCodes
  <2>2. GET_func(h) = SendText(g)
    BY <1>7, <2>1, Zenon DEF GET_func, g
  <2>3. h.ret \notin {"FILE_REQUEST", "PARTIAL_CONTENT"}
    BY <1>7
  <2>4. q \in Server /\ Begins(q) /\ q.m_iov_count = 2
    BY <1>1, <1>5, <2>2, <2>3, Zenon
  <2> HIDE DEF q
  <2> QED BY <1>9, <2>3, <2>4, Zenon DEF q
<1>8. CASE h.ret \in {"FILE_REQUEST", "PARTIAL_CONTENT"}
  <2>0. h.ret \notin ErrorCodes \cup {"NOT_MODIFIED"}
    BY <1>8, CodesOfAnswers
  <2>1. h.m_stat.size \in Nat
    BY <1>8 DEF Prepared
  <2>2. Writes(g, w)
    <3> HIDE DEF c
    <3>1. c \in Server
      BY <1>4 DEF Writes
    <3>2. Writes(g, Callbacks(c))
      BY <1>1, <1>4, <2>1, <3>1, CallbacksWrite
    <3> QED BY <1>1, <3>2, AddWrites, TextsTyped
  <2> DEFINE off == IF h.ret = "FILE_REQUEST" THEN 0 ELSE w.m_range_start
             len == IF h.ret = "FILE_REQUEST" THEN w.m_content_length
                    ELSE w.m_range_end - w.m_range_start + 1
             r == SendFile(w, off, len)
  <2>3. GET_func(h) = r
    <3>1. CASE h.ret = "FILE_REQUEST"
      <4>1. GET_func(h) = SendFile(w, 0, w.m_content_length)
        BY <2>0, <3>1, Zenon DEF GET_func, g
      <4> HIDE DEF w
      <4> QED BY <3>1, <4>1
    <3>2. CASE h.ret # "FILE_REQUEST"
      <4>1. GET_func(h) = SendFile(w, w.m_range_start, w.m_range_end - w.m_range_start + 1)
        BY <2>0, <3>2, Zenon DEF GET_func, g
      <4> HIDE DEF w
      <4> QED BY <3>2, <4>1
    <3> QED BY <3>1, <3>2
  <2> HIDE DEF w
  <2>4. /\ w \in Server /\ Begins(w) /\ w.m_stat = h.m_stat
        /\ w.m_content_length = h.m_content_length
    BY <1>2, <2>2
  <2>5. w.m_content_length \in Int /\ w.m_range_start \in Int /\ w.m_range_end \in Int
    BY <2>4 DEF Server
  <2>6. off \in Int /\ len \in Int
    BY <2>5
  <2>7. len = w.m_content_length /\ off >= 0 /\ off + len <= h.m_stat.size + 1
    <3>1. CASE h.ret = "FILE_REQUEST"
      <4>1. h.m_content_length = h.m_stat.size
        BY <1>8, <3>1 DEF Prepared
      <4> QED BY <2>1, <2>4, <3>1, <4>1
    <3>2. CASE h.ret = "PARTIAL_CONTENT"
      <4>1. /\ 0 <= h.m_range_start /\ h.m_range_end <= h.m_stat.size
            /\ h.m_content_length = h.m_range_end - h.m_range_start + 1
        BY <1>8, <3>2 DEF Prepared
      <4>2. w.m_range_start = h.m_range_start /\ w.m_range_end = h.m_range_end
        BY <1>1, <2>2, <4>1 DEF Writes
      <4>3. off = w.m_range_start /\ len = w.m_range_end - w.m_range_start + 1
        BY <3>2
      <4> HIDE DEF off, len
      <4> QED BY <2>1, <2>4, <2>5, <4>1, <4>2, <4>3
    <3> QED BY <1>8, <3>1, <3>2
  <2> HIDE DEF off, len
  <2>8. /\ r \in Server /\ r.m_iov_count = 3 /\ r.ret = w.ret /\ r.m_method = w.m_method
        /\ r.m_content_length = w.m_content_length /\ r.m_stat = w.m_stat
        /\ r.m_read_buffer = w.m_read_buffer /\ r.m_write_buffer = w.m_write_buffer
        /\ r.m_iov = [head |-> Len(w.m_write_buffer), off |-> off, len |-> len,
                      of |-> requests]
    BY <2>4, <2>6, SendFileTyped
  <2> HIDE DEF r
  <2>9. r.m_iov.head = Len(r.m_write_buffer) /\ r.m_iov.off = off /\ r.m_iov.len = len
        /\ r.m_iov.of = requests
    BY <2>8
  <2>10. /\ r.m_iov.len = r.m_content_length /\ r.m_iov.off >= 0
         /\ r.m_iov.off + r.m_iov.len <= r.m_stat.size + 1
    BY <2>4, <2>7, <2>8, <2>9
  <2>11. Begins(r)
    BY <2>4, <2>8 DEF Begins
  <2> HIDE DEF q
  <2>12. q = r
    BY <2>3 DEF q
  <2>13. /\ q \in Server /\ q.ret = h.ret /\ q.m_method = h.m_method
         /\ q.m_read_buffer = h.m_read_buffer
         /\ h.m_write_buffer = <<>> => Head(q.m_write_buffer) = Status(q.ret)
    BY <1>9, <2>8, <2>11, <2>12, Zenon
  <2> QED BY <1>8, <2>8, <2>9, <2>10, <2>12, <2>13, Zenon DEF q
<1> QED
  BY <1>6, <1>7, <1>8 DEF Answers

LEMMA WriteTyped ==
    ASSUME NEW h \in Server, Prepared(h), h.ret \in Answers, requests \in Int
    PROVE  process_write(h) \in Server /\ process_write(h).m_method = h.m_method
<1>1. h.m_method \in Methods
  BY DEF Server
<1>2. ASSUME NEW fields \in Seq(Texts)
      PROVE  LET g == SendText(add_senddata(h, fields)) IN
             g \in Server /\ g.m_method = h.m_method
  <2> DEFINE k == add_senddata(h, fields)
  <2>1. k \in Server /\ k.m_method = h.m_method
    BY AddTyped
  <2> HIDE DEF k
  <2>2. SendText(k) \in Server /\ SendText(k).m_method = k.m_method
    BY <2>1, SendTextTyped
  <2> QED BY <2>1, <2>2 DEF k
<1>3. CASE h.m_method = "GET"
  <2>1. process_write(h) = GET_func(h)
    BY <1>3 DEF process_write
  <2> QED BY <1>3, <2>1, GetSends
<1>4. CASE h.m_method = "POST"
  BY <1>4 DEF process_write, POST_func
<1>5. CASE h.m_method = "HEAD"
  <2>1. process_write(h) = HEAD_func(h)
    BY <1>5 DEF process_write
  <2>2. HEAD_func(h) \in Server /\ HEAD_func(h).m_method = h.m_method
    BY <1>2, TextsTyped, Zenon DEF HEAD_func
  <2> QED BY <2>1, <2>2
<1>6. CASE h.m_method = "OPTIONS"
  <2>1. process_write(h) = OPTIONS_func(h)
    BY <1>6 DEF process_write
  <2>2. OPTIONS_func(h) \in Server /\ OPTIONS_func(h).m_method = h.m_method
    BY <1>2, TextsTyped, Zenon DEF OPTIONS_func
  <2> QED BY <2>1, <2>2
<1> QED BY <1>1, <1>3, <1>4, <1>5, <1>6 DEF Methods

-----------------------------------------------------------------------------
(* The invariant.                                                          *)

HttpInv == http \in Server /\ requests \in Nat /\ LengthAgrees /\ MappedWhenSent

LEMMA InitHttpInv == Init => HttpInv
<1> SUFFICES ASSUME Init PROVE HttpInv
  OBVIOUS
<1>1. http \in Server
  BY InitTyped DEF Init
<1> QED BY <1>1 DEF Init, HttpInv, LengthAgrees, MappedWhenSent

LEMMA AnswerInv ==
    ASSUME requests \in Nat, NEW h \in Server, Prepared(h), h.ret \in Answers, Answer(h)
    PROVE  HttpInv'
<1> DEFINE w == process_write(h)
<1>1. w \in Server /\ w.m_method = h.m_method
  BY WriteTyped
<1>2. http' = w /\ requests' = requests
  BY DEF Answer
<1>3. ASSUME h.m_method = "GET"
      PROVE  /\ w.ret = h.ret
             /\ w.ret \notin {"FILE_REQUEST", "PARTIAL_CONTENT"} => w.m_iov_count = 2
             /\ w.ret \in {"FILE_REQUEST", "PARTIAL_CONTENT"} =>
                   /\ w.m_iov_count = 3 /\ w.m_iov.of = requests
                   /\ w.m_iov.head = Len(w.m_write_buffer)
                   /\ w.m_iov.len = w.m_content_length
                   /\ w.m_iov.off >= 0
                   /\ w.m_iov.off + w.m_iov.len <= w.m_stat.size + 1
  <2>1. w = GET_func(h)
    BY <1>3 DEF process_write
  <2> HIDE DEF w
  <2> QED BY <1>3, <2>1, GetSends
<1>4. isendlen' = (Len(w.m_write_buffer) + w.m_content_length + PKGHEADERLEN) % UShort
  BY DEF Answer
<1> HIDE DEF w
<1>5. LengthAgrees'
  <2> SUFFICES ASSUME h.m_method = "GET", w.ret \in {"FILE_REQUEST", "PARTIAL_CONTENT"}
               PROVE  isendlen' = Bytes' % UShort
    BY <1>1, <1>2 DEF LengthAgrees
  <2>1. w.m_iov_count = 3 /\ w.m_iov.head = Len(w.m_write_buffer)
        /\ w.m_iov.len = w.m_content_length
    BY <1>3
  <2>2. Len(w.m_write_buffer) \in Int /\ w.m_content_length \in Int
    BY <1>1 DEF Server
  <2>3. Bytes' = PKGHEADERLEN + w.m_iov.head + w.m_iov.len
    BY <1>2, <2>1 DEF Bytes
  <2>4. Bytes' = Len(w.m_write_buffer) + w.m_content_length + PKGHEADERLEN
    BY <2>1, <2>2, <2>3 DEF PKGHEADERLEN
  <2> QED BY <1>4, <2>4
<1>6. MappedWhenSent'
  <2> SUFFICES ASSUME h.m_method = "GET", w.m_iov_count = 3
               PROVE  /\ w.m_iov.of = mapped'
                      /\ w.m_iov.off >= 0
                      /\ w.m_iov.off + w.m_iov.len <= w.m_stat.size + 1
    BY <1>1, <1>2 DEF MappedWhenSent
  <2>1. w.ret \in {"FILE_REQUEST", "PARTIAL_CONTENT"} /\ w.ret = h.ret
    BY <1>3
  <2>2. h.m_file_ptr = "file"
    BY <2>1 DEF Prepared
  <2>3. mapped' = requests
    BY <2>1, <2>2 DEF Answer
  <2> QED BY <1>3, <2>1, <2>3
<1> QED BY <1>1, <1>2, <1>5, <1>6 DEF HttpInv

LEMMA HttpInvStep == HttpInv /\ [Next]_vars => HttpInv'
<1> SUFFICES ASSUME HttpInv, [Next]_vars PROVE HttpInv'
  OBVIOUS
<1>0. http \in Server /\ requests \in Nat
  BY DEF HttpInv
<1>1. ASSUME NEW body \in Bodies, Business(body)
      PROVE  HttpInv'
  <2>1. body \in Seq(Cells)
    BY InputAssumption
  <2>2. http' \in Server
    <3>1. [http EXCEPT !.m_read_buffer = body] \in Server
      BY <1>0, <2>1 DEF Server
    <3> QED BY <1>1, <3>1 DEF Business
  <2>3. requests' \in Nat /\ phase' = "read"
    BY <1>0, <1>1 DEF Business
  <2> QED BY <2>2, <2>3 DEF HttpInv, LengthAgrees, MappedWhenSent
<1>2. CASE process_read
  <2> DEFINE h == NextLine(http)
  <2>1. h \in Server
    BY <1>0, NextLineTyped
  <2> HIDE DEF h
  <2>2. CASE http' = h /\ UNCHANGED <<phase, requests>> /\ phase = "read"
    BY <1>0, <2>1, <2>2 DEF HttpInv, LengthAgrees, MappedWhenSent
  <2>3. CASE h.ret = "BAD_REQUEST" /\ Answer(h)
    <3>1. h.ret \in Answers /\ Prepared(h)
      BY <2>3 DEF Answers, ErrorCodes, Prepared
    <3> QED BY <1>0, <2>1, <2>3, <3>1, AnswerInv
  <2>4. ASSUME NEW f \in Files, Answer(do_request(h, f))
        PROVE  HttpInv'
    <3>1. f \in Stats
      BY InputAssumption
    <3> DEFINE r == do_request(h, f)
    <3>2. r \in Server /\ r.ret \in Answers /\ Prepared(r)
      BY <2>1, <3>1, DoRequestPrepared
    <3> HIDE DEF r
    <3> QED BY <1>0, <2>4, <3>2, AnswerInv DEF r
  <2>5. CASE phase' = "aborted" /\ UNCHANGED <<http, requests>>
    BY <1>0, <2>5 DEF HttpInv, LengthAgrees, MappedWhenSent
  <2> QED
    BY <1>2, <2>2, <2>3, <2>4, <2>5, Zenon DEF process_read, h
<1>3. CASE sendMsg
  <2>1. http' = http /\ requests' = requests
    BY <1>3 DEF sendMsg
  <2>2. phase = "send"
    BY <1>3 DEF sendMsg
  <2>3. phase' = "send" => again' = TRUE /\ isendlen' = isendlen
    BY <1>3 DEF sendMsg, Wrote, Retry
  <2>4. MappedWhenSent'
    BY <2>3 DEF MappedWhenSent
  <2>5. LengthAgrees'
    <3> SUFFICES ASSUME phase' = "send" PROVE LengthAgrees'
      BY DEF LengthAgrees
    <3>1. Bytes' = Bytes
      BY <2>1 DEF Bytes
    <3> QED BY <2>1, <2>2, <2>3, <3>1 DEF HttpInv, LengthAgrees
  <2> QED BY <1>0, <2>1, <2>4, <2>5 DEF HttpInv
<1>4. CASE UNCHANGED vars
  <2>1. Bytes' = Bytes
    BY <1>4 DEF Bytes, vars
  <2> QED
    BY <1>4, <2>1 DEF vars, HttpInv, LengthAgrees, MappedWhenSent
<1> QED
  BY <1>1, <1>2, <1>3, <1>4 DEF Next

LEMMA HttpInvariant == Spec => []HttpInv
  BY InitHttpInv, HttpInvStep, PTL DEF Spec

\* For requests, files and sizes of any kind and number, fields left from
\* earlier requests included: the length in the package header of an answer,
\* by which sendMsg decides whether everything was sent, is what m_iov
\* describes, up to the width of pkgLen.
THEOREM LengthIsRight == Spec => []LengthAgrees
<1>1. HttpInv => LengthAgrees
  BY DEF HttpInv
<1> QED BY <1>1, HttpInvariant, PTL

\* The part of the file that writev is first told to read is mapped for this
\* request, and ends at most one byte past the file, whatever range was asked
\* for by this request or an earlier one.
THEOREM FileIsMapped == Spec => []MappedWhenSent
<1>1. HttpInv => MappedWhenSent
  BY DEF HttpInv
<1> QED BY <1>1, HttpInvariant, PTL

-----------------------------------------------------------------------------
(* The lines of a request.                                                 *)

\* What is assumed of a package: no text is cut into two cells.
Apart(b) ==
    /\ b \in Seq(Cells)
    /\ \A i \in 1..(Len(b) - 1) : b[i] \in {CR, LF} \/ b[i + 1] \in {CR, LF}

LEMMA EndsDiffer == CR # LF
  BY DEF CR, LF

LEMMA LinesKnown ==
    ASSUME NEW b \in Seq(Cells), Lines(b) # 0
    PROVE  /\ Lines(b) \in 1..Len(b) /\ IsBlank(b, Lines(b))
           /\ \A i \in 1..Lines(b) : IsLine(b, i)
<1> DEFINE ns == {n \in 1..Len(b) : IsBlank(b, n) /\ \A i \in 1..n : IsLine(b, i)}
<1>1. Lines(b) = IF ns = {} THEN 0 ELSE CHOOSE n \in ns : TRUE
  BY DEF Lines
<1>2. ns # {}
  <2> HIDE DEF ns
  <2> QED BY <1>1
<1>3. Lines(b) \in ns
  <2> HIDE DEF ns
  <2> QED BY <1>1, <1>2
<1> QED BY <1>3

\* A line is not blank, so the number of lines is unique.
LEMMA LinesUnique ==
    ASSUME NEW b \in Seq(Cells), NEW n \in 1..Len(b), IsBlank(b, n),
           \A i \in 1..n : IsLine(b, i)
    PROVE  Lines(b) = n
<1> DEFINE ns == {m \in 1..Len(b) : IsBlank(b, m) /\ \A i \in 1..m : IsLine(b, i)}
<1>1. n \in ns
  OBVIOUS
<1>2. Lines(b) \in ns
  <2>1. Lines(b) = IF ns = {} THEN 0 ELSE CHOOSE m \in ns : TRUE
    BY DEF Lines
  <2> HIDE DEF ns
  <2> QED BY <1>1, <2>1
<1>3. ASSUME NEW m \in 1..Len(b), NEW k \in 1..Len(b), m < k, IsBlank(b, m),
             \A i \in 1..k : IsLine(b, i)
      PROVE  FALSE
  <2>1. m + 1 \in 1..k
    BY <1>3
  <2>2. IsLine(b, m + 1)
    BY <1>3, <2>1
  <2>3. b[3 * (m + 1) - 2] = CR
    <3>1. 3 * (m + 1) - 2 = 3 * m + 1
      OBVIOUS
    <3> QED BY <1>3, <3>1 DEF IsBlank
  <2> QED BY <2>2, <2>3 DEF IsLine
<1>4. Lines(b) \in 1..Len(b) /\ IsBlank(b, Lines(b)) /\ \A i \in 1..Lines(b) : IsLine(b, i)
  <2> HIDE DEF Lines
  <2> QED BY <1>2
<1>5. ~(Lines(b) < n) /\ ~(n < Lines(b))
  BY <1>3, <1>4
<1> QED BY <1>4, <1>5

\* Where neither a line nor a blank one follows, there is no blank line to
\* come; and where a line follows, the blank line comes after it.
LEMMA LinesEnd ==
    ASSUME NEW b \in Seq(Cells), NEW n \in Nat, \A i \in 1..n : IsLine(b, i)
    PROVE  /\ ~IsLine(b, n + 1) /\ (n = 0 \/ ~IsBlank(b, n)) => Lines(b) = 0
           /\ IsLine(b, n + 1) /\ Lines(b) # 0 => Lines(b) > n
<1> SUFFICES ASSUME Lines(b) # 0
             PROVE  /\ IsLine(b, n + 1) \/ (n # 0 /\ IsBlank(b, n))
                    /\ IsLine(b, n + 1) => Lines(b) > n
  OBVIOUS
<1> DEFINE m == Lines(b)
<1>1. m \in 1..Len(b) /\ IsBlank(b, m) /\ \A i \in 1..m : IsLine(b, i)
  BY LinesKnown
<1> HIDE DEF m
<1>2. CASE m > n
  <2>1. n + 1 \in 1..m
    BY <1>1, <1>2
  <2> QED BY <1>1, <1>2, <2>1 DEF m
<1>3. CASE m = n
  <2>1. m # 0
    BY <1>1
  <2>2. IsLine(b, n + 1) => FALSE
    <3>1. b[3 * n + 1] = CR /\ 3 * (n + 1) - 2 = 3 * n + 1
      BY <1>1, <1>3 DEF IsBlank
    <3> QED BY <3>1 DEF IsLine
  <2> QED BY <1>1, <1>3, <2>1, <2>2
<1>4. CASE m < n
  <2>1. m + 1 \in 1..n
    BY <1>1, <1>4
  <2>2. IsLine(b, m + 1)
    BY <2>1
  <2>3. b[3 * m + 1] = CR /\ 3 * (m + 1) - 2 = 3 * m + 1
    BY <1>1 DEF IsBlank
  <2> QED BY <2>2, <2>3 DEF IsLine
<1> QED BY <1>1, <1>2, <1>3, <1>4

\* What parse_line finds behind n lines: a blank line, a line, or neither.
LEMMA ParsedLine ==
    ASSUME NEW h \in Server, NEW b, b = h.m_read_buffer, Apart(b), NEW n \in Nat,
           h.m_check_idx = 3 * n, n = 0 \/ IsLine(b, n)
    PROVE  \/ /\ IsBlank(b, n) /\ LineEnd(h) = 3 * n
              /\ parse_line(h) = [status |-> "LINE_OK", idx |-> 3 * n + 2]
           \/ /\ IsLine(b, n + 1) /\ LineEnd(h) = 3 * n + 1
              /\ parse_line(h) = [status |-> "LINE_OK", idx |-> 3 * n + 3]
           \/ /\ ~IsBlank(b, n) /\ ~IsLine(b, n + 1)
              /\ parse_line(h).status # "LINE_OK"
<1> DEFINE len == Len(b)
<1>1. len \in Nat
  BY DEF Apart
<1>2. LineEnds(h) = {i \in (3 * n)..(len - 1) : b[i + 1] \in {CR, LF}}
  BY DEF LineEnds, m_read_idx, At
<1>3. ASSUME NEW i \in (3 * n)..(len - 1), b[i + 1] \in {CR, LF},
             \A j \in (3 * n)..(i - 1) : b[j + 1] \notin {CR, LF}
      PROVE  LineEnds(h) # {} /\ LineEnd(h) = i
  <2>1. i \in LineEnds(h) /\ \A j \in LineEnds(h) : j \in Int /\ i <= j
    BY <1>1, <1>2, <1>3
  <2>2. ASSUME NEW k \in LineEnds(h), \A j \in LineEnds(h) : k <= j
        PROVE  k = i
    <3>1. k \in Int /\ i \in Int /\ i <= k /\ k <= i
      BY <1>1, <2>1, <2>2
    <3> QED BY <3>1
  <2> QED BY <2>1, <2>2 DEF LineEnd
<1>4. ASSUME NEW i \in (3 * n)..(len - 1), LineEnds(h) # {}, LineEnd(h) = i,
             b[i + 1] = CR, i + 1 < len, b[i + 2] = LF
      PROVE  parse_line(h) = [status |-> "LINE_OK", idx |-> i + 2]
  <2>1. At(h, i) = CR /\ i + 1 # m_read_idx(h)
    BY <1>1, <1>4 DEF At, m_read_idx
  <2>2. At(h, i + 1) = LF
    <3>1. i + 1 + 1 = i + 2
      BY <1>1
    <3> QED BY <1>4, <3>1 DEF At
  <2> QED BY <1>4, <2>1, <2>2 DEF parse_line
<1>5. CASE IsBlank(b, n)
  <2>1. 3 * n \in (3 * n)..(len - 1) /\ 3 * n + 1 < len
    BY <1>1, <1>5 DEF IsBlank
  <2>2. b[3 * n + 1] = CR /\ b[3 * n + 2] = LF
    BY <1>5 DEF IsBlank
  <2>3. \A j \in (3 * n)..(3 * n - 1) : b[j + 1] \notin {CR, LF}
    OBVIOUS
  <2>4. LineEnds(h) # {} /\ LineEnd(h) = 3 * n
    BY <1>3, <2>1, <2>2, <2>3
  <2> QED BY <1>4, <1>5, <2>1, <2>2, <2>4
<1>6. CASE IsLine(b, n + 1)
  <2>1. /\ 3 * n + 1 \in (3 * n)..(len - 1) /\ 3 * n + 1 + 1 < len
        /\ 3 * (n + 1) - 2 = 3 * n + 1 /\ 3 * (n + 1) - 1 = 3 * n + 1 + 1
        /\ 3 * (n + 1) = 3 * n + 1 + 2 /\ 3 * n + 1 + 2 = 3 * n + 3
    <3>1. 3 * (n + 1) <= len
      BY <1>6 DEF IsLine
    <3> HIDE DEF len
    <3> QED BY <1>1, <3>1
  <2>2. b[3 * n + 1] \notin {CR, LF} /\ b[3 * n + 1 + 1] = CR /\ b[3 * n + 1 + 2] = LF
    BY <1>6, <2>1 DEF IsLine
  <2>3. LineEnds(h) # {} /\ LineEnd(h) = 3 * n + 1
    <3> DEFINE k == 3 * n + 1
    <3>1. b[k + 1] \in {CR, LF} /\ k \in (3 * n)..(len - 1)
      <4>1. b[k + 1] = CR
        BY <2>2
      <4> QED BY <2>1, <4>1, Zenon
    <3>2. \A j \in (3 * n)..(k - 1) : b[j + 1] \notin {CR, LF}
      <4>1. k - 1 = 3 * n /\ 3 * n \in Nat
        OBVIOUS
      <4>2. \A j \in (3 * n)..(3 * n) : j + 1 = k
        OBVIOUS
      <4>3. b[k] \notin {CR, LF}
        BY <2>2
      <4> HIDE DEF k
      <4> QED BY <4>1, <4>2, <4>3
    <3> HIDE DEF k
    <3>3. LineEnds(h) # {} /\ LineEnd(h) = k
      BY <1>3, <3>1, <3>2
    <3> QED BY <3>3 DEF k
  <2>4. parse_line(h) = [status |-> "LINE_OK", idx |-> 3 * n + 1 + 2]
    BY <1>4, <2>1, <2>2, <2>3
  <2> QED BY <1>6, <2>1, <2>3, <2>4
<1>7. ASSUME ~IsBlank(b, n), ~IsLine(b, n + 1)
      PROVE  parse_line(h).status # "LINE_OK"
  <2>1. CASE LineEnds(h) = {}
    BY <2>1 DEF parse_line
  <2>2. CASE LineEnds(h) # {}
    <3> DEFINE i == LineEnd(h)
    <3>1. i \in LineEnds(h) /\ \A j \in LineEnds(h) : i <= j
      <4>1. LineEnds(h) \in SUBSET Nat
        BY <1>1, <1>2
      <4> QED BY <2>2, <4>1, NatMin DEF LineEnd
    <3>2. i \in (3 * n)..(len - 1) /\ b[i + 1] \in {CR, LF}
      BY <1>2, <3>1
    <3> HIDE DEF i
    <3>3. ASSUME NEW j \in (3 * n)..(i - 1) PROVE b[j + 1] \notin {CR, LF}
      <4>1. j \in (3 * n)..(len - 1) /\ ~(i <= j)
        BY <1>1, <3>2
      <4> QED BY <1>2, <3>1, <4>1
    <3>4. i = 3 * n \/ i = 3 * n + 1
      <4> SUFFICES ASSUME i > 3 * n + 1 PROVE FALSE
        BY <1>1, <3>2
      <4>1. 3 * n \in (3 * n)..(i - 1) /\ 3 * n + 1 \in (3 * n)..(i - 1)
             /\ 3 * n + 1 \in 1..(len - 1)
        BY <1>1, <3>2
      <4> QED BY <3>3, <4>1 DEF Apart
    <3>5. CASE b[i + 1] = CR
      <4>1. ASSUME i + 1 < len, b[i + 2] = LF PROVE FALSE
        <5>1. CASE i = 3 * n
          BY <1>1, <1>7, <3>5, <4>1, <5>1 DEF IsBlank
        <5>2. CASE i = 3 * n + 1
          <6>1. b[3 * n + 1] \notin {CR, LF}
            BY <3>3, <5>2
          <6>2. 3 * (n + 1) <= len /\ 3 * (n + 1) - 2 = 3 * n + 1
                 /\ 3 * (n + 1) - 1 = i + 1 /\ 3 * (n + 1) = i + 2
            BY <1>1, <4>1, <5>2
          <6> QED BY <1>7, <3>5, <4>1, <6>1, <6>2 DEF IsLine
        <5> QED BY <3>4, <5>1, <5>2
      <4>2. i + 1 = m_read_idx(h) \/ At(h, i + 1) # LF
        <5>1. i + 1 + 1 = i + 2
          BY <1>1, <3>2
        <5> QED BY <1>1, <3>2, <4>1, <5>1 DEF At, m_read_idx
      <4>3. At(h, i) = CR
        BY <3>5 DEF At
      <4> QED BY <2>2, <4>2, <4>3 DEF parse_line, i
    <3>6. CASE b[i + 1] = LF
      <4>1. ~(i > 1 /\ At(h, i - 1) = CR)
        <5> SUFFICES ASSUME i > 1, b[i - 1 + 1] = CR PROVE FALSE
          BY DEF At
        <5>1. CASE i = 3 * n
          <6>1. IsLine(b, n) /\ 3 * n = i - 1 + 1
            BY <5>1
          <6> QED BY <6>1, EndsDiffer DEF IsLine
        <5>2. CASE i = 3 * n + 1
          <6>1. i - 1 \in (3 * n)..(i - 1)
            BY <1>1, <5>2
          <6> QED BY <3>3, <6>1
        <5> QED BY <3>4, <5>1, <5>2
      <4>2. At(h, i) = LF
        BY <3>6 DEF At
      <4> QED BY <2>2, <4>1, <4>2, EndsDiffer DEF parse_line, i
    <3> QED BY <3>2, <3>5, <3>6
  <2> QED BY <2>1, <2>2
<1> QED BY <1>5, <1>6, <1>7

LEMMA TextOfLine ==
    ASSUME NEW h \in Server, NEW b, b = h.m_read_buffer, NEW n \in Nat,
           h.m_start_idx = 3 * n
    PROVE  /\ Text(h, 3 * n) = <<>>
           /\ IsLine(b, n + 1) => Text(h, 3 * n + 1) = <<Line(b, n + 1)>>
<1>1. b \in Seq(Cells) /\ Len(b) \in Nat
  BY DEF Server
<1>2. Text(h, 3 * n) = <<>>
  BY <1>1 DEF Text
<1>3. ASSUME IsLine(b, n + 1)
      PROVE  Text(h, 3 * n + 1) = <<Line(b, n + 1)>>
  <2>1. 3 * (n + 1) <= Len(b) /\ 3 * (n + 1) - 2 = 3 * n + 1
    BY <1>3 DEF IsLine
  <2>2. Text(h, 3 * n + 1) = SubSeq(b, 3 * n + 1, 3 * n + 1)
    BY DEF Text
  <2>3. 3 * n + 1 \in 1..Len(b)
    BY <1>1, <2>1
  <2>4. ASSUME NEW k \in 1..Len(b) PROVE SubSeq(b, k, k) = <<b[k]>>
    <3> DEFINE s == SubSeq(b, k, k)
    <3>1. s \in Seq(Cells) /\ Len(s) = 1 /\ s[1] = b[k]
      BY <1>1
    <3> HIDE DEF s
    <3>2. s = <<s[1]>>
      BY <3>1
    <3> QED BY <3>1, <3>2 DEF s
  <2>5. Text(h, 3 * n + 1) = <<b[3 * n + 1]>>
    BY <2>2, <2>3, <2>4
  <2> QED BY <2>1, <2>5 DEF Line
<1> QED BY <1>2, <1>3

LEMMA OneWord ==
    ASSUME NEW w, w \notin {CR, LF}
    PROVE  /\ Words(<<w>>) # {} /\ FirstWord(<<w>>) = w /\ Head(<<w>>) = w
           /\ Words(<<>>) = {} /\ <<w>> # <<>>
<1>1. Words(<<w>>) = {1}
  BY DEF Words
<1>2. Min({1}) = 1
  BY DEF Min
<1> QED BY <1>1, <1>2 DEF FirstWord, Words

LEMMA CellForms ==
    ASSUME NEW w \in Cells
    PROVE  /\ w.kind = "request" => w.fault \in {"none", "no url", "rest"}
           /\ w.kind = "header" /\ w.name = "Range" => w.form \in {"bytes", "no dash", "other"}
<1>1. CASE w \in {CR, LF, [kind |-> "data"]}
  <2>1. w.kind \in {"CR", "LF", "data"}
    BY <1>1 DEF CR, LF
  <2> QED BY <2>1
<1>2. CASE w \in [kind : {"request"}, method : STRING, fault : {"none", "no url", "rest"}]
  BY <1>2
<1>3. CASE w \in [kind : {"header"}, name : STRING \ {"Range"}, value : Int]
  BY <1>3
<1>4. CASE w \in [kind : {"header"}, name : {"Range"}, form : {"bytes", "no dash", "other"},
                 from : Int, to : Int]
  BY <1>4
<1> QED
  BY <1>1, <1>2, <1>3, <1>4 DEF Cells

-----------------------------------------------------------------------------
(* What the parser has read of the first request.                          *)

\* The numbers it keeps are those of the first n lines.
Numbers(b, n, h) ==
    /\ (\A i \in Given(b, n, "Connect-Length") : Line(b, i).value <= 0)
           => h.m_content_length <= 0
    /\ \/ /\ Given(b, n, "Range") = {}
          /\ h.m_range_start = 0 /\ h.m_range_end = 0
       \/ \E i \in LastOf(b, n, "Range") :
              h.m_range_start = Line(b, i).from /\ h.m_range_end = Line(b, i).to
    /\ \/ /\ Given(b, n, "If-Modified-Since") = {}
          /\ h.m_if_modified_since_time = 0
       \/ \E i \in LastOf(b, n, "If-Modified-Since") :
              h.m_if_modified_since_time = Line(b, i).value

\* It has gone over n lines of its package, and accepted them.
Gone(h, n) ==
    LET b == h.m_read_buffer IN
    /\ h.m_start_idx = 3 * n /\ h.m_check_idx = 3 * n
    /\ \A i \in 1..n : IsLine(b, i)
    /\ IF n = 0 THEN h.m_check_state = "REQUETLINE"
       ELSE h.m_check_state = "HEADER" /\ Line(b, 1).kind = "request"
            /\ Line(b, 1).fault = "none"
    /\ \A i \in 2..n : Accepted(Line(b, i))
    /\ Numbers(b, n, h)

Kept(g, h) ==
    g.m_read_buffer = h.m_read_buffer /\ g.m_write_buffer = h.m_write_buffer

\* A further line counts for its own name only, and there it is the last one.
LEMMA GivenGrows ==
    ASSUME NEW b, NEW n \in Nat, n > 0, NEW name
    PROVE  LET w == Line(b, n + 1)
               new == /\ w.kind = "header" /\ w.name = name
                      /\ name = "Range" => w.form = "bytes" IN
           /\ new => /\ Given(b, n + 1, name) = Given(b, n, name) \cup {n + 1}
                     /\ LastOf(b, n + 1, name) = {n + 1}
           /\ ~new => /\ Given(b, n + 1, name) = Given(b, n, name)
                      /\ LastOf(b, n + 1, name) = LastOf(b, n, name)
<1> DEFINE P(i) == /\ Line(b, i).kind = "header" /\ Line(b, i).name = name
                   /\ name = "Range" => Line(b, i).form = "bytes"
<1>1. \A m : Given(b, m, name) = {i \in 2..m : P(i)}
  BY DEF Given
<1> HIDE DEF P
<1>2. 2..(n + 1) = (2..n) \cup {n + 1}
  OBVIOUS
<1>3. P(n + 1) => Given(b, n + 1, name) = Given(b, n, name) \cup {n + 1}
  BY <1>1, <1>2
<1>4. ~P(n + 1) => Given(b, n + 1, name) = Given(b, n, name)
  BY <1>1, <1>2
<1>5. ASSUME P(n + 1) PROVE LastOf(b, n + 1, name) = {n + 1}
  <2>1. \A i \in Given(b, n, name) : i \in Int /\ i < n + 1
    BY <1>1
  <2>2. \A i \in Given(b, n, name) : i \notin LastOf(b, n + 1, name)
    BY <1>3, <1>5, <2>1 DEF LastOf
  <2>3. n + 1 \in LastOf(b, n + 1, name)
    BY <1>3, <1>5, <2>1 DEF LastOf
  <2> QED BY <1>3, <1>5, <2>2, <2>3 DEF LastOf
<1> QED BY <1>3, <1>4, <1>5 DEF P, LastOf

LEMMA GivenTyped ==
    ASSUME NEW b \in Seq(Cells), NEW n \in Nat, \A i \in 1..n : IsLine(b, i),
           NEW name, NEW i \in Given(b, n, name)
    PROVE  IF name = "Range" THEN Line(b, i).from \in Int /\ Line(b, i).to \in Int
           ELSE Line(b, i).value \in Int
<1>1. i \in 1..n /\ Line(b, i).kind = "header" /\ Line(b, i).name = name
  BY DEF Given
<1>2. Line(b, i) \in Cells
  <2>1. IsLine(b, i)
    BY <1>1
  <2>2. 3 * i - 2 \in 1..Len(b)
    BY <1>1, <2>1 DEF IsLine
  <2> QED BY <2>2 DEF Line
<1> QED BY <1>1, <1>2, CellTyped, Zenon

\* What a header leaves in the object.
Taken(g, h, w) ==
    /\ g.m_start_idx = h.m_start_idx /\ g.m_check_idx = h.m_check_idx
    /\ g.m_check_state = h.m_check_state
    /\ g.m_content_length = IF w.name = "Connect-Length" THEN w.value ELSE h.m_content_length
    /\ IF w.name = "Range" /\ w.form = "bytes"
       THEN g.m_range_start = w.from /\ g.m_range_end = w.to
       ELSE g.m_range_start = h.m_range_start /\ g.m_range_end = h.m_range_end
    /\ g.m_if_modified_since_time =
           IF w.name = "If-Modified-Since" THEN w.value ELSE h.m_if_modified_since_time

LEMMA HeaderTaken ==
    ASSUME NEW h \in Server, NEW w \in Cells, w.kind = "header"
    PROVE  LET g == parse_header_func_map(h, w) IN
           /\ Kept(g, h)
           /\ \/ g.ret = "aborted"
              \/ g.ret = "BAD_REQUEST" /\ ~Accepted(w)
              \/ g.ret = "NO_REQUEST" /\ Accepted(w) /\ Taken(g, h, w)
<1> DEFINE g == parse_header_func_map(h, w)
<1>1. CASE w.name = "Connection"
  <2>1. g = Return(h, "NO_REQUEST")
    BY <1>1 DEF parse_header_func_map, Connection_func
  <2> HIDE DEF g
  <2> QED BY <1>1, <2>1 DEF Return, Server, Kept, Taken, Accepted, g
<1>2. CASE w.name = "Accept"
  <2>1. g = Return(h, "NO_REQUEST")
    BY <1>2 DEF parse_header_func_map, Accept_func
  <2> HIDE DEF g
  <2> QED BY <1>2, <2>1 DEF Return, Server, Kept, Taken, Accepted, g
<1>3. CASE w.name = "Connect-Length"
  <2>1. g = Return([h EXCEPT !.m_content_length = w.value], "NO_REQUEST")
    BY <1>3 DEF parse_header_func_map, Connect_Length_func
  <2> HIDE DEF g
  <2> QED BY <1>3, <2>1 DEF Return, Server, Kept, Taken, Accepted, g
<1>4. CASE w.name = "Range"
  <2>1. g = Range_func(h, w)
    BY <1>4 DEF parse_header_func_map
  <2>2. w.form \in {"bytes", "no dash", "other"}
    BY <1>4, CellForms
  <2> HIDE DEF g
  <2>3. CASE w.form = "other"
    <3>1. g = Return(h, "BAD_REQUEST")
      BY <2>1, <2>3 DEF Range_func
    <3> QED BY <1>4, <2>3, <3>1 DEF Return, Server, Kept, Accepted, g
  <2>4. CASE w.form = "no dash"
    <3>1. g = Return([h EXCEPT !.m_header_func_vec = Append(@, "range")], "NO_REQUEST")
      BY <2>1, <2>4 DEF Range_func
    <3> QED BY <1>4, <2>4, <3>1 DEF Return, Server, Kept, Taken, Accepted, g
  <2>5. CASE w.form = "bytes"
    <3> DEFINE k == [h EXCEPT !.m_range_start = w.from, !.m_range_end = w.to]
    <3>1. g = Return([k EXCEPT !.m_header_func_vec = Append(@, "range")], "NO_REQUEST")
      BY <2>1, <2>5 DEF Range_func
    <3> QED BY <1>4, <2>5, <3>1 DEF Return, Server, Kept, Taken, Accepted, g
  <2> QED BY <2>2, <2>3, <2>4, <2>5
<1>5. CASE w.name = "If-Modified-Since"
  <2>1. g = Return([h EXCEPT !.m_if_modified_since_time = w.value], "NO_REQUEST")
    BY <1>5 DEF parse_header_func_map, If_Modified_Since_func
  <2> HIDE DEF g
  <2> QED BY <1>5, <2>1 DEF Return, Server, Kept, Taken, Accepted, g
<1>6. CASE w.name = "Cookie"
  <2>1. g = Return([h EXCEPT !.m_cookie_value = TRUE], "NO_REQUEST")
    BY <1>6 DEF parse_header_func_map, Cookie_func
  <2> HIDE DEF g
  <2> QED BY <1>6, <2>1 DEF Return, Server, Kept, Taken, Accepted, g
<1>7. CASE w.name = "faulty"
  <2>1. g = Return(h, "aborted")
    BY <1>7 DEF parse_header_func_map
  <2> HIDE DEF g
  <2> QED BY <2>1 DEF Return, Server, Kept, g
<1>8. CASE w.name \notin {"Connection", "Accept", "Connect-Length", "Range",
                          "If-Modified-Since", "Cookie", "faulty"}
  <2>1. g = Return(h, "BAD_REQUEST")
    BY <1>8 DEF parse_header_func_map
  <2> HIDE DEF g
  <2> QED BY <1>8, <2>1 DEF Return, Server, Kept, Accepted, g
<1> QED BY <1>1, <1>2, <1>3, <1>4, <1>5, <1>6, <1>7, <1>8

LEMMA NumbersGrow ==
    ASSUME NEW b, NEW n \in Nat, n > 0, NEW h, NEW g, Line(b, n + 1).kind = "header",
           Numbers(b, n, h), Taken(g, h, Line(b, n + 1))
    PROVE  Numbers(b, n + 1, g)
<1> DEFINE w == Line(b, n + 1)
<1>1. (\A i \in Given(b, n + 1, "Connect-Length") : Line(b, i).value <= 0)
          => g.m_content_length <= 0
  <2>1. CASE w.name = "Connect-Length"
    <3>1. n + 1 \in Given(b, n + 1, "Connect-Length")
      BY <2>1, GivenGrows
    <3> QED BY <2>1, <3>1 DEF Taken
  <2>2. CASE w.name # "Connect-Length"
    <3>1. Given(b, n + 1, "Connect-Length") = Given(b, n, "Connect-Length")
      BY <2>2, GivenGrows
    <3> QED BY <2>2, <3>1 DEF Taken, Numbers
  <2> QED BY <2>1, <2>2
<1>2. \/ /\ Given(b, n + 1, "Range") = {}
         /\ g.m_range_start = 0 /\ g.m_range_end = 0
      \/ \E i \in LastOf(b, n + 1, "Range") :
             g.m_range_start = Line(b, i).from /\ g.m_range_end = Line(b, i).to
  <2>1. CASE w.name = "Range" /\ w.form = "bytes"
    <3>1. n + 1 \in LastOf(b, n + 1, "Range")
      BY <2>1, GivenGrows
    <3> QED BY <2>1, <3>1 DEF Taken
  <2>2. CASE ~(w.name = "Range" /\ w.form = "bytes")
    <3>1. /\ Given(b, n + 1, "Range") = Given(b, n, "Range")
          /\ LastOf(b, n + 1, "Range") = LastOf(b, n, "Range")
      BY <2>2, GivenGrows
    <3> QED BY <2>2, <3>1 DEF Taken, Numbers
  <2> QED BY <2>1, <2>2
<1>3. \/ /\ Given(b, n + 1, "If-Modified-Since") = {}
         /\ g.m_if_modified_since_time = 0
      \/ \E i \in LastOf(b, n + 1, "If-Modified-Since") :
             g.m_if_modified_since_time = Line(b, i).value
  <2>1. CASE w.name = "If-Modified-Since"
    <3>1. n + 1 \in LastOf(b, n + 1, "If-Modified-Since")
      BY <2>1, GivenGrows
    <3> QED BY <2>1, <3>1 DEF Taken
  <2>2. CASE w.name # "If-Modified-Since"
    <3>1. /\ Given(b, n + 1, "If-Modified-Since") = Given(b, n, "If-Modified-Since")
          /\ LastOf(b, n + 1, "If-Modified-Since") = LastOf(b, n, "If-Modified-Since")
      BY <2>2, GivenGrows
    <3> QED BY <2>2, <3>1 DEF Taken, Numbers
  <2> QED BY <2>1, <2>2
<1> QED BY <1>1, <1>2, <1>3 DEF Numbers

\* The object as it is when a line ending before i has been taken off.
Off(h, i) == [[h EXCEPT !.m_check_idx = i] EXCEPT !.m_start_idx = i]

LEMMA OffTyped ==
    ASSUME NEW h \in Server, NEW i \in Nat
    PROVE  LET k == Off(h, i) IN
           /\ k \in Server /\ Kept(k, h) /\ k.m_start_idx = i /\ k.m_check_idx = i
           /\ k.m_check_state = h.m_check_state
           /\ k.m_content_length = h.m_content_length
           /\ k.m_range_start = h.m_range_start /\ k.m_range_end = h.m_range_end
           /\ k.m_if_modified_since_time = h.m_if_modified_since_time
  BY DEF Off, Server, Kept

LEMMA ReturnKeeps ==
    ASSUME NEW h \in Server, NEW code
    PROVE  /\ Return(h, code).ret = code /\ Kept(Return(h, code), h)
           /\ Return(h, code).m_check_state = h.m_check_state
           /\ \A b, n : Numbers(b, n, h) => Numbers(b, n, Return(h, code))
<1> DEFINE g == Return(h, code)
<1>1. /\ g.ret = code /\ Kept(g, h) /\ g.m_check_state = h.m_check_state
      /\ g.m_content_length = h.m_content_length
      /\ g.m_range_start = h.m_range_start /\ g.m_range_end = h.m_range_end
      /\ g.m_if_modified_since_time = h.m_if_modified_since_time
  BY DEF Return, Server, Kept
<1> HIDE DEF g
<1>2. \A b, n : Numbers(b, n, h) => Numbers(b, n, g)
  BY <1>1 DEF Numbers
<1> QED BY <1>1, <1>2 DEF g

\* The request line.
LEMMA RequestLineTurn ==
    ASSUME NEW k \in Server, NEW b, b = k.m_read_buffer, Apart(b), IsLine(b, 1),
           k.m_start_idx = 3, k.m_check_idx = 3, Numbers(b, 0, k)
    PROVE  LET g == parse_request(k, <<Line(b, 1)>>) IN
           /\ Kept(g, k)
           /\ \/ g.ret = "BAD_REQUEST" /\ ~WellFormed(b)
              \/ g.ret = "NO_REQUEST" /\ Gone(g, 1)
<1> DEFINE w == Line(b, 1)
           text == <<w>>
           m == IF w = Head(text) /\ w.method \in Methods THEN w.method ELSE k.m_method
           g == parse_request(k, text)
<1>1. w \notin {CR, LF} /\ w \in Cells
  <2>1. 3 * 1 - 2 = 1 /\ Len(b) \in Nat /\ 3 <= Len(b) /\ b \in Seq(Cells)
    BY DEF IsLine, Apart
  <2>2. w = b[1] /\ b[1] \notin {CR, LF}
    BY <2>1 DEF IsLine, Line
  <2> QED BY <2>1, <2>2
<1>2. Words(text) # {} /\ FirstWord(text) = w
  <2> HIDE DEF w
  <2> QED BY <1>1, OneWord
<1>3. CASE w.kind # "request"
  <2>1. g = Return(k, "BAD_REQUEST")
    BY <1>2, <1>3, Zenon DEF parse_request
  <2>2. ~WellFormed(b)
    BY <1>3 DEF WellFormed
  <2> QED BY <2>1, <2>2, ReturnKeeps
<1>4. CASE w.kind = "request" /\ w.fault = "no url"
  <2>1. g = Return(k, "BAD_REQUEST")
    BY <1>2, <1>4, Zenon DEF parse_request
  <2>2. ~WellFormed(b)
    BY <1>4 DEF WellFormed
  <2> QED BY <2>1, <2>2, ReturnKeeps
<1>5. CASE w.kind = "request" /\ w.fault = "rest"
  <2>1. g = Return([k EXCEPT !.m_method = m], "BAD_REQUEST")
    <3>1. "rest" # "no url"
      OBVIOUS
    <3> QED BY <1>2, <1>5, <3>1, Zenon DEF parse_request
  <2>2. ~WellFormed(b)
    BY <1>5 DEF WellFormed
  <2> HIDE DEF m, g
  <2>3. g.ret = "BAD_REQUEST" /\ Kept(g, k)
    BY <2>1 DEF Return, Server, Kept
  <2> QED BY <2>2, <2>3 DEF g
<1>6. CASE w.kind = "request" /\ w.fault = "none"
  <2>1. g = Return([k EXCEPT !.m_method = m, !.m_check_state = "HEADER"], "NO_REQUEST")
    <3>1. "none" # "no url" /\ "none" # "rest"
      OBVIOUS
    <3> QED BY <1>2, <1>6, <3>1, Zenon DEF parse_request
  <2> HIDE DEF m, g
  <2>2. /\ g.ret = "NO_REQUEST" /\ Kept(g, k) /\ g.m_check_state = "HEADER"
        /\ g.m_start_idx = 3 /\ g.m_check_idx = 3
        /\ g.m_content_length = k.m_content_length
        /\ g.m_range_start = k.m_range_start /\ g.m_range_end = k.m_range_end
        /\ g.m_if_modified_since_time = k.m_if_modified_since_time
    BY <2>1 DEF Return, Server, Kept
  <2>3. \A name : Given(b, 1, name) = {} /\ Given(b, 0, name) = {}
    BY DEF Given
  <2>4. Numbers(b, 1, g)
    BY <2>2, <2>3 DEF Numbers, LastOf
  <2>5. g.m_read_buffer = b
    BY <2>2 DEF Kept
  <2>6. Gone(g, 1)
    <3>1. \A i \in 1..1 : IsLine(b, i)
      OBVIOUS
    <3>2. \A i \in 2..1 : Accepted(Line(b, i))
      OBVIOUS
    <3> QED BY <1>6, <2>2, <2>4, <2>5, <3>1, <3>2 DEF Gone
  <2> QED BY <2>2, <2>6 DEF g
<1> QED BY <1>1, <1>3, <1>4, <1>5, <1>6, CellForms

\* A header.
LEMMA HeaderTurn ==
    ASSUME NEW k \in Server, NEW b, b = k.m_read_buffer, Apart(b), NEW n \in Nat, n > 0,
           IsLine(b, n + 1), k.m_start_idx = 3 * (n + 1), k.m_check_idx = 3 * (n + 1),
           k.m_check_state = "HEADER", \A i \in 1..n : IsLine(b, i),
           Line(b, 1).kind = "request", Line(b, 1).fault = "none",
           \A i \in 2..n : Accepted(Line(b, i)), Numbers(b, n, k)
    PROVE  LET g == parse_header(k, <<Line(b, n + 1)>>) IN
           /\ Kept(g, k)
           /\ \/ g.ret = "aborted"
              \/ g.ret = "BAD_REQUEST" /\ ~WellFormed(b)
              \/ g.ret = "NO_REQUEST" /\ Gone(g, n + 1)
<1> DEFINE w == Line(b, n + 1)
           text == <<w>>
           g == parse_header(k, text)
<1>1. w \notin {CR, LF} /\ w \in Cells
  <2>1. 3 * (n + 1) - 2 \in 1..Len(b) /\ b \in Seq(Cells)
    BY DEF IsLine, Apart
  <2> QED BY <2>1 DEF IsLine, Line
<1>2. Words(text) # {} /\ FirstWord(text) = w /\ Head(text) = w /\ text # <<>>
  <2> HIDE DEF w
  <2> QED BY <1>1, OneWord
<1>3. ASSUME ~Accepted(w) PROVE ~WellFormed(b)
  <2> SUFFICES ASSUME Lines(b) > 0, \A i \in 2..Lines(b) : Accepted(Line(b, i)) PROVE FALSE
    BY DEF WellFormed
  <2>1. Lines(b) # 0 /\ Lines(b) \in Int
    <3>1. b \in Seq(Cells) /\ Lines(b) # 0
      BY DEF Apart
    <3> QED BY <3>1, LinesKnown
  <2>2. Lines(b) > n
    BY <2>1, LinesEnd DEF Apart
  <2>3. n + 1 \in 2..Lines(b)
    BY <2>1, <2>2
  <2> QED BY <1>3, <2>3
<1>4. CASE ~HasColon(w)
  <2>1. g = Return(k, "aborted")
    BY <1>2, <1>4, Zenon DEF parse_header
  <2> QED BY <2>1, ReturnKeeps
<1>5. CASE HasColon(w) /\ w.kind # "header"
  <2>1. g = Return(k, "BAD_REQUEST")
    BY <1>2, <1>5, Zenon DEF parse_header
  <2>2. ~Accepted(w)
    BY <1>5 DEF Accepted
  <2> QED BY <1>3, <2>1, <2>2, ReturnKeeps
<1>6. CASE HasColon(w) /\ w.kind = "header"
  <2>1. g = parse_header_func_map(k, w)
    BY <1>2, <1>6, Zenon DEF parse_header
  <2>2. /\ Kept(g, k)
        /\ \/ g.ret = "aborted"
           \/ g.ret = "BAD_REQUEST" /\ ~Accepted(w)
           \/ g.ret = "NO_REQUEST" /\ Accepted(w) /\ Taken(g, k, w)
    BY <1>1, <1>6, <2>1, HeaderTaken, Zenon
  <2> HIDE DEF g
  <2>3. ASSUME Accepted(w), Taken(g, k, w) PROVE Gone(g, n + 1)
    <3>1. Numbers(b, n + 1, g)
      BY <1>6, <2>3, NumbersGrow, Zenon
    <3>2. g.m_read_buffer = b
      BY <2>2 DEF Kept
    <3>3. \A i \in 1..(n + 1) : IsLine(b, i)
      <4>1. \A i \in 1..(n + 1) : i \in 1..n \/ i = n + 1
        OBVIOUS
      <4> QED BY <4>1
    <3>4. \A i \in 2..(n + 1) : Accepted(Line(b, i))
      <4>1. \A i \in 2..(n + 1) : i \in 2..n \/ i = n + 1
        OBVIOUS
      <4> QED BY <2>3, <4>1
    <3>5. g.m_start_idx = 3 * (n + 1) /\ g.m_check_idx = 3 * (n + 1)
           /\ g.m_check_state = "HEADER" /\ n + 1 # 0
      BY <2>3 DEF Taken
    <3> QED BY <3>1, <3>2, <3>3, <3>4, <3>5 DEF Gone
  <2> QED BY <1>3, <2>2, <2>3 DEF g
<1> QED BY <1>4, <1>5, <1>6

\* One turn of the loop, after n accepted lines.
LEMMA FirstTurn ==
    ASSUME NEW h \in Server, NEW b, b = h.m_read_buffer, Apart(b), NEW n \in Nat, Gone(h, n)
    PROVE  LET g == NextLine(h) IN
           /\ Kept(g, h)
           /\ \/ g.ret = "aborted"
              \/ g.ret = "BAD_REQUEST" /\ ~WellFormed(b)
              \/ g.ret = "GET_REQUEST" /\ WellFormed(b) /\ Lines(b) = n /\ Numbers(b, n, g)
              \/ /\ g.ret = "NO_REQUEST"
                 /\ Gone(g, n + 1) \/ (g.m_check_state = "CONTENT" /\ HasBody(b))
<1> DEFINE line == parse_line(h)
           g == NextLine(h)
           k == Off(h, line.idx)
<1>0. b \in Seq(Cells) /\ Len(b) \in Nat
  BY DEF Apart
<1>1. /\ h.m_start_idx = 3 * n /\ h.m_check_idx = 3 * n /\ \A i \in 1..n : IsLine(b, i)
      /\ n = 0 => h.m_check_state = "REQUETLINE"
      /\ n # 0 => h.m_check_state = "HEADER" /\ Line(b, 1).kind = "request"
                  /\ Line(b, 1).fault = "none"
      /\ \A i \in 2..n : Accepted(Line(b, i))
      /\ Numbers(b, n, h)
  BY Zenon DEF Gone
<1>2. n = 0 \/ IsLine(b, n)
  <2>1. n = 0 \/ n \in 1..n
    OBVIOUS
  <2> QED BY <1>1, <2>1
<1>3. \/ IsBlank(b, n) /\ LineEnd(h) = 3 * n
         /\ line = [status |-> "LINE_OK", idx |-> 3 * n + 2]
      \/ IsLine(b, n + 1) /\ LineEnd(h) = 3 * n + 1
         /\ line = [status |-> "LINE_OK", idx |-> 3 * n + 3]
      \/ ~IsBlank(b, n) /\ ~IsLine(b, n + 1) /\ line.status # "LINE_OK"
  BY <1>1, <1>2, ParsedLine
<1>4. line.idx \in Nat
  BY LineTyped
<1>5. /\ k \in Server /\ Kept(k, h) /\ k.m_start_idx = line.idx /\ k.m_check_idx = line.idx
      /\ k.m_check_state = h.m_check_state /\ Numbers(b, n, k)
      /\ k.m_content_length = h.m_content_length
  <2>1. /\ k \in Server /\ Kept(k, h) /\ k.m_start_idx = line.idx /\ k.m_check_idx = line.idx
        /\ k.m_check_state = h.m_check_state
        /\ k.m_content_length = h.m_content_length
        /\ k.m_range_start = h.m_range_start /\ k.m_range_end = h.m_range_end
        /\ k.m_if_modified_since_time = h.m_if_modified_since_time
    BY <1>4, OffTyped
  <2> HIDE DEF k
  <2> QED BY <1>1, <2>1 DEF Numbers
<1>6. k.m_read_buffer = b
  BY <1>5 DEF Kept
<1>7. Text(h, 3 * n) = <<>> /\ (IsLine(b, n + 1) => Text(h, 3 * n + 1) = <<Line(b, n + 1)>>)
  BY <1>1, TextOfLine
<1>8. ASSUME line.status = "LINE_OK"
      PROVE  /\ n = 0 => g = parse_request(k, Text(h, LineEnd(h)))
             /\ n # 0 => g = parse_header(k, Text(h, LineEnd(h)))
  <2>1. CASE n = 0
    <3>1. h.m_check_state = "REQUETLINE"
      BY <1>1, <2>1
    <3> QED BY <1>8, <2>1, <3>1 DEF NextLine, Off
  <2>2. CASE n # 0
    <3>1. h.m_check_state = "HEADER"
      BY <1>1, <2>2
    <3> QED BY <1>8, <2>2, <3>1 DEF NextLine, Off
  <2> QED BY <2>1, <2>2
<1>9. Kept(g, k) => Kept(g, h)
  <2> HIDE DEF g, k
  <2> QED BY <1>5 DEF Kept
<1>10. CASE ~IsBlank(b, n) /\ ~IsLine(b, n + 1) /\ line.status # "LINE_OK"
  <2>1. Lines(b) = 0
    BY <1>0, <1>1, <1>10, LinesEnd
  <2>2. ~WellFormed(b)
    BY <2>1 DEF WellFormed
  <2>3. g = Return([h EXCEPT !.m_check_idx = line.idx], "BAD_REQUEST")
    BY <1>10 DEF NextLine
  <2> HIDE DEF g, line
  <2>4. g.ret = "BAD_REQUEST" /\ Kept(g, h)
    BY <2>3 DEF Return, Server, Kept
  <2> QED BY <2>2, <2>4 DEF g
<1>11. CASE IsBlank(b, n) /\ LineEnd(h) = 3 * n
            /\ line = [status |-> "LINE_OK", idx |-> 3 * n + 2]
  <2>0. line.status = "LINE_OK"
    BY <1>11
  <2>1. CASE n = 0
    <3>1. g = parse_request(k, <<>>)
      BY <1>7, <1>8, <1>11, <2>0, <2>1, Zenon
    <3>2. Words(<<>>) = {}
      BY DEF Words
    <3>3. g = Return(k, "BAD_REQUEST")
      BY <3>1, <3>2, Zenon DEF parse_request
    <3>4. ~IsLine(b, n + 1)
      <4>1. 3 * (n + 1) - 2 = 3 * n + 1 /\ b[3 * n + 1] = CR
        BY <1>11 DEF IsBlank
      <4> QED BY <4>1 DEF IsLine
    <3>5. Lines(b) = 0
      BY <1>0, <1>1, <2>1, <3>4, LinesEnd
    <3>6. ~WellFormed(b)
      BY <3>5 DEF WellFormed
    <3> HIDE DEF g, k
    <3>7. g.ret = "BAD_REQUEST" /\ Kept(g, k)
      BY <1>5, <3>3, ReturnKeeps
    <3> QED BY <1>9, <3>6, <3>7 DEF g
  <2>2. CASE n # 0
    <3>1. g = parse_header(k, <<>>)
      BY <1>7, <1>8, <1>11, <2>0, <2>2, Zenon
    <3>2. Lines(b) = n
      <4>1. n \in 1..Len(b)
        BY <1>0, <1>11, <2>2 DEF IsBlank
      <4> QED BY <1>0, <1>1, <1>11, <4>1, LinesUnique
    <3>3. CASE k.m_content_length > 0
      <4>1. g = Return([k EXCEPT !.m_check_state = "CONTENT"], "NO_REQUEST")
        BY <3>1, <3>3, Zenon DEF parse_header
      <4>2. HasBody(b)
        <5>0. k.m_content_length \in Int
          BY <1>5 DEF Server
        <5>1. ~(\A i \in Given(b, n, "Connect-Length") : Line(b, i).value <= 0)
          <6>1. ~(k.m_content_length <= 0)
            BY <3>3, <5>0
          <6> QED BY <1>5, <6>1, Zenon DEF Numbers
        <5>2. PICK i \in Given(b, n, "Connect-Length") : ~(Line(b, i).value <= 0)
          BY <5>1
        <5>3. Line(b, i).value \in Int
          <6>1. "Connect-Length" # "Range"
            OBVIOUS
          <6> QED BY <1>0, <1>1, <6>1, GivenTyped, Zenon
        <5>4. Line(b, i).value > 0
          BY <5>2, <5>3
        <5> QED BY <3>2, <5>4 DEF HasBody
      <4> HIDE DEF g, k
      <4>3. g.ret = "NO_REQUEST" /\ g.m_check_state = "CONTENT" /\ Kept(g, k)
        BY <1>5, <4>1 DEF Return, Server, Kept
      <4> QED BY <1>9, <4>2, <4>3 DEF g
    <3>4. CASE ~(k.m_content_length > 0)
      <4>1. g = Return(k, "GET_REQUEST")
        BY <3>1, <3>4, Zenon DEF parse_header
      <4>2. WellFormed(b)
        <5>1. Lines(b) > 0
          BY <2>2, <3>2
        <5> QED BY <1>1, <2>2, <3>2, <5>1 DEF WellFormed
      <4> HIDE DEF g, k
      <4>3. g.ret = "GET_REQUEST" /\ Kept(g, k) /\ Numbers(b, n, g)
        BY <1>5, <4>1, ReturnKeeps
      <4> QED BY <1>9, <3>2, <4>2, <4>3 DEF g
    <3> QED BY <3>3, <3>4
  <2> QED BY <2>1, <2>2
<1>12. CASE IsLine(b, n + 1) /\ LineEnd(h) = 3 * n + 1
            /\ line = [status |-> "LINE_OK", idx |-> 3 * n + 3]
  <2>0. line.status = "LINE_OK" /\ line.idx = 3 * n + 3
    BY <1>12
  <2>1. Text(h, LineEnd(h)) = <<Line(b, n + 1)>>
    BY <1>7, <1>12
  <2>2. CASE n = 0
    <3>1. g = parse_request(k, <<Line(b, n + 1)>>)
      BY <1>8, <2>0, <2>1, <2>2, Zenon
    <3>2. n + 1 = 1 /\ line.idx = 3
      BY <2>0, <2>2
    <3> HIDE DEF g, k, line
    <3>3. Kept(g, k) /\ (\/ g.ret = "BAD_REQUEST" /\ ~WellFormed(b)
                         \/ g.ret = "NO_REQUEST" /\ Gone(g, 1))
      <4>1. g = parse_request(k, <<Line(b, 1)>>) /\ IsLine(b, 1)
        BY <1>12, <3>1, <3>2
      <4>2. Numbers(b, 0, k) /\ k.m_start_idx = 3 /\ k.m_check_idx = 3
        BY <1>5, <2>2, <3>2
      <4> QED BY <1>5, <1>6, <4>1, <4>2, RequestLineTurn
    <3> QED BY <1>9, <3>2, <3>3 DEF g
  <2>3. CASE n # 0
    <3>1. g = parse_header(k, <<Line(b, n + 1)>>)
      BY <1>8, <2>0, <2>1, <2>3, Zenon
    <3>2. n > 0 /\ line.idx = 3 * (n + 1)
      BY <2>0, <2>3
    <3> HIDE DEF g, k, line
    <3>3. Kept(g, k) /\ (\/ g.ret = "aborted"
                         \/ g.ret = "BAD_REQUEST" /\ ~WellFormed(b)
                         \/ g.ret = "NO_REQUEST" /\ Gone(g, n + 1))
      <4>1. k.m_check_state = "HEADER" /\ Line(b, 1).kind = "request"
             /\ Line(b, 1).fault = "none"
        BY <1>1, <1>5, <2>3
      <4> QED BY <1>1, <1>5, <1>6, <1>12, <3>1, <3>2, <4>1, HeaderTurn
    <3> QED BY <1>9, <3>3 DEF g
  <2> QED BY <2>2, <2>3
<1> QED BY <1>3, <1>10, <1>11, <1>12, Zenon

\* Once the parser waits for a body, it stays there.
LEMMA ContentTurn ==
    ASSUME NEW h \in Server, h.m_check_state = "CONTENT"
    PROVE  LET g == NextLine(h) IN
           Kept(g, h) /\ g.m_check_state = "CONTENT"
<1> DEFINE line == parse_line(h)
           g == NextLine(h)
           k == Off(h, line.idx)
<1>1. line.idx \in Nat
  BY LineTyped
<1>2. k \in Server /\ Kept(k, h) /\ k.m_check_state = "CONTENT"
  BY <1>1, OffTyped
<1>3. CASE line.status # "LINE_OK"
  <2>1. g = Return([h EXCEPT !.m_check_idx = line.idx], "BAD_REQUEST")
    BY <1>3 DEF NextLine
  <2> HIDE DEF g, line
  <2>2. Kept(g, h) /\ g.m_check_state = "CONTENT"
    BY <2>1 DEF Return, Server, Kept
  <2> QED BY <2>2 DEF g
<1>4. CASE line.status = "LINE_OK"
  <2>1. g = parse_content(k)
    BY <1>4 DEF NextLine, Off
  <2> HIDE DEF g, k
  <2>2. PICK code : g = Return(k, code)
    BY <2>1, Zenon DEF parse_content
  <2>3. Kept(g, k) /\ g.m_check_state = "CONTENT"
    BY <1>2, <2>2, ReturnKeeps
  <2> QED BY <1>2, <2>3 DEF g, Kept
<1> QED BY <1>3, <1>4

-----------------------------------------------------------------------------
(* The answer to the first request.                                        *)

LEMMA MapFileOutcome ==
    ASSUME NEW h \in Server, NEW f \in Stats,
           f.st \notin {"missing", "directory", "private"}
    PROVE  LET r == MapFile(h, f) IN
           /\ Kept(r, h)
           /\ r.ret = IF ~f.opens \/ f.size = 0 THEN "INTERNAL_ERROR"
                      ELSE IF RangeHonoured(h, f.size) THEN "PARTIAL_CONTENT"
                      ELSE "FILE_REQUEST"
<1> DEFINE r == MapFile(h, f)
           g == [h EXCEPT !.m_file_ptr = "file", !.m_content_length = f.size]
           k == [g EXCEPT !.m_content_length = h.m_range_end - h.m_range_start + 1]
<1>1. CASE ~f.opens
  <2>1. r = Return(h, "INTERNAL_ERROR")
    BY <1>1 DEF MapFile
  <2> QED BY <1>1, <2>1, ReturnKeeps
<1>2. CASE f.opens /\ f.size = 0
  <2>1. r = Return([h EXCEPT !.m_file_ptr = "MAP_FAILED"], "INTERNAL_ERROR")
    BY <1>2 DEF MapFile
  <2> HIDE DEF r
  <2>2. r.ret = "INTERNAL_ERROR" /\ Kept(r, h)
    BY <2>1 DEF Return, Server, Kept
  <2> QED BY <1>2, <2>2 DEF r
<1>3. CASE f.opens /\ f.size # 0 /\ RangeHonoured(h, f.size)
  <2>1. r = Return(k, "PARTIAL_CONTENT")
    BY <1>3 DEF MapFile
  <2> HIDE DEF r
  <2>2. r.ret = "PARTIAL_CONTENT" /\ Kept(r, h)
    BY <2>1 DEF Return, Server, Kept
  <2> QED BY <1>3, <2>2 DEF r
<1>4. CASE f.opens /\ f.size # 0 /\ ~RangeHonoured(h, f.size)
  <2>1. r = Return(g, "FILE_REQUEST")
    BY <1>4 DEF MapFile
  <2> HIDE DEF r
  <2>2. r.ret = "FILE_REQUEST" /\ Kept(r, h)
    BY <2>1 DEF Return, Server, Kept
  <2> QED BY <1>4, <2>2 DEF r
<1> QED BY <1>1, <1>2, <1>3, <1>4

\* do_request, from the numbers the parser has kept.
DoRequestRet(h, f) ==
    IF f.st = "missing" THEN "NO_RESOURCE"
    ELSE IF f.st = "directory" THEN "BAD_REQUEST"
    ELSE IF f.st = "private" THEN "FORBIDDEN_REQUEST"
    ELSE IF h.m_if_modified_since_time # 0 /\ ~(f.mtime > h.m_if_modified_since_time)
    THEN "NOT_MODIFIED"
    ELSE IF ~f.opens \/ f.size = 0 THEN "INTERNAL_ERROR"
    ELSE IF RangeHonoured(h, f.size) THEN "PARTIAL_CONTENT"
    ELSE "FILE_REQUEST"

LEMMA DoRequestReturns ==
    ASSUME NEW h \in Server, NEW f \in Stats
    PROVE  LET r == do_request(h, f) IN
           Kept(r, h) /\ (h.m_method = "GET" => r.ret = DoRequestRet(h, f))
<1> DEFINE r == do_request(h, f)
           g == [h EXCEPT !.m_stat = f]
           k == [g EXCEPT !.m_header_func_vec = Append(@, "Last-Modified")]
<1>1. /\ g \in Server /\ Kept(g, h) /\ g.m_range_start = h.m_range_start
      /\ g.m_range_end = h.m_range_end
  BY DEF Server, Found, Kept
<1>2. /\ k \in Server /\ Kept(k, h) /\ k.m_range_start = h.m_range_start
      /\ k.m_range_end = h.m_range_end
  <2> HIDE DEF g
  <2>1. Append(g.m_header_func_vec, "Last-Modified") \in Seq(Fields)
    <3>1. "Last-Modified" \in Fields
      BY DEF Fields
    <3> QED BY <1>1, <3>1 DEF Server
  <2> QED BY <1>1, <2>1 DEF Server, Kept
<1>3. ASSUME NEW x \in {h, g}, NEW code, r = Return(x, code)
      PROVE  Kept(r, h) /\ r.ret = code
  <2> HIDE DEF r
  <2>1. x \in Server /\ Kept(x, h)
    BY <1>1, <1>3 DEF Kept
  <2>2. Kept(r, x) /\ r.ret = code
    BY <1>3, <2>1, ReturnKeeps
  <2> QED BY <2>1, <2>2 DEF Kept
<1>4. CASE h.m_method = "OPTIONS"
  <2>1. r = Return(h, "FILE_REQUEST")
    BY <1>4 DEF do_request
  <2> QED BY <1>3, <1>4, <2>1
<1>5. CASE h.m_method # "OPTIONS" /\ f.st \in {"missing", "directory", "private"}
  <2>1. CASE f.st = "missing"
    <3>1. r = Return(h, "NO_RESOURCE")
      BY <1>5, <2>1 DEF do_request
    <3> QED BY <1>3, <2>1, <3>1 DEF DoRequestRet
  <2>2. CASE f.st = "directory"
    <3>1. r = Return(g, "BAD_REQUEST")
      BY <1>5, <2>2 DEF do_request
    <3> QED BY <1>3, <2>2, <3>1 DEF DoRequestRet
  <2>3. CASE f.st = "private"
    <3>1. r = Return(g, "FORBIDDEN_REQUEST")
      BY <1>5, <2>3 DEF do_request
    <3> QED BY <1>3, <2>3, <3>1 DEF DoRequestRet
  <2> QED BY <1>5, <2>1, <2>2, <2>3
<1>6. CASE h.m_method # "OPTIONS" /\ f.st \notin {"missing", "directory", "private"}
  <2>0. ASSUME NEW x \in Server, Kept(x, h), x.m_range_start = h.m_range_start,
               x.m_range_end = h.m_range_end, r = MapFile(x, f),
               ~(h.m_if_modified_since_time # 0 /\ ~(f.mtime > h.m_if_modified_since_time))
        PROVE  Kept(r, h) /\ r.ret = DoRequestRet(h, f)
    <3> HIDE DEF r
    <3>1. RangeHonoured(x, f.size) = RangeHonoured(h, f.size)
      BY <2>0 DEF RangeHonoured
    <3>2. /\ Kept(r, x)
          /\ r.ret = IF ~f.opens \/ f.size = 0 THEN "INTERNAL_ERROR"
                     ELSE IF RangeHonoured(h, f.size) THEN "PARTIAL_CONTENT"
                     ELSE "FILE_REQUEST"
      BY <1>6, <2>0, <3>1, MapFileOutcome
    <3>3. r.ret = DoRequestRet(h, f)
      BY <1>6, <2>0, <3>2, Zenon DEF DoRequestRet
    <3> QED BY <2>0, <3>2, <3>3 DEF Kept
  <2>1. CASE h.m_if_modified_since_time = 0
    <3>1. r = MapFile(g, f)
      BY <1>6, <2>1 DEF do_request
    <3> HIDE DEF g, r
    <3> QED BY <1>1, <2>0, <2>1, <3>1, Zenon DEF r
  <2>2. CASE h.m_if_modified_since_time # 0 /\ f.mtime > h.m_if_modified_since_time
    <3>1. r = MapFile(k, f)
      BY <1>6, <2>2 DEF do_request
    <3> HIDE DEF k, r
    <3> QED BY <1>2, <2>0, <2>2, <3>1, Zenon DEF r
  <2>3. CASE h.m_if_modified_since_time # 0 /\ ~(f.mtime > h.m_if_modified_since_time)
    <3>1. r = Return(g, "NOT_MODIFIED")
      BY <1>6, <2>3 DEF do_request
    <3>2. DoRequestRet(h, f) = "NOT_MODIFIED"
      BY <1>6, <2>3, Zenon DEF DoRequestRet
    <3> QED BY <1>3, <3>1, <3>2
  <2> QED BY <2>1, <2>2, <2>3
<1> QED BY <1>4, <1>5, <1>6

\* The numbers say what the request as a whole asks for.
LEMMA NumbersAsk ==
    ASSUME NEW h \in Server, NEW b \in Seq(Cells), Lines(b) # 0, Numbers(b, Lines(b), h),
           NEW f, f.mtime \in Int, NEW size \in Nat
    PROVE  /\ Unchanged(b, f) <=>
                  h.m_if_modified_since_time # 0 /\ ~(f.mtime > h.m_if_modified_since_time)
           /\ WantsPart(b, size) <=> RangeHonoured(h, size)
<1> DEFINE n == Lines(b)
<1>1. n \in Nat /\ \A i \in 1..n : IsLine(b, i)
  BY LinesKnown
<1>2. ASSUME NEW name, NEW i \in LastOf(b, n, name), NEW j \in LastOf(b, n, name)
      PROVE  i = j
  <2>1. i \in Int /\ j \in Int
    BY <1>1, <1>2 DEF LastOf, Given
  <2>2. i <= j /\ j <= i
    BY <1>2 DEF LastOf
  <2> QED BY <2>1, <2>2
<1>3. Unchanged(b, f) <=>
          h.m_if_modified_since_time # 0 /\ ~(f.mtime > h.m_if_modified_since_time)
  <2>1. CASE Given(b, n, "If-Modified-Since") = {} /\ h.m_if_modified_since_time = 0
    BY <2>1 DEF Unchanged, LastOf
  <2>2. ASSUME NEW i \in LastOf(b, n, "If-Modified-Since"),
               h.m_if_modified_since_time = Line(b, i).value
        PROVE  Unchanged(b, f) <=>
                  h.m_if_modified_since_time # 0 /\ ~(f.mtime > h.m_if_modified_since_time)
    <3>1. \A j \in LastOf(b, n, "If-Modified-Since") : j = i
      BY <1>2, <2>2
    <3>2. Unchanged(b, f) <=> Line(b, i).value # 0 /\ f.mtime <= Line(b, i).value
      BY <2>2, <3>1 DEF Unchanged
    <3>3. h.m_if_modified_since_time \in Int
      BY DEF Server
    <3>4. ASSUME NEW t \in Int PROVE f.mtime <= t <=> ~(f.mtime > t)
      OBVIOUS
    <3> QED BY <2>2, <3>2, <3>3, <3>4
  <2> QED BY <2>1, <2>2, Zenon DEF Numbers
<1>4. WantsPart(b, size) <=> RangeHonoured(h, size)
  <2>1. CASE Given(b, n, "Range") = {} /\ h.m_range_start = 0 /\ h.m_range_end = 0
    BY <2>1 DEF WantsPart, LastOf, RangeHonoured
  <2>2. ASSUME NEW i \in LastOf(b, n, "Range"),
               h.m_range_start = Line(b, i).from, h.m_range_end = Line(b, i).to
        PROVE  WantsPart(b, size) <=> RangeHonoured(h, size)
    <3>1. \A j \in LastOf(b, n, "Range") : j = i
      BY <1>2, <2>2
    <3>2. WantsPart(b, size) <=>
              Line(b, i).from > 0 /\ Line(b, i).to # 0 /\ Line(b, i).to <= size
      BY <2>2, <3>1 DEF WantsPart
    <3>3. h.m_range_start \in Int /\ h.m_range_end \in Int
      BY DEF Server
    <3>4. ASSUME NEW s \in Int, NEW e \in Int
          PROVE  s > 0 /\ e # 0 /\ e <= size <=> s # 0 /\ e # 0 /\ ~(s < 0 \/ e > size)
      OBVIOUS
    <3> QED BY <2>2, <3>2, <3>3, <3>4 DEF RangeHonoured
  <2> QED BY <2>1, <2>2, Zenon DEF Numbers
<1> QED BY <1>3, <1>4

\* A well-formed request gets the answer it asks for.
LEMMA DoRequestOutcome ==
    ASSUME NEW h \in Server, NEW b \in Seq(Cells), NEW f \in Stats,
           WellFormed(b), Numbers(b, Lines(b), h)
    PROVE  DoRequestRet(h, f) = Outcome(b, f)
<1>1. Lines(b) # 0
  BY DEF WellFormed
<1>2. f.st \in {"missing", "directory", "private", "file"}
  BY DEF Stats
<1>3. CASE f.st = "missing"
  <2>1. f.st \notin {"none", "directory", "private"}
    BY <1>3
  <2> QED BY <1>3, <2>1, Zenon DEF DoRequestRet, Outcome
<1>4. CASE f.st = "directory"
  <2>1. f.st \notin {"none", "missing", "private"}
    BY <1>4
  <2> QED BY <1>4, <2>1, Zenon DEF DoRequestRet, Outcome
<1>5. CASE f.st = "private"
  <2>1. f.st \notin {"none", "missing", "directory"}
    BY <1>5
  <2> QED BY <1>5, <2>1, Zenon DEF DoRequestRet, Outcome
<1>6. CASE f.st = "file"
  <2>1. f.size \in Nat /\ f.mtime \in Int /\ f.opens \in BOOLEAN
    BY <1>6, StatTyped
  <2>2. /\ Unchanged(b, f) <=>
              h.m_if_modified_since_time # 0 /\ ~(f.mtime > h.m_if_modified_since_time)
        /\ WantsPart(b, f.size) <=> RangeHonoured(h, f.size)
    BY <1>1, <2>1, NumbersAsk
  <2>3. f.st \notin {"none", "missing", "directory", "private"}
    BY <1>6
  <2>4. CASE Unchanged(b, f)
    BY <2>2, <2>3, <2>4, Zenon DEF DoRequestRet, Outcome
  <2>5. CASE ~Unchanged(b, f) /\ (~f.opens \/ f.size = 0)
    BY <2>2, <2>3, <2>5, Zenon DEF DoRequestRet, Outcome
  <2>6. CASE ~Unchanged(b, f) /\ ~(~f.opens \/ f.size = 0) /\ WantsPart(b, f.size)
    BY <2>2, <2>3, <2>6, Zenon DEF DoRequestRet, Outcome
  <2>7. CASE ~Unchanged(b, f) /\ ~(~f.opens \/ f.size = 0) /\ ~WantsPart(b, f.size)
    BY <2>2, <2>3, <2>7, Zenon DEF DoRequestRet, Outcome
  <2> QED BY <2>4, <2>5, <2>6, <2>7
<1> QED BY <1>2, <1>3, <1>4, <1>5, <1>6

\* The invariant: while the first package is read, the parser is behind n
\* lines of it that it has accepted, or waits for a body that was announced.
ReadInv ==
    /\ requests = 0 => phase = "idle" /\ http = init
    /\ phase = "read" /\ requests = 1 =>
           /\ http.m_write_buffer = <<>> /\ file = [st |-> "none"]
           /\ Apart(http.m_read_buffer)
           /\ \/ \E n \in Nat : Gone(http, n)
              \/ http.m_check_state = "CONTENT" /\ HasBody(http.m_read_buffer)
    /\ FirstAnswerRight

\* What Business answers, when process_read ended with the right result.
LEMMA FirstAnswer ==
    ASSUME requests \in Nat, NEW h \in Server, Prepared(h), h.ret \in Answers, Answer(h),
           h.m_write_buffer = <<>>,
           h.m_method = "GET" /\ ~HasBody(h.m_read_buffer)
               => h.ret = Outcome(h.m_read_buffer, file')
    PROVE  AnswerRight'
<1> DEFINE w == process_write(h)
<1>1. http' = w /\ w.m_method = h.m_method
  BY WriteTyped DEF Answer
<1> SUFFICES ASSUME w.m_method = "GET", ~HasBody(w.m_read_buffer)
             PROVE  /\ w.ret = Outcome(w.m_read_buffer, file')
                    /\ Head(w.m_write_buffer) = Status(w.ret)
  BY <1>1 DEF AnswerRight
<1>2. w = GET_func(h) /\ h.m_method = "GET"
  BY <1>1 DEF process_write
<1> HIDE DEF w
<1>3. /\ w.ret = h.ret /\ w.m_read_buffer = h.m_read_buffer
      /\ Head(w.m_write_buffer) = Status(w.ret)
  BY <1>2, GetSends
<1> QED BY <1>2, <1>3

LEMMA InitReadInv == Init => ReadInv
  BY DEF Init, ReadInv, FirstAnswerRight

\* The package of the first request is read from its start.
LEMMA FirstBusiness ==
    ASSUME http = init, NEW body \in Bodies, http' = [http EXCEPT !.m_read_buffer = body]
    PROVE  /\ http'.m_write_buffer = <<>> /\ Apart(http'.m_read_buffer)
           /\ Gone(http', 0)
<1> DEFINE g == [init EXCEPT !.m_read_buffer = body]
<1>1. http' = g
  OBVIOUS
<1>2. /\ g.m_write_buffer = <<>> /\ g.m_read_buffer = body /\ g.m_start_idx = 0
      /\ g.m_check_idx = 0 /\ g.m_check_state = "REQUETLINE" /\ g.m_content_length = 0
      /\ g.m_range_start = 0 /\ g.m_range_end = 0 /\ g.m_if_modified_since_time = 0
  BY DEF init
<1> HIDE DEF g
<1>3. Apart(body)
  BY InputAssumption DEF Apart
<1>4. \A name : Given(body, 0, name) = {}
  BY DEF Given
<1>5. Numbers(body, 0, g)
  BY <1>2, <1>4 DEF Numbers
<1>6. Gone(g, 0)
  BY <1>2, <1>5 DEF Gone
<1> QED BY <1>1, <1>2, <1>3, <1>6

LEMMA ReadInvStep == HttpInv /\ ReadInv /\ [Next]_vars => ReadInv'
<1> SUFFICES ASSUME HttpInv, ReadInv, [Next]_vars PROVE ReadInv'
  OBVIOUS
<1>0. http \in Server /\ requests \in Nat
  BY DEF HttpInv
<1>1. ASSUME NEW body \in Bodies, Business(body)
      PROVE  ReadInv'
  <2>1. requests' = requests + 1 /\ phase' = "read" /\ file' = [st |-> "none"]
    BY <1>1 DEF Business
  <2>2. CASE requests = 0
    <3>1. http = init /\ http' = [http EXCEPT !.m_read_buffer = body]
      BY <1>1, <2>2 DEF ReadInv, Business
    <3>2. /\ http'.m_write_buffer = <<>> /\ Apart(http'.m_read_buffer)
          /\ Gone(http', 0)
      BY <3>1, FirstBusiness
    <3>3. \E n \in Nat : Gone(http', n)
      BY <3>2
    <3> QED BY <2>1, <2>2, <3>2, <3>3 DEF ReadInv, FirstAnswerRight
  <2>3. CASE requests # 0
    <3>1. requests' # 0 /\ requests' # 1
      BY <1>0, <2>1, <2>3
    <3> QED BY <2>1, <3>1 DEF ReadInv, FirstAnswerRight
  <2> QED BY <2>2, <2>3
<1>2. CASE process_read
  <2> DEFINE g == NextLine(http)
             b == http.m_read_buffer
  <2>0. phase = "read" /\ requests' = requests /\ requests # 0
    BY <1>2 DEF process_read, Answer, ReadInv
  <2>1. CASE requests # 1
    BY <2>0, <2>1 DEF ReadInv, FirstAnswerRight
  <2>2. CASE requests = 1
    <3>1. /\ http.m_write_buffer = <<>> /\ file = [st |-> "none"] /\ Apart(b)
          /\ \/ \E n \in Nat : Gone(http, n)
             \/ http.m_check_state = "CONTENT" /\ HasBody(b)
      BY <2>0, <2>2 DEF ReadInv
    <3>2. g \in Server
      BY <1>0, NextLineTyped
    <3>3. /\ Kept(g, http)
          /\ \/ g.ret = "aborted"
             \/ g.ret = "BAD_REQUEST" /\ ~WellFormed(b)
             \/ g.ret = "GET_REQUEST" /\ WellFormed(b) /\ Numbers(b, Lines(b), g)
             \/ g.ret = "NO_REQUEST" /\ \E n \in Nat : Gone(g, n)
             \/ g.m_check_state = "CONTENT" /\ HasBody(b)
      <4>1. ASSUME NEW n \in Nat, Gone(http, n)
            PROVE  /\ Kept(g, http)
                   /\ \/ g.ret = "aborted"
                      \/ g.ret = "BAD_REQUEST" /\ ~WellFormed(b)
                      \/ g.ret = "GET_REQUEST" /\ WellFormed(b) /\ Numbers(b, Lines(b), g)
                      \/ g.ret = "NO_REQUEST" /\ \E m \in Nat : Gone(g, m)
                      \/ g.m_check_state = "CONTENT" /\ HasBody(b)
        <5>1. /\ Kept(g, http)
              /\ \/ g.ret = "aborted"
                 \/ g.ret = "BAD_REQUEST" /\ ~WellFormed(b)
                 \/ g.ret = "GET_REQUEST" /\ WellFormed(b) /\ Lines(b) = n /\ Numbers(b, n, g)
                 \/ /\ g.ret = "NO_REQUEST"
                    /\ Gone(g, n + 1) \/ (g.m_check_state = "CONTENT" /\ HasBody(b))
          BY <1>0, <3>1, <4>1, FirstTurn, Zenon
        <5>2. n + 1 \in Nat
          OBVIOUS
        <5> HIDE DEF g
        <5> QED BY <5>1, <5>2
      <4>2. CASE http.m_check_state = "CONTENT" /\ HasBody(b)
        BY <1>0, <4>2, ContentTurn
      <4> QED BY <3>1, <4>1, <4>2, Zenon
    <3>4. g.m_read_buffer = b /\ g.m_write_buffer = <<>>
      BY <3>1, <3>3 DEF Kept
    <3>5. CASE g.ret = "NO_REQUEST" /\ http' = g /\ UNCHANGED <<phase, file>>
      <4> HIDE DEF g
      <4>1. \/ \E n \in Nat : Gone(g, n)
            \/ g.m_check_state = "CONTENT" /\ HasBody(b)
        BY <3>3, <3>5
      <4>2. Apart(g.m_read_buffer)
        BY <3>1, <3>4
      <4> QED BY <2>0, <3>1, <3>4, <3>5, <4>1, <4>2 DEF ReadInv, FirstAnswerRight
    <3>6. CASE g.ret = "BAD_REQUEST" /\ Answer(g) /\ file' = file
      <4>1. g.ret \in Answers /\ Prepared(g)
        BY <3>6 DEF Answers, ErrorCodes, Prepared
      <4>2. ~HasBody(g.m_read_buffer) => g.ret = Outcome(g.m_read_buffer, file')
        <5>1. ~HasBody(b) => ~WellFormed(b)
          BY <3>3, <3>6
        <5>2. ~WellFormed(b) => Outcome(b, file') = "BAD_REQUEST"
          BY Zenon DEF Outcome
        <5> QED BY <3>4, <3>6, <5>1, <5>2
      <4> HIDE DEF g
      <4>3. AnswerRight'
        BY <1>0, <3>2, <3>4, <3>6, <4>1, <4>2, FirstAnswer, Zenon
      <4>4. phase' = "send"
        BY <3>6 DEF Answer
      <4> QED BY <2>0, <4>3, <4>4 DEF ReadInv, FirstAnswerRight
    <3>7. ASSUME NEW f \in Files, g.ret = "GET_REQUEST", Answer(do_request(g, f)), file' = f
          PROVE  ReadInv'
      <4>0. f \in Stats
        BY InputAssumption
      <4> DEFINE r == do_request(g, f)
      <4> HIDE DEF g
      <4>1. r \in Server /\ r.ret \in Answers /\ Prepared(r) /\ r.m_method = g.m_method
        BY <3>2, <4>0, DoRequestPrepared
      <4>2. Kept(r, g) /\ (g.m_method = "GET" => r.ret = DoRequestRet(g, f))
        BY <3>2, <4>0, DoRequestReturns
      <4> HIDE DEF r
      <4>3. r.m_read_buffer = b /\ r.m_write_buffer = <<>>
        BY <3>4, <4>2 DEF Kept
      <4>4. ~HasBody(b) => DoRequestRet(g, f) = Outcome(b, f)
        <5>1. ~HasBody(b) => WellFormed(b) /\ Numbers(b, Lines(b), g)
          BY <3>3, <3>7
        <5>2. b \in Seq(Cells)
          BY <3>1 DEF Apart
        <5> QED BY <3>2, <4>0, <5>1, <5>2, DoRequestOutcome, Zenon
      <4>5. Answer(r) /\ file' = f
        BY <3>7 DEF r
      <4>6. r.m_method = "GET" /\ ~HasBody(r.m_read_buffer)
                => r.ret = Outcome(r.m_read_buffer, file')
        BY <4>1, <4>2, <4>3, <4>4, <4>5
      <4>7. AnswerRight'
        BY <1>0, <4>1, <4>3, <4>5, <4>6, FirstAnswer, Zenon
      <4>8. phase' = "send"
        BY <4>5 DEF Answer
      <4> QED BY <2>0, <4>7, <4>8 DEF ReadInv, FirstAnswerRight
    <3>8. CASE phase' = "aborted"
      BY <2>0, <3>8 DEF ReadInv, FirstAnswerRight
    <3> QED
      <4> HIDE DEF g
      <4>1. \/ g.ret = "NO_REQUEST" /\ http' = g /\ UNCHANGED <<phase, file>>
            \/ g.ret = "BAD_REQUEST" /\ Answer(g) /\ file' = file
            \/ \E f \in Files : g.ret = "GET_REQUEST" /\ Answer(do_request(g, f)) /\ file' = f
            \/ phase' = "aborted"
        BY <1>2, Zenon DEF process_read, g
      <4> QED BY <3>5, <3>6, <3>7, <3>8, <4>1
  <2> QED BY <2>1, <2>2
<1>3. CASE sendMsg
  <2>1. http' = http /\ requests' = requests /\ file' = file /\ phase = "send"
    BY <1>3 DEF sendMsg
  <2>2. phase' # "read"
    BY <1>3, <2>1 DEF sendMsg, Wrote, Retry
  <2>3. AnswerRight' = AnswerRight
    BY <2>1 DEF AnswerRight
  <2> QED BY <2>1, <2>2, <2>3 DEF ReadInv, FirstAnswerRight
<1>4. CASE UNCHANGED vars
  <2>1. AnswerRight' = AnswerRight
    BY <1>4 DEF vars, AnswerRight
  <2> QED BY <1>4, <2>1 DEF vars, ReadInv, FirstAnswerRight
<1> QED
  BY <1>1, <1>2, <1>3, <1>4 DEF Next

\* For every package, however many lines it has, and whatever is at its URL:
\* the answer to the first request of a connection is the one that the request
\* read as a whole asks for, although process_read goes over it line by line
\* and keeps what it has read in the fields of the object.
THEOREM FirstAnswerIsRight == Spec => []FirstAnswerRight
<1>1. ReadInv => FirstAnswerRight
  BY DEF ReadInv
<1> QED BY <1>1, HttpInvariant, InitReadInv, ReadInvStep, PTL DEF Spec
=============================================================================
