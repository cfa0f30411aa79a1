----------------------------- MODULE HttpParser -----------------------------
(***************************************************************************)
(* http_parser_execute (src/src/http_parser.c:641-2156) with the functions *)
(* it decides by, its callbacks and http_parser_pause.  A client reads one *)
(* stream and hands it to the parser in pieces; one action is one          *)
(* iteration of the parser's loop, over one byte or, where the code has an *)
(* inner loop, over the bytes that loop takes.  Every callback may return  *)
(* 0, pause the parser or refuse; a paused client resumes with the bytes   *)
(* the call did not take.                                                  *)
(*                                                                         *)
(* The bytes are characters.  state stands for parser->state and for its   *)
(* copy p_state, which agree whenever a callback or the client may look;   *)
(* nread and saved are the two copies of nread, which do not.  Once errno  *)
(* is an error no call looks at the other fields, so a failing step leaves *)
(* them alone.  Left out: NULL callbacks, and the cut of a long header     *)
(* value into runs of max_header_size, behind which the header is refused. *)
(***************************************************************************)
EXTENDS HttpUrl, TLC

CONSTANTS
    Lines,           \* what a client may read, records: `data', a sequence of characters, and the
                     \* type and lenient_http_headers of the parser it reads them with
    MaxHeaderSize,   \* max_header_size
    ULLONG_MAX,      \* the largest content length, which stands for "none"
    Pieces,          \* the sizes of the pieces; the rest of the stream is one as well
    MaxPauses        \* how often the callbacks pause the parser, a bound

ASSUME LinesAssumption ==
    \A l \in Lines : /\ l.type \in {"HTTP_REQUEST", "HTTP_RESPONSE", "HTTP_BOTH"}
                     /\ l.lenient \in BOOLEAN /\ l.data \in Seq(STRING)
ASSUME BoundAssumption ==
    /\ MaxHeaderSize \in Nat /\ ULLONG_MAX \in Nat /\ ULLONG_MAX >= 16
    /\ Pieces \subseteq Nat \ {0} /\ MaxPauses \in Nat

VARIABLES
    line,      \* what this client reads, with which settings
    from,      \* how many of its bytes the parser has taken in earlier calls
    state,     \* enum state
    h,         \* the fields of struct http_parser about the message
    errno,     \* http_errno
    saved,     \* parser->nread
    nread,     \* its copy in the call; equal to saved between calls
    at,        \* p, as the index of the byte in the stream; 0 between calls
    end,       \* the last byte of this call's data
    again,     \* the byte is executed again, behind the label reexecute
    marks,     \* the five marks, 0 for NULL
    told,      \* what the callbacks were called with, pieces of one text joined
    pauses,    \* how often a callback has paused
    ended      \* the client has told the parser of the end of the stream

cursor == <<line, from, end, errno, told, pauses, ended>>
vars == <<line, from, state, h, errno, saved, nread, at, end, again, marks, told, pauses,
          ended>>

(***************************************************************************)
(* Characters and the tables of words.                                     *)
(***************************************************************************)
CR == "\r"
LF == "\n"
Upper == Explode("ABCDEFGHIJKLMNOPQRSTUVWXYZ")
Small == Explode("abcdefghijklmnopqrstuvwxyz")
LowerCase == [ch \in ToSet(Upper) |-> Small[CHOOSE i \in 1..26 : Upper[i] = ch]]
Lower(ch) == IF ch \in DOMAIN LowerCase THEN LowerCase[ch] ELSE ch
TokenChar == AlphaNum \cup CharsOf("!#$%&'*+-.^_|~")
ControlChar == {"\f"}                  \* the control character of the alphabet
HexValue == [ch \in Hex |-> (CHOOSE i \in 1..16 : Explode("0123456789abcdef")[i] = Lower(ch)) - 1]

\* word[i] of a C string: NUL, here "", at its end.
CharAt(word, i) == IF i < Len(word) THEN SubSeq(word, i + 1, i + 1) ELSE ""

Methods == {"DELETE", "GET", "HEAD", "POST", "PUT", "CONNECT", "OPTIONS", "TRACE", "COPY", "LOCK",
            "MKCOL", "MOVE", "PROPFIND", "PROPPATCH", "SEARCH", "UNLOCK", "BIND", "REBIND",
            "UNBIND", "ACL", "REPORT", "MKACTIVITY", "CHECKOUT", "MERGE", "M-SEARCH", "NOTIFY",
            "SUBSCRIBE", "UNSUBSCRIBE", "PATCH", "PURGE", "MKCALENDAR", "LINK", "UNLINK", "SOURCE"}

\* The method a first letter stands for until a later letter tells otherwise.
FirstGuess == {"ACL", "BIND", "CONNECT", "DELETE", "GET", "HEAD", "LOCK", "MKCOL", "NOTIFY",
               "OPTIONS", "POST", "REPORT", "SUBSCRIBE", "TRACE", "UNLOCK"}

\* The XX table of s_req_method: guess, position and letter, and the new guess.
Turns == {<<"POST", 1, "U", "PUT">>, <<"POST", 1, "A", "PATCH">>, <<"POST", 1, "R", "PROPFIND">>,
          <<"PUT", 2, "R", "PURGE">>, <<"CONNECT", 1, "H", "CHECKOUT">>,
          <<"CONNECT", 2, "P", "COPY">>, <<"MKCOL", 1, "O", "MOVE">>, <<"MKCOL", 1, "E", "MERGE">>,
          <<"MKCOL", 1, "-", "M-SEARCH">>, <<"MKCOL", 2, "A", "MKACTIVITY">>,
          <<"MKCOL", 3, "A", "MKCALENDAR">>, <<"SUBSCRIBE", 1, "E", "SEARCH">>,
          <<"SUBSCRIBE", 1, "O", "SOURCE">>, <<"REPORT", 2, "B", "REBIND">>,
          <<"PROPFIND", 4, "P", "PROPPATCH">>, <<"LOCK", 1, "I", "LINK">>,
          <<"UNLOCK", 2, "S", "UNSUBSCRIBE">>, <<"UNLOCK", 2, "B", "UNBIND">>,
          <<"UNLOCK", 3, "I", "UNLINK">>}

\* The states that accept one character only: it, the next state and the error.
Expected ==
    [s_res_H |-> <<"T", "s_res_HT", "STRICT">>, s_res_HT |-> <<"T", "s_res_HTT", "STRICT">>,
     s_res_HTT |-> <<"P", "s_res_HTTP", "STRICT">>,
     s_res_HTTP |-> <<"/", "s_res_http_major", "STRICT">>,
     s_res_http_dot |-> <<".", "s_res_http_minor", "INVALID_VERSION">>,
     s_res_http_end |-> <<" ", "s_res_first_status_code", "INVALID_VERSION">>,
     s_res_line_almost_done |-> <<LF, "s_header_field_start", "STRICT">>,
     s_req_http_H |-> <<"T", "s_req_http_HT", "STRICT">>,
     s_req_http_HT |-> <<"T", "s_req_http_HTT", "STRICT">>,
     s_req_http_HTT |-> <<"P", "s_req_http_HTTP", "STRICT">>,
     s_req_http_I |-> <<"C", "s_req_http_IC", "STRICT">>,
     s_req_http_IC |-> <<"E", "s_req_http_HTTP", "STRICT">>,
     s_req_http_HTTP |-> <<"/", "s_req_http_major", "STRICT">>,
     s_req_http_dot |-> <<".", "s_req_http_minor", "INVALID_VERSION">>,
     s_req_line_almost_done |-> <<LF, "s_header_field_start", "LF_EXPECTED">>,
     s_header_almost_done |-> <<LF, "s_header_value_lws", "LF_EXPECTED">>,
     s_header_value_discard_ws_almost_done |-> <<LF, "s_header_value_discard_lws", "STRICT">>]

BodyStates == {"s_chunk_data", "s_chunk_data_almost_done", "s_chunk_data_done",
               "s_body_identity", "s_body_identity_eof", "s_message_done"}
ServerUrlStates == {"s_req_schema", "s_req_schema_slash", "s_req_schema_slash_slash",
                    "s_req_server_start"}
UrlStates == {"s_req_server", "s_req_server_with_at", "s_req_path"} \cup QueryStates
             \cup FragmentStates
StartStates == {"s_dead", "s_start_req_or_res", "s_start_res", "s_start_req"}

Fields == {"header_field", "header_value", "url", "body", "status"}
NoMarks == [f \in Fields |-> 0]
Callbacks == Fields \cup {"message_begin", "headers_complete", "message_complete", "chunk_header",
                          "chunk_complete"}

\* What texts are, as far as the parser asks.
ASSUME TextAssumption ==
    /\ \A ch \in Num : Digit(ch) \in 0..9
    /\ \A ch \in Hex : HexValue[ch] \in 0..15
    /\ \A cb \in Callbacks : "CB_" \o cb \notin {"OK", "PAUSED"}

ResumedInValues ==
    [f \in Fields |-> IF f = "header_value" /\ state \in {"s_header_value", "s_header_value_start"}
                     THEN from + 1 ELSE 0]

\* The mark a call sets at its first byte, for a text that an earlier call began.
Resumed == [f \in Fields |->
              IF \/ f = "header_field" /\ state = "s_header_field"
                 \/ f = "header_value" /\ state = "s_header_value"
                 \/ f = "url" /\ state \in ServerUrlStates \cup UrlStates
                 \/ f = "status" /\ state = "s_res_status"
              THEN from + 1 ELSE 0]

(***************************************************************************)
(* http_message_needs_eof, http_should_keep_alive and NEW_MESSAGE.         *)
(***************************************************************************)
NeedsEof(m) ==
    /\ m.type # "HTTP_REQUEST"
    /\ ~(m.status_code \div 100 = 1 \/ m.status_code \in {204, 304} \/ "F_SKIPBODY" \in m.flags)
    /\ "F_CHUNKED" \notin m.flags
    /\ "F_TRANSFER_ENCODING" \in m.flags \/ m.content_length = ULLONG_MAX

KeepAlive(m) ==
    /\ IF m.http_major > 0 /\ m.http_minor > 0
       THEN "F_CONNECTION_CLOSE" \notin m.flags
       ELSE "F_CONNECTION_KEEP_ALIVE" \in m.flags
    /\ ~NeedsEof(m)

NewMessage(m) ==
    IF ~KeepAlive(m) THEN "s_dead"
    ELSE IF m.type = "HTTP_REQUEST" THEN "s_start_req" ELSE "s_start_res"

(***************************************************************************)
(* Steps of the loop.  Ch is the byte at p, Count what nread is once the   *)
(* head of the loop has counted it.                                        *)
(***************************************************************************)
Data == line.data
Ch == Data[at]
CountPerCall == IF again \/ state \in BodyStates THEN nread ELSE at - from
Count == IF again \/ state \in BodyStates THEN nread ELSE nread + 1
Reading(states) == at # 0 /\ at <= end /\ state \in states /\ Count <= MaxHeaderSize

\* parser->nread after a step that leaves n in nread: the two are set to 0 together.
Stored(n) == IF n = 0 THEN 0 ELSE saved

\* break: on to state s and the byte behind q.
Advance(s, n, q) ==
    /\ state' = s /\ nread' = n /\ saved' = Stored(n) /\ at' = q + 1 /\ again' = FALSE
    /\ UNCHANGED cursor

NextByte(s) == Advance(s, Count, at) /\ UNCHANGED marks

\* REEXECUTE: on to state s with the same byte.
Reexecute(s) ==
    /\ state' = s /\ nread' = Count /\ again' = TRUE
    /\ UNCHANGED <<cursor, saved, at, marks>>

\* The end of a call that took the stream up to byte q and leaves n in parser->nread.
Return(q, n) ==
    /\ from' = q /\ saved' = n /\ nread' = n
    /\ at' = 0 /\ end' = 0 /\ again' = FALSE /\ marks' = NoMarks
    /\ UNCHANGED <<line, ended>>

\* goto error at byte q: the byte is not taken.
FailAt(q, n, e) ==
    /\ errno' = e
    /\ Return(q - 1, n)
    /\ UNCHANGED <<state, h, told, pauses>>

Fail(e) == FailAt(at, Count, e)

\* A piece of a text joins the piece before it.
Tell(cb, text) ==
    LET n == Len(told)
    IN  IF cb \in Fields /\ n > 0 /\ told[n].cb = cb
        THEN [told EXCEPT ![n].text = @ \o text]
        ELSE Append(told, [cb |-> cb, text |-> text])

(***************************************************************************)
(* CALLBACK_NOTIFY_ and CALLBACK_DATA_: the callback cb is called at byte  *)
(* q, in state s and with n bytes counted.  If it returns 0 the loop goes  *)
(* on, unless the bytes of a value, counted behind the callback, are too   *)
(* many; a refusal stores n; a pause is stored by http_parser_pause, which *)
(* knows only the nread that the parser had before this call.              *)
(***************************************************************************)
Paused(q, n) ==
    /\ pauses < MaxPauses
    /\ pauses' = pauses + 1
    /\ errno' = "PAUSED"
    /\ Return(q, n)

Refused(cb, q, n) ==
    /\ errno' = "CB_" \o cb
    /\ Return(q, n)
    /\ UNCHANGED pauses

Callback(cb, text, s, n, q, advance) ==
    LET taken == IF advance THEN q ELSE q - 1
    IN  /\ state' = s
        /\ told' = Tell(cb, text)
        /\ \/ /\ n <= MaxHeaderSize
              /\ at' = taken + 1 /\ again' = ~advance
              /\ nread' = n /\ saved' = Stored(n)
              /\ marks' = [f \in Fields |-> IF f = cb THEN 0 ELSE marks[f]]
              /\ UNCHANGED <<line, from, end, errno, pauses, ended>>
           \/ n > MaxHeaderSize /\ errno' = "HEADER_OVERFLOW" /\ Return(q - 1, n) /\ UNCHANGED pauses
           \/ Paused(taken, Stored(n))
           \/ Refused(cb, taken, n)

Notify(cb, text, s) == Callback(cb, text, s, Count, at, TRUE)

\* CALLBACK_DATA and CALLBACK_DATA_NOADVANCE for the bytes from the mark up to the last one.
DataUpTo(f, last, s, n, q, advance) ==
    IF marks[f] # 0
    THEN Callback(f, SubSeq(Data, marks[f], last), s, n, q, advance)
    ELSE /\ state' = s /\ nread' = n /\ saved' = Stored(n)
         /\ at' = (IF advance THEN q + 1 ELSE q) /\ again' = ~advance
         /\ UNCHANGED <<cursor, marks>>

\* MARK: the marks once f is marked at this byte.
Marked(f) == [marks EXCEPT ![f] = IF @ = 0 THEN at ELSE @]
(***************************************************************************)
(* The start of a message: the first line of a request or of a response.   *)
(***************************************************************************)
Fresh == [h EXCEPT !.flags = {}, !.content_length = ULLONG_MAX]

Blanks ==
    /\ Reading(StartStates)
    /\ Ch \in {CR, LF}
    /\ NextByte(state)
    /\ UNCHANGED h

Dead ==
    /\ Reading({"s_dead"})
    /\ Ch \notin {CR, LF}
    /\ Fail("CLOSED_CONNECTION")

StartReqOrRes ==
    /\ Reading({"s_start_req_or_res"})
    /\ Ch \notin {CR, LF}
    /\ IF Ch = "H"
       THEN h' = Fresh /\ Notify("message_begin", <<>>, "s_res_or_resp_H")
       ELSE h' = [Fresh EXCEPT !.type = "HTTP_REQUEST"] /\ Reexecute("s_start_req")

ResOrRespH ==
    /\ Reading({"s_res_or_resp_H"})
    /\ \/ Ch = "T" /\ h' = [h EXCEPT !.type = "HTTP_RESPONSE"] /\ NextByte("s_res_HT")
       \/ /\ Ch = "E"
          /\ h' = [h EXCEPT !.type = "HTTP_REQUEST", !.method = "HEAD", !.index = 2]
          /\ NextByte("s_req_method")
       \/ Ch \notin {"T", "E"} /\ Fail("INVALID_CONSTANT")

StartRes ==
    /\ Reading({"s_start_res"})
    /\ Ch \notin {CR, LF}
    /\ IF Ch = "H" THEN h' = Fresh /\ Notify("message_begin", <<>>, "s_res_H")
       ELSE Fail("INVALID_CONSTANT")

StartReq ==
    /\ Reading({"s_start_req"})
    /\ Ch \notin {CR, LF}
    /\ \/ \E m \in FirstGuess :
            /\ CharAt(m, 0) = Ch
            /\ h' = [Fresh EXCEPT !.method = m, !.index = 1]
            /\ Notify("message_begin", <<>>, "s_req_method")
       \/ (\A m \in FirstGuess : CharAt(m, 0) # Ch) /\ Fail("INVALID_METHOD")

\* The method meant after one more letter, or the blank behind it; "" if there is none.
MethodAfter(m, ch) ==
    LET c == CharAt(m.method, m.index)
        turns == {turn \in Turns : turn[1] = m.method /\ turn[2] = m.index /\ turn[3] = ch}
    IN  IF ch = c \/ (ch = " " /\ c = "") THEN m.method
        ELSE IF turns # {} THEN (CHOOSE turn \in turns : TRUE)[4]
        ELSE ""

ReqMethod ==
    /\ Reading({"s_req_method"})
    /\ LET m == MethodAfter(h, Ch)
       IN  IF m = "" THEN Fail("INVALID_METHOD")
           ELSE /\ h' = [h EXCEPT !.method = m, !.index = @ + 1]
                /\ NextByte(IF Ch = " " THEN "s_req_spaces_before_url" ELSE state)

UrlTo(s, m) ==
    IF s = "s_dead" THEN Fail("INVALID_URL")
    ELSE Advance(s, Count, at) /\ marks' = m /\ UNCHANGED h

SpacesBeforeUrl ==
    /\ Reading({"s_req_spaces_before_url"})
    /\ IF Ch = " " THEN NextByte(state) /\ UNCHANGED h
       ELSE UrlTo(ParseUrlChar(IF h.method = "CONNECT" THEN "s_req_server_start" ELSE state, Ch),
                  Marked("url"))

UrlChars ==
    /\ Reading(ServerUrlStates \cup UrlStates)
    /\ state \in UrlStates => Ch \notin {" ", CR, LF}
    /\ UrlTo(ParseUrlChar(state, Ch), marks)

UrlEnd ==
    /\ Reading(UrlStates)
    /\ Ch \in {" ", CR, LF}
    /\ h' = IF Ch = " " THEN h ELSE [h EXCEPT !.http_major = 0, !.http_minor = 9]
    /\ DataUpTo("url", at - 1, CASE Ch = " " -> "s_req_http_start"
                                 [] Ch = CR -> "s_req_line_almost_done"
                                 [] Ch = LF -> "s_header_field_start", Count, at, TRUE)

HttpStart ==
    /\ Reading({"s_req_http_start"})
    /\ \/ Ch = " " /\ NextByte(state) /\ UNCHANGED h
       \/ Ch = "H" /\ NextByte("s_req_http_H") /\ UNCHANGED h
       \/ Ch = "I" /\ h.method = "SOURCE" /\ NextByte("s_req_http_I") /\ UNCHANGED h
       \/ Ch \notin {" ", "H"} /\ (Ch = "I" => h.method # "SOURCE") /\ Fail("INVALID_CONSTANT")

Expect ==
    /\ Reading(DOMAIN Expected)
    /\ IF Ch = Expected[state][1] THEN NextByte(Expected[state][2]) /\ UNCHANGED h
       ELSE Fail(Expected[state][3])

HttpMajor ==
    /\ Reading({"s_res_http_major", "s_req_http_major"})
    /\ IF Ch \in Num
       THEN /\ h' = [h EXCEPT !.http_major = Digit(Ch)]
            /\ NextByte(IF state = "s_res_http_major" THEN "s_res_http_dot" ELSE "s_req_http_dot")
       ELSE Fail("INVALID_VERSION")

HttpMinor ==
    /\ Reading({"s_res_http_minor", "s_req_http_minor"})
    /\ IF Ch \in Num
       THEN /\ h' = [h EXCEPT !.http_minor = Digit(Ch)]
            /\ NextByte(IF state = "s_res_http_minor" THEN "s_res_http_end" ELSE "s_req_http_end")
       ELSE Fail("INVALID_VERSION")

ReqHttpEnd ==
    /\ Reading({"s_req_http_end"})
    /\ \/ Ch = CR /\ NextByte("s_req_line_almost_done") /\ UNCHANGED h
       \/ Ch = LF /\ NextByte("s_header_field_start") /\ UNCHANGED h
       \/ Ch \notin {CR, LF} /\ Fail("INVALID_VERSION")

FirstStatusCode ==
    /\ Reading({"s_res_first_status_code"})
    /\ \/ Ch = " " /\ NextByte(state) /\ UNCHANGED h
       \/ Ch \in Num /\ h' = [h EXCEPT !.status_code = Digit(Ch)] /\ NextByte("s_res_status_code")
       \/ Ch \notin Num \cup {" "} /\ Fail("INVALID_STATUS")

StatusCode ==
    /\ Reading({"s_res_status_code"})
    /\ \/ /\ Ch \in Num /\ 10 * h.status_code + Digit(Ch) <= 999
          /\ h' = [h EXCEPT !.status_code = 10 * @ + Digit(Ch)]
          /\ NextByte(state)
       \/ Ch = " " /\ NextByte("s_res_status_start") /\ UNCHANGED h
       \/ Ch \in {CR, LF} /\ Reexecute("s_res_status_start") /\ UNCHANGED h
       \/ /\ Ch \notin {" ", CR, LF} /\ ~(Ch \in Num /\ 10 * h.status_code + Digit(Ch) <= 999)
          /\ Fail("INVALID_STATUS")

StatusStart ==
    /\ Reading({"s_res_status_start"})
    /\ marks' = Marked("status")
    /\ h' = [h EXCEPT !.index = 0]
    /\ state' = "s_res_status" /\ nread' = Count
    /\ again' = (Ch \in {CR, LF})
    /\ at' = IF Ch \in {CR, LF} THEN at ELSE at + 1
    /\ UNCHANGED <<cursor, saved>>

Status ==
    /\ Reading({"s_res_status"})
    /\ IF Ch \in {CR, LF}
       THEN DataUpTo("status", at - 1, IF Ch = CR THEN "s_res_line_almost_done" ELSE "s_header_field_start",
                     Count, at, TRUE)
       ELSE NextByte(state)
    /\ UNCHANGED h

(***************************************************************************)
(* Header fields.  header_state follows the names the parser knows while   *)
(* the field is read, and the values they may have while the value is.     *)
(***************************************************************************)
HeaderFieldStart ==
    /\ Reading({"s_header_field_start"})
    /\ \/ Ch = CR /\ NextByte("s_headers_almost_done") /\ UNCHANGED h
       \/ Ch = LF /\ Reexecute("s_headers_almost_done") /\ UNCHANGED h
       \/ /\ Ch \in TokenChar
          /\ Advance("s_header_field", Count, at)
          /\ marks' = Marked("header_field")
          /\ h' = [h EXCEPT !.index = 0,
                            !.header_state = CASE Lower(Ch) = "c" -> "h_C"
                                               [] Lower(Ch) = "p" -> "h_matching_proxy_connection"
                                               [] Lower(Ch) = "t" -> "h_matching_transfer_encoding"
                                               [] Lower(Ch) = "u" -> "h_matching_upgrade"
                                               [] OTHER -> "h_general"]
       \/ Ch \notin TokenChar \cup {CR, LF} /\ Fail("INVALID_HEADER_TOKEN")

\* After "c", "co" and "con".
Con == {<<"h_C", "o", "h_CO">>, <<"h_CO", "n", "h_CON">>, <<"h_CON", "n", "h_matching_connection">>,
        <<"h_CON", "t", "h_matching_content_length">>}

\* The words matched from the second letter on, and the state a full match leads to.
Words ==
    [h_matching_connection |-> <<"connection", "h_connection">>,
     h_matching_proxy_connection |-> <<"proxy-connection", "h_connection">>,
     h_matching_content_length |-> <<"content-length", "h_content_length">>,
     h_matching_transfer_encoding |-> <<"transfer-encoding", "h_transfer_encoding">>,
     h_matching_upgrade |-> <<"upgrade", "h_upgrade">>,
     h_matching_transfer_encoding_chunked |-> <<"chunked", "h_transfer_encoding_chunked">>,
     h_matching_connection_keep_alive |-> <<"keep-alive", "h_connection_keep_alive">>,
     h_matching_connection_close |-> <<"close", "h_connection_close">>,
     h_matching_connection_upgrade |-> <<"upgrade", "h_connection_upgrade">>]

\* One more letter of a word: the match goes on, is complete, or is lost.
MatchWord(m, c, lost) ==
    LET word == Words[m.header_state][1]
        i == m.index + 1
    IN  [m EXCEPT !.index = i,
                  !.header_state = IF c # CharAt(word, i) THEN lost
                                   ELSE IF i = Len(word) - 1 THEN Words[m.header_state][2] ELSE @]

MatchField(m, ch) ==
    LET c == Lower(ch)
        hs == m.header_state
        next == IF hs \in DOMAIN Words THEN MatchWord(m, c, "h_general")
                ELSE IF hs \in {"h_C", "h_CO", "h_CON"}
                THEN [m EXCEPT !.index = @ + 1,
                               !.header_state = IF \E x \in Con : x[1] = hs /\ x[2] = c
                                                THEN (CHOOSE x \in Con : x[1] = hs /\ x[2] = c)[3]
                                                ELSE "h_general"]
                ELSE [m EXCEPT !.header_state = "h_general"]
    IN  IF next.header_state = "h_transfer_encoding"
        THEN [next EXCEPT !.flags = @ \cup {"F_TRANSFER_ENCODING"}] ELSE next

\* The first byte from p on that the test stops at, or the one behind the data.
FirstFrom(stops(_)) == CHOOSE q \in at..(end + 1) :
    /\ q = end + 1 \/ stops(Data[q])
    /\ \A i \in at..(q - 1) : ~stops(Data[i])

CountTo(q) == Count + (IF q > end THEN end - at ELSE q - at)

\* h once i bytes of the name were read.
Matched[i \in 0..(end + 1 - at)] == IF i = 0 THEN h ELSE MatchField(Matched[i - 1], Data[at + i - 1])

HeaderField ==
    /\ Reading({"s_header_field"})
    /\ \E q \in {FirstFrom(LAMBDA ch : ch \notin TokenChar)} :
       \E m \in {Matched[q - at]}, n \in {CountTo(q)} :
           IF n > MaxHeaderSize
           THEN FailAt(IF q > end THEN end ELSE q, n, "HEADER_OVERFLOW")
           ELSE \/ q > end /\ Advance(state, n, end) /\ h' = m /\ UNCHANGED marks
                \/ /\ q <= end /\ Data[q] = ":"
                   /\ h' = m
                   /\ DataUpTo("header_field", q - 1, "s_header_value_discard_ws", n, q, TRUE)
                \/ q <= end /\ Data[q] # ":" /\ FailAt(q, n, "INVALID_HEADER_TOKEN")

Known == [h_connection_keep_alive |-> "F_CONNECTION_KEEP_ALIVE", h_connection_close |-> "F_CONNECTION_CLOSE",
          h_connection_upgrade |-> "F_CONNECTION_UPGRADE", h_transfer_encoding_chunked |-> "F_CHUNKED"]

\* The flag a finished value sets.
ValueFlag(m) == IF m.header_state \in DOMAIN Known THEN {Known[m.header_state]} ELSE {}

DiscardWs ==
    /\ Reading({"s_header_value_discard_ws"})
    /\ Ch \in {" ", "\t", CR, LF}
    /\ NextByte(CASE Ch \in {" ", "\t"} -> state
               [] Ch = CR -> "s_header_value_discard_ws_almost_done"
               [] Ch = LF -> "s_header_value_discard_lws")
    /\ UNCHANGED h

\* What the first letter of a value says about the value of a Connection field.
ConnectionToken(c) ==
    CASE c = "k" -> "h_matching_connection_keep_alive" [] c = "c" -> "h_matching_connection_close"
      [] c = "u" -> "h_matching_connection_upgrade" [] OTHER -> "h_matching_connection_token"

ValueBegun ==
    LET hs == h.header_state
        to == CASE hs = "h_transfer_encoding" ->
                    IF Lower(Ch) = "c" THEN "h_matching_transfer_encoding_chunked"
                    ELSE "h_matching_transfer_encoding_token"
                [] hs = "h_content_length" -> "h_content_length_num"
                [] hs = "h_connection" -> ConnectionToken(Lower(Ch))
                [] hs \in {"h_matching_transfer_encoding_token_start", "h_content_length_ws",
                           "h_matching_connection_token_start"} -> hs
                [] OTHER -> "h_general"
        begun == [h EXCEPT !.index = 0, !.header_state = to]
    IN  CASE hs = "h_upgrade" -> [begun EXCEPT !.flags = @ \cup {"F_UPGRADE"}]
          [] hs = "h_content_length" -> [begun EXCEPT !.flags = @ \cup {"F_CONTENTLENGTH"},
                                                      !.content_length = Digit(Ch)]
          [] OTHER -> begun

ValueStart ==
    /\ Reading({"s_header_value_discard_ws", "s_header_value_start"})
    /\ state = "s_header_value_discard_ws" => Ch \notin {" ", "\t", CR, LF}
    /\ \/ /\ h.header_state = "h_content_length" => Ch \in Num /\ "F_CONTENTLENGTH" \notin h.flags
          /\ h' = ValueBegun
          /\ Advance("s_header_value", Count, at)
          /\ marks' = Marked("header_value")
       \/ h.header_state = "h_content_length" /\ Ch \notin Num /\ Fail("INVALID_CONTENT_LENGTH")
       \/ /\ h.header_state = "h_content_length" /\ Ch \in Num /\ "F_CONTENTLENGTH" \in h.flags
          /\ Fail("UNEXPECTED_CONTENT_LENGTH")

\* The content length with one more digit of the given base; TooLong is the code's test.
LengthWith(length, base, digit) == (length * base + digit) % (ULLONG_MAX + 1)
TooLong(length, base) == (ULLONG_MAX - base) \div base < length

MatchLength(m, ch) ==
    IF ch = " " THEN [m EXCEPT !.header_state = "h_content_length_ws"]
    ELSE IF m.header_state = "h_content_length_ws" \/ ch \notin Num \/ TooLong(m.content_length, 10)
    THEN [m EXCEPT !.bad = TRUE]
    ELSE [m EXCEPT !.content_length = LengthWith(@, 10, Digit(ch))]

\* At the first letter of an element of a list of tokens.
MatchTokenStart(m, ch, te) ==
    [m EXCEPT !.header_state =
        CASE te /\ Lower(ch) = "c" -> "h_matching_transfer_encoding_chunked"
          [] te /\ ch \in TokenChar \ {"c", "C"} -> "h_matching_transfer_encoding_token"
          [] ~te /\ ch \in TokenChar -> ConnectionToken(Lower(ch))
          [] ch \in {" ", "\t"} -> @
          [] OTHER -> "h_general"]

MatchValue(m, ch) ==
    LET hs == m.header_state
        te == hs \in {"h_matching_transfer_encoding_token_start", "h_matching_transfer_encoding_chunked",
                      "h_matching_transfer_encoding_token", "h_transfer_encoding_chunked"}
        token == IF te THEN "h_matching_transfer_encoding_token" ELSE "h_matching_connection_token"
        start == IF te THEN "h_matching_transfer_encoding_token_start"
                 ELSE "h_matching_connection_token_start"
    IN  CASE m.bad -> m
          [] ~m.bad /\ hs \in {"h_content_length_num", "h_content_length_ws"} -> MatchLength(m, ch)
          [] ~m.bad /\ hs = start -> MatchTokenStart(m, ch, te)
          [] ~m.bad /\ hs \in DOMAIN Words -> MatchWord(m, Lower(ch), token)
          [] ~m.bad /\ hs = token ->
                IF ch = "," THEN [m EXCEPT !.header_state = start, !.index = 0] ELSE m
          [] ~m.bad /\ hs = "h_transfer_encoding_chunked" ->
                IF ch = " " THEN m ELSE [m EXCEPT !.header_state = token]
          [] ~m.bad /\ hs \in DOMAIN Known \ {"h_transfer_encoding_chunked"} ->
                CASE ch = "," -> [m EXCEPT !.flags = @ \cup ValueFlag(m), !.header_state = start, !.index = 0]
                  [] ch = " " -> m
                  [] OTHER -> [m EXCEPT !.header_state = token]
          [] OTHER -> [m EXCEPT !.header_state = "h_general"]

\* h once i bytes of the value were read, with the place where it turned out to be no content length.
Scanned[i \in 0..(end + 1 - at)] ==
    IF i = 0 THEN [f \in DOMAIN h \cup {"bad", "badAt"} |-> IF f = "bad" THEN FALSE ELSE IF f = "badAt" THEN 0 ELSE h[f]]
    ELSE LET m == Scanned[i - 1]
             r == MatchValue(m, Data[at + i - 1])
         IN  IF m.bad THEN m ELSE IF r.bad THEN [r EXCEPT !.badAt = at + i - 1] ELSE r
Plain(m) == [f \in DOMAIN h |-> m[f]]

HeaderValue ==
    /\ Reading({"s_header_value"})
    /\ \E q \in {FirstFrom(LAMBDA ch : ch \in {CR, LF} \cup (IF h.lenient THEN {} ELSE ControlChar))} :
       \E m \in {Scanned[q - at]}, n \in {CountTo(q)} :
           CASE m.bad -> FailAt(m.badAt, Count, "INVALID_CONTENT_LENGTH")
             [] ~m.bad /\ q > end ->
                    IF n > MaxHeaderSize THEN FailAt(end, n, "HEADER_OVERFLOW")
                    ELSE Advance(state, n, end) /\ h' = Plain(m) /\ UNCHANGED marks
             [] ~m.bad /\ q <= end /\ Data[q] = LF ->
                    IF n > MaxHeaderSize THEN FailAt(q, n, "HEADER_OVERFLOW")
                    ELSE /\ h' = Plain(m)
                         /\ DataUpTo("header_value", q - 1, "s_header_almost_done", n, q, FALSE)
             [] ~m.bad /\ q <= end /\ Data[q] = CR ->
                    /\ h' = Plain(m)
                    /\ DataUpTo("header_value", q - 1, "s_header_almost_done", n, q, TRUE)
             [] OTHER -> FailAt(q, Count, "INVALID_HEADER_TOKEN")

ValueLws ==
    /\ Reading({"s_header_value_lws"})
    /\ IF Ch \in {" ", "\t"}
       THEN /\ h' = IF h.header_state = "h_content_length_num"
                    THEN [h EXCEPT !.header_state = "h_content_length_ws"] ELSE h
            /\ Reexecute("s_header_value_start")
       ELSE /\ h' = [h EXCEPT !.flags = @ \cup ValueFlag(h)]
            /\ Reexecute("s_header_field_start")

DiscardLws ==
    /\ Reading({"s_header_value_discard_lws"})
    /\ \/ Ch \in {" ", "\t"} /\ NextByte("s_header_value_discard_ws") /\ UNCHANGED h
       \/ /\ Ch \notin {" ", "\t"} /\ h.header_state # "h_content_length"
          /\ h' = [h EXCEPT !.flags = @ \cup ValueFlag(h)]
          /\ Callback("header_value", <<>>, "s_header_field_start", Count, at, FALSE)
       \/ Ch \notin {" ", "\t"} /\ h.header_state = "h_content_length" /\ Fail("INVALID_CONTENT_LENGTH")
(***************************************************************************)
(* The end of the headers: what kind of body follows.                      *)
(***************************************************************************)
IsUpgrade ==
    IF {"F_UPGRADE", "F_CONNECTION_UPGRADE"} \subseteq h.flags
    THEN h.type = "HTTP_REQUEST" \/ h.status_code = 101
    ELSE h.method = "CONNECT"

\* What the client reads from the parser when its headers are complete, and its answer.
Summary(m, answer) ==
    <<IF m.type = "HTTP_REQUEST" THEN m.method ELSE ToString(m.status_code),
      ToString(m.http_major), ToString(m.http_minor), ToString(m.upgrade), ToString(answer)>>

Trailing ==
    /\ Reading({"s_headers_almost_done"})
    /\ Ch = LF /\ "F_TRAILING" \in h.flags
    /\ Callback("chunk_complete", <<>>, "s_message_done", Count, at, FALSE)
    /\ UNCHANGED h

BothLengths == /\ {"F_TRANSFER_ENCODING", "F_CONTENTLENGTH"} \subseteq h.flags
               /\ h.lenient => "F_CHUNKED" \in h.flags

\* on_headers_complete may also return 1 (no body) or 2 (no body and another protocol).
HeadersAlmostDone ==
    /\ Reading({"s_headers_almost_done"})
    /\ Ch = LF => "F_TRAILING" \notin h.flags
    /\ \/ Ch # LF /\ Fail("STRICT")
       \/ Ch = LF /\ BothLengths /\ Fail("UNEXPECTED_CONTENT_LENGTH")
       \/ /\ Ch = LF /\ ~BothLengths
          /\ state' = "s_headers_done"
          /\ LET m == [h EXCEPT !.upgrade = IsUpgrade]
                 skip == [m EXCEPT !.flags = @ \cup {"F_SKIPBODY"}]
                 answers == <<m, skip, [skip EXCEPT !.upgrade = TRUE]>>
             IN  \/ /\ \E i \in 1..3 : /\ h' = answers[i]
                                       /\ told' = Tell("headers_complete", Summary(m, i - 1))
                    /\ nread' = Count /\ again' = TRUE
                    /\ UNCHANGED <<line, from, at, end, marks, saved, errno, pauses, ended>>
                 \/ /\ h' = m /\ told' = Tell("headers_complete", Summary(m, 0))
                    /\ Paused(at - 1, Count) \/ Refused("headers_complete", at - 1, Count)

BodyOf(m) ==
    LET has(f) == f \in m.flags
        length == m.content_length
        hasBody == has("F_CHUNKED") \/ (length > 0 /\ length # ULLONG_MAX)
    IN  IF m.upgrade /\ (m.method = "CONNECT" \/ has("F_SKIPBODY") \/ ~hasBody) THEN "other protocol"
        ELSE IF has("F_SKIPBODY") THEN "none"
        ELSE IF has("F_CHUNKED") THEN "chunks"
        ELSE IF has("F_TRANSFER_ENCODING")
             THEN IF m.type = "HTTP_REQUEST" /\ ~m.lenient THEN "undetermined" ELSE "until eof"
        ELSE IF length = 0 THEN "none"
        ELSE IF length # ULLONG_MAX THEN "counted"
        ELSE IF NeedsEof(m) THEN "until eof" ELSE "none"

\* NEW_MESSAGE and on_message_complete; the call ends where another protocol begins.
Complete(n, leaves) ==
    LET keep == <<ToString(KeepAlive(h))>>
    IN  IF leaves
        THEN /\ state' = NewMessage(h)
             /\ told' = Tell("message_complete", keep)
             /\ \/ Return(at, n) /\ UNCHANGED <<errno, pauses>>
                \/ Paused(at, Stored(n))
                \/ Refused("message_complete", at, n)
        ELSE Callback("message_complete", keep, NewMessage(h), n, at, TRUE)

\* parser->nread = 0; nread = 0: the headers, or the head of a chunk, are over.
Recount == 0

HeadersDone ==
    /\ Reading({"s_headers_done"})
    /\ \/ Ch # LF /\ Fail("STRICT")
       \/ /\ Ch = LF /\ BodyOf(h) \in {"other protocol", "none"}
          /\ Complete(Recount, BodyOf(h) = "other protocol")
          /\ UNCHANGED h
       \/ /\ Ch = LF /\ BodyOf(h) \in {"chunks", "counted", "until eof"}
          /\ Advance(CASE BodyOf(h) = "chunks" -> "s_chunk_size_start"
                       [] BodyOf(h) = "counted" -> "s_body_identity"
                       [] BodyOf(h) = "until eof" -> "s_body_identity_eof", Recount, at)
          /\ UNCHANGED <<h, marks>>
       \/ Ch = LF /\ BodyOf(h) = "undetermined" /\ FailAt(at, Recount, "INVALID_TRANSFER_ENCODING")

(***************************************************************************)
(* Bodies: counted, up to the end of the stream, and in chunks.            *)
(***************************************************************************)
\* How many bytes of the body this call's data holds.
ToRead == IF h.content_length < end - at + 1 THEN h.content_length ELSE end - at + 1
LastOfBody == h.content_length = ToRead

\* The last byte is seen again in s_message_done.
BodyIdentity ==
    /\ Reading({"s_body_identity"})
    /\ h' = [h EXCEPT !.content_length = @ - ToRead]
    /\ LET q == at + ToRead - 1
       IN  IF LastOfBody
           THEN Callback("body", SubSeq(Data, Marked("body")["body"], q), "s_message_done", Count, q, FALSE)
           ELSE Advance(state, Count, q) /\ marks' = Marked("body")

BodyIdentityEof ==
    /\ Reading({"s_body_identity_eof"})
    /\ Advance(state, Count, end)
    /\ marks' = Marked("body")
    /\ UNCHANGED h

MessageDone ==
    /\ Reading({"s_message_done"})
    /\ Complete(Count, h.upgrade)
    /\ UNCHANGED h

ChunkSizeStart ==
    /\ Reading({"s_chunk_size_start"})
    /\ IF Ch \in Hex
       THEN h' = [h EXCEPT !.content_length = HexValue[Ch]] /\ NextByte("s_chunk_size")
       ELSE Fail("INVALID_CHUNK_SIZE")

ChunkSize ==
    /\ Reading({"s_chunk_size"})
    /\ \/ Ch = CR /\ NextByte("s_chunk_size_almost_done") /\ UNCHANGED h
       \/ Ch \in {";", " "} /\ NextByte("s_chunk_parameters") /\ UNCHANGED h
       \/ /\ Ch \in Hex /\ ~TooLong(h.content_length, 16)
          /\ h' = [h EXCEPT !.content_length = LengthWith(@, 16, HexValue[Ch])]
          /\ NextByte(state)
       \/ Ch \in Hex /\ TooLong(h.content_length, 16) /\ Fail("INVALID_CONTENT_LENGTH")
       \/ Ch \notin Hex \cup {CR, ";", " "} /\ Fail("INVALID_CHUNK_SIZE")

ChunkParameters ==
    /\ Reading({"s_chunk_parameters"})
    /\ NextByte(IF Ch = CR THEN "s_chunk_size_almost_done" ELSE state)
    /\ UNCHANGED h

ChunkSizeAlmostDone ==
    /\ Reading({"s_chunk_size_almost_done"})
    /\ IF Ch # LF THEN Fail("STRICT")
       ELSE LET last == h.content_length = 0
            IN  /\ h' = IF last THEN [h EXCEPT !.flags = @ \cup {"F_TRAILING"}] ELSE h
                /\ Callback("chunk_header", <<ToString(h.content_length)>>,
                            IF last THEN "s_header_field_start" ELSE "s_chunk_data", Recount, at, TRUE)

ChunkData ==
    /\ Reading({"s_chunk_data"})
    /\ h' = [h EXCEPT !.content_length = @ - ToRead]
    /\ Advance(IF LastOfBody THEN "s_chunk_data_almost_done" ELSE state, Count, at + ToRead - 1)
    /\ marks' = Marked("body")

ChunkDataAlmostDone ==
    /\ Reading({"s_chunk_data_almost_done"})
    /\ IF Ch # CR THEN Fail("STRICT")
       ELSE DataUpTo("body", at - 1, "s_chunk_data_done", Count, at, TRUE) /\ UNCHANGED h

ChunkDataDone ==
    /\ Reading({"s_chunk_data_done"})
    /\ IF Ch # LF THEN Fail("STRICT")
       ELSE Callback("chunk_complete", <<>>, "s_chunk_size_start", Recount, at, TRUE) /\ UNCHANGED h

(***************************************************************************)
(* The call: its beginning, the limit on the headers, and its end, which   *)
(* hands over the text behind a mark that is left.                         *)
(***************************************************************************)
HeaderOverflow ==
    /\ at # 0 /\ at <= end
    /\ Count > MaxHeaderSize
    /\ Fail("HEADER_OVERFLOW")

LeftOver ==
    /\ at # 0 /\ at > end
    /\ \E f \in Fields : marks[f] # 0 /\ Callback(f, SubSeq(Data, marks[f], end), state, nread, at, FALSE)
    /\ UNCHANGED h

ReturnLen ==
    /\ at # 0 /\ at > end
    /\ marks = NoMarks
    /\ Return(end, nread)
    /\ UNCHANGED <<state, h, errno, told, pauses>>

\* The client hands over a piece, or the rest, while no other protocol has begun.
Left == h.upgrade /\ told # <<>> /\ told[Len(told)].cb = "message_complete"

Execute ==
    /\ at = 0 /\ errno = "OK" /\ ~Left
    /\ \E n \in Pieces \cup {Len(Data) - from} : n \in 1..(Len(Data) - from) /\ end' = from + n
    /\ at' = from + 1
    /\ marks' = Resumed
    /\ UNCHANGED <<line, from, state, h, errno, saved, nread, again, told, pauses, ended>>

\* http_parser_pause(parser, 0).
Resume ==
    /\ at = 0 /\ errno = "PAUSED"
    /\ errno' = "OK"
    /\ UNCHANGED <<line, from, state, h, saved, nread, at, end, again, marks, told, pauses, ended>>

\* http_parser_execute with len = 0, at the end of the stream; the client calls it once.
EndOfStream ==
    /\ at = 0 /\ errno = "OK" /\ from = Len(Data)
    /\ ~ended /\ ended' = TRUE
    /\ \/ /\ state = "s_body_identity_eof"
          /\ told' = Tell("message_complete", <<ToString(KeepAlive(h))>>)
          /\ errno' \in {"OK", "CB_message_complete"}
       \/ /\ state \in StartStates
          /\ UNCHANGED <<told, errno>>
       \/ /\ state \notin StartStates \cup {"s_body_identity_eof"}
          /\ errno' = "INVALID_EOF_STATE"
          /\ UNCHANGED told
    /\ UNCHANGED <<line, from, state, h, saved, nread, at, end, again, marks, pauses>>

(***************************************************************************)
(* http_parser_init.                                                       *)
(***************************************************************************)
Init ==
    /\ line \in Lines
    /\ h = [type |-> line.type, lenient |-> line.lenient, flags |-> {},
            method |-> "DELETE", status_code |-> 0, http_major |-> 0, http_minor |-> 0,
            index |-> 0, header_state |-> "h_general", content_length |-> 0, upgrade |-> FALSE]
    /\ state = CASE h.type = "HTTP_REQUEST" -> "s_start_req"
                 [] h.type = "HTTP_RESPONSE" -> "s_start_res"
                 [] h.type = "HTTP_BOTH" -> "s_start_req_or_res"
    /\ from = 0 /\ errno = "OK" /\ saved = 0 /\ nread = 0 /\ at = 0 /\ end = 0 /\ again = FALSE
    /\ marks = NoMarks /\ told = <<>> /\ pauses = 0 /\ ended = FALSE

FirstLine ==
    \/ Blanks \/ Dead \/ StartReqOrRes \/ ResOrRespH \/ StartRes \/ StartReq \/ ReqMethod
    \/ SpacesBeforeUrl \/ UrlChars \/ UrlEnd \/ HttpStart \/ Expect \/ HttpMajor \/ HttpMinor
    \/ ReqHttpEnd \/ FirstStatusCode \/ StatusCode \/ StatusStart \/ Status

Header ==
    \/ HeaderFieldStart \/ HeaderField \/ DiscardWs \/ ValueStart \/ HeaderValue \/ ValueLws
    \/ DiscardLws \/ Trailing \/ HeadersAlmostDone \/ HeadersDone

Body ==
    \/ BodyIdentity \/ BodyIdentityEof \/ MessageDone \/ ChunkSizeStart \/ ChunkSize
    \/ ChunkParameters \/ ChunkSizeAlmostDone \/ ChunkData \/ ChunkDataAlmostDone \/ ChunkDataDone

Iterate == FirstLine \/ Header \/ Body \/ HeaderOverflow \/ LeftOver \/ ReturnLen
Next == Iterate \/ Execute \/ Resume \/ EndOfStream

Spec == Init /\ [][Next]_vars

-----------------------------------------------------------------------------
\* The assertions in http_parser_execute.
Asserted ==
    /\ at > end => Cardinality({f \in Fields : marks[f] # 0}) <= 1
    /\ at # 0 /\ at <= end =>
          /\ state = "s_chunk_size_start" => Count = 1
          /\ state \in {"s_chunk_size_start", "s_chunk_size", "s_chunk_parameters", "s_chunk_size_almost_done",
                        "s_chunk_data", "s_chunk_data_almost_done", "s_chunk_data_done"}
                => "F_CHUNKED" \in h.flags
          /\ state \in {"s_body_identity", "s_chunk_data"} => h.content_length \notin {0, ULLONG_MAX}
          /\ state = "s_chunk_data_almost_done" => h.content_length = 0
          /\ state = "s_header_value" => h.header_state \notin {"h_connection", "h_transfer_encoding"}

\* The bytes of the texts the client was told since the message began.
HeaderBytes[i \in 0..Len(told)] ==
    IF i = 0 THEN 0
    ELSE IF told[i].cb = "message_begin" THEN 0
    ELSE HeaderBytes[i - 1] + (IF told[i].cb \in Fields THEN Len(told[i].text) ELSE 0)

\* The counters of the parser never leave their bounds: the assertions in http_parser_execute hold,
\* and unless the parser is paused no header larger than max_header_size gets through, the texts of
\* all its lines counted together (the comment at src/src/http_parser.c:136).
BoundsHold ==
    /\ Asserted
    /\ pauses = 0 =>
         \A i \in 1..Len(told) : told[i].cb = "headers_complete" => HeaderBytes[i] <= MaxHeaderSize
=============================================================================
