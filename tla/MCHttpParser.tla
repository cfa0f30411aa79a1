---------------------------- MODULE MCHttpParser ----------------------------
(***************************************************************************)
(* Streams for HttpParser, written from messages: each message is what a   *)
(* sender means, with the bytes it sends and what a client must be told.   *)
(***************************************************************************)
EXTENDS HttpParser

Ev(cb, text) == [cb |-> cb, text |-> Explode(text)]
EOL == "\r\n"

(***************************************************************************)
(* First lines.                                                            *)
(***************************************************************************)
Request(method, url, major, minor) ==
    [type |-> "HTTP_REQUEST", what |-> method, major |-> major, minor |-> minor,
     wire |-> method \o " " \o url \o " HTTP/" \o major \o "." \o minor \o EOL,
     tells |-> <<Ev("message_begin", ""), Ev("url", url)>>]

Response(code, reason, major, minor) ==
    [type |-> "HTTP_RESPONSE", what |-> code, major |-> major, minor |-> minor,
     wire |-> "HTTP/" \o major \o "." \o minor \o " " \o code \o reason \o EOL,
     tells |-> <<Ev("message_begin", ""),
                 Ev("status", IF reason = "" THEN "" ELSE SubSeq(reason, 2, Len(reason)))>>]

Get == Request("GET", "/a", "1", "1")
Ok == Response("200", " OK", "1", "1")

(***************************************************************************)
(* Header lines: the bytes, the field and value to tell, the meaning.      *)
(***************************************************************************)
Line(field, value, means) ==
    [wire |-> field \o ": " \o value \o EOL, tells |-> <<Ev("header_field", field), Ev("header_value", value)>>,
     means |-> means]

\* A line with its own layout between field and value, or in the value.
Odd(field, bytes, value, means) ==
    [Line(field, value, means) EXCEPT !.wire = field \o ":" \o bytes]

PlainLines ==
    {Line("X", "a b", {}), Odd("Fold", " a\r\n\tb\r\n", "a\tb", {}), Odd("Empty", "\r\n", "", {}),
     Odd("Late", " \r\n\r\n", "", {}), Odd("Lf", "z\n", "z", {}), Odd("Cookie", "\t\r\n v\r\n", "v", {}),
     Line("Content-Lengthy", "9", {}), Line("Transfer", "chunked", {}), Line("Connection", "closed", {}),
     Line("Con", "close", {}), Line("Pragma", "no", {}), Line("Upgrad", "x", {}),
     Line("Connections", "close", {})}

CloseLines == {Line("Connection", "close", {"close"}), Line("connection", "x,\tClose ", {"close"}),
               Line("Proxy-Connection", "close, x", {"close"})}
KeepLines == {Line("Connection", "keep-alive", {"keep"}), Line("CONNECTION", "Keep-Alive , y", {"keep"})}
LengthLines == {Line("Content-Length", "3", {"length"}), Odd("content-length", "\t03 \r\n", "03 ", {"length"})}
ChunkedLines == {Line("Transfer-Encoding", "chunked", {"chunked"}),
                 Line("transfer-encoding", "gzip,\tChunked ", {"chunked"})}
OtherCodings == {Line("Transfer-Encoding", "chunkedx", {"coding"}),
                 Line("Transfer-Encoding", "Chunked, gzip", {"coding"})}
NoLength == Line("Content-Length", "0", {"empty"})
UpgradeLines == <<Line("Upgrade", "h2c", {}), Line("Connection", "keep-alive, Upgrade", {"keep"})>>
BadLengths == {Line("Content-Length", "250", {"bad"}), Line("Content-Length", "3 1", {"bad"}),
               Line("Content-Length", "+3", {"bad"}), Odd("Content-Length", " 3\r\n 1\r\n", "3 1", {"bad"}),
               Odd("Content-Length", "\r\n\r\n", "", {"bad"}), Line("Content-Length", "3\f", {"bad"})}

Wire(lines) == FoldLeft(LAMBDA text, l : text \o l.wire, "", lines)
Tells(lines) == FoldLeft(LAMBDA evs, l : evs \o l.tells, <<>>, lines)
Means(lines) == UNION {l.means : l \in ToSet(lines)}

(***************************************************************************)
(* Messages: a first line, header lines and a body.  A message may say how *)
(* the client answers when the headers are complete, and may end what the  *)
(* connection carries: closing, refused, or giving way to another          *)
(* protocol.  A refused message is one the parser must not accept, at its  *)
(* header lines ("bad") or behind them ("undetermined").  That a request   *)
(* is not kept because its body runs to the end of the stream,             *)
(* http_message_needs_eof does not say.                                    *)
(***************************************************************************)
Message(first, lines, body, answer) ==
    LET upgrade == body.kind = "tunnel" /\ answer # "2"
        keep == /\ IF first.major # "0" /\ first.minor # "0" THEN "close" \notin Means(lines)
                   ELSE "keep" \in Means(lines)
                /\ body.kind = "until eof" => first.type = "HTTP_REQUEST"
        begun == first.tells \o Tells(lines)
        ready == Append(begun, [cb |-> "headers_complete",
                     text |-> <<first.what, first.major, first.minor,
                                IF upgrade THEN "TRUE" ELSE "FALSE", answer>>])
    IN  [type |-> first.type, kind |-> body.kind,
         end |-> CASE Means(lines) \cap {"bad", "undetermined"} # {} -> "refused"
                   [] body.kind \in {"tunnel", "until eof"} -> body.kind
                   [] OTHER -> IF keep THEN "kept" ELSE "closed",
         wire |-> first.wire \o Wire(lines) \o EOL \o body.wire,
         tells |-> CASE "bad" \in Means(lines) -> begun
                     [] "undetermined" \in Means(lines) -> ready
                     [] OTHER -> ready \o body.tells
                                 \o <<[cb |-> "message_complete", text |-> <<ToString(keep)>>]>>]

Nothing == [kind |-> "none", wire |-> "", tells |-> <<>>]
Bytes(kind, text) == [kind |-> kind, wire |-> text, tells |-> <<Ev("body", text)>>]

Bodyless(first, lines) == Message(first, lines, Nothing, "0")
Counted(first, lines) == Message(first, lines, Bytes("counted", "abc"), "0")
UntilEof(first, lines) == Message(first, lines, Bytes("until eof", "ab\r\nc"), "0")
Tunnel(first, lines, answer) == Message(first, lines, [Nothing EXCEPT !.kind = "tunnel"], answer)

Chunk(size, number, text) ==
    [wire |-> size \o EOL \o text \o EOL,
     tells |-> <<[cb |-> "chunk_header", text |-> <<number>>], Ev("body", text), Ev("chunk_complete", "")>>,
     means |-> {}]
TwoChunks == <<Chunk("2", "2", "ab"), Chunk("1A;x", "26", "abcdefghijklmnopqrstuvwxyz")>>
OneChunk == <<Chunk("02;x", "2", "ab")>>

\* The chunks, the last chunk and the trailer lines.
Chunks(first, lines, chunks, trailers) ==
    Message(first, lines,
        [kind |-> "chunks",
         wire |-> Wire(chunks) \o "0\r\n" \o Wire(trailers) \o EOL,
         tells |-> Tells(chunks) \o <<[cb |-> "chunk_header", text |-> <<"0">>]>> \o Tells(trailers)
                   \o <<Ev("chunk_complete", "")>>],
        "0")

\* Old first lines.
Ice == [Request("SOURCE", "/", "1", "0") EXCEPT !.wire = "SOURCE / ICE/1.0\r\n"]
Old(eol) == [Request("GET", "/", "0", "9") EXCEPT !.wire = "\rGET /" \o eol]

Put == Request("PUT", "*", "1", "1")
Messages ==
    {Bodyless(Get, <<l>>) : l \in PlainLines \cup CloseLines \cup BadLengths}
    \cup {Bodyless(Request("POST", "http://u@h:1/p?q#f", "1", "0"), <<l>>) : l \in KeepLines}
    \cup {Bodyless(Request(m, "/", "1", "0"), <<>>) : m \in Methods \ {"CONNECT"}}
    \cup {Counted(f, <<l, Line("X", "a", {})>>) : f \in {Put, Ok}, l \in LengthLines}
    \cup {Chunks(f, <<l>>, TwoChunks, t) : f \in {Put, Ok}, l \in ChunkedLines, t \in {<<>>, <<Line("T", "v", {})>>}}
    \cup {UntilEof(Ok, <<l>>) : l \in OtherCodings}
    \cup {UntilEof(Response("404", "", "1", "1"), <<>>)}
    \cup {Bodyless(Response(code, " ", "1", "1"), <<>>) : code \in {"100", "204", "304"}}
    \cup {Bodyless(Ok, <<NoLength>>)}
    \cup {Message(Ok, <<l>>, Nothing, "1") : l \in LengthLines \cup ChunkedLines}
    \cup {Tunnel(Get, UpgradeLines, "0"), Tunnel(Response("101", " Up", "1", "1"), UpgradeLines, "0"),
          Tunnel(Request("CONNECT", "h:1", "1", "1"), <<>>, "0"), Tunnel(Ok, <<>>, "2")}
    \cup {Bodyless(Ice, <<>>), Bodyless(Old(EOL), <<>>), Bodyless(Old("\n"), <<>>)}
    \cup {Bodyless(Put, <<[l EXCEPT !.means = {"undetermined"}]>>) : l \in OtherCodings}
    \cup {Bodyless(f, <<l, [NoLength EXCEPT !.means = {"bad"}]>>) : f \in {Put, Ok}, l \in ChunkedLines}

\* What follows on the connection: another message, or bytes nobody may be told of.
Followed(m, type) ==
    LET next == Bodyless(IF m.type = "HTTP_REQUEST" THEN Request("HEAD", "/", "1", "1")
                         ELSE Response("204", "", "1", "1"), <<>>)
    IN  [type |-> type, lenient |-> FALSE, end |-> m.end, over |-> Len(m.wire),
         data |-> Explode(m.wire \o (IF m.end = "until eof" THEN "" ELSE next.wire)),
         tells |-> IF m.end = "kept" THEN m.tells \o next.tells ELSE m.tells]

\* One byte of a connection is another one: nothing is due, but the parser must bear it.
Wrong == <<"\f", "\n", "1">>
Damaged(m) ==
    [k \in 1..Len(m.wire) |->
        [type |-> m.type, lenient |-> FALSE, end |-> "damaged", over |-> 0, tells |-> <<>>,
         data |-> Explode(SubSeq(m.wire, 1, k - 1)) \o <<Wrong[(k % 3) + 1]>>
                  \o Explode(SubSeq(m.wire, k + 1, Len(m.wire)))]]

\* What only a parser with lenient_http_headers accepts.
LenientMessages ==
    {UntilEof(Put, <<l>>) : l \in OtherCodings}
    \cup {UntilEof(Put, <<l, Line("Content-Length", "3", {})>>) : l \in OtherCodings}
    \cup {Bodyless(Get, <<Line("X", "a\fb", {})>>)}

\* Two header lines that are too long together.
Long == LET l == Line("A", "abcdefghijklmnopqrstuvwxyzabcdefghijklmnop", {})
        IN  [Followed(Bodyless(Get, <<l, l>>), "HTTP_REQUEST") EXCEPT !.end = "damaged"]

Connections ==
    {Followed(m, m.type) : m \in Messages}
    \cup {[Followed(m, m.type) EXCEPT !.lenient = TRUE] : m \in LenientMessages}
    \cup {Followed(m, "HTTP_BOTH") :
             m \in {Bodyless(Ok, <<NoLength>>), Bodyless(Request("HEAD", "/", "1", "1"), <<>>), Bodyless(Put, <<>>)}}
MCLines ==
    Connections \cup {Long}
    \cup ToSet(Damaged(Chunks(Ok, <<Odd("Up", "\r\n c\r\n", "c", {}), Line("Transfer-Encoding", "chunked", {})>>,
                              OneChunk, <<>>)))

(***************************************************************************)
(* Properties.                                                             *)
(***************************************************************************)
Due == line.tells

\* The callbacks at which the client answered otherwise than the sender supposes.
Astray == {i \in 1..Len(told) : /\ i <= Len(Due) /\ told[i].cb = "headers_complete"
                                /\ Due[i].cb = "headers_complete" /\ told[i].text[5] # Due[i].text[5]}

\* What was told is a beginning of what is due; a text may not be whole yet.
OnTheWay ==
    /\ Len(told) <= Len(Due)
    /\ \A i \in 1..Len(told) :
          /\ told[i].cb = Due[i].cb
          /\ \/ told[i].text = Due[i].text
             \/ i = Len(told) /\ told[i].cb \in Fields /\ IsPrefix(told[i].text, Due[i].text)

\* Between calls, with all bytes of a message taken, everything due of it was told.
NothingMissing ==
    LET m == line
    IN  (/\ at = 0 /\ errno = "OK"
         /\ from >= (IF m.end = "kept" THEN Len(Data) ELSE m.over)
         /\ m.end = "until eof" => ended) => m.end # "refused" /\ told = Due

\* The parser fails only on a message to refuse or behind a closing one, and leaves another
\* protocol's bytes alone.
OnlyDueErrors ==
    LET m == line
    IN  /\ errno \notin {"OK", "PAUSED"} /\ SubSeq(errno, 1, 3) # "CB_" => m.end \in {"refused", "closed"}
        /\ at = 0 /\ m.end = "tunnel" => from <= m.over

\* However a connection is cut into calls, paused and resumed, the client is told exactly the
\* messages the sender wrote, in order: the texts whole, the bodies by their length, the chunks or
\* the end of the stream, whether the connection is kept; and nothing of what follows a message
\* that closes it, is refused or gives way to another protocol.
ToldTheMessages ==
    Astray = {} /\ line.end # "damaged" => OnTheWay /\ NothingMissing /\ OnlyDueErrors

=============================================================================
