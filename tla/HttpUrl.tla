------------------------------ MODULE HttpUrl ------------------------------
(***************************************************************************)
(* The URL half of src/src/http_parser.c: the character classes, the       *)
(* state machine parse_url_char that http_parser_execute and               *)
(* http_parser_parse_url share, the host machine, and the splitting of a   *)
(* whole URL.  The build is the default one, HTTP_PARSER_STRICT = 1.       *)
(*                                                                         *)
(* A character is a string of length one, a text a string.  A field of     *)
(* struct http_parser_url is the text its off and len select; the 16 bits  *)
(* of off and len are not modelled.  The backquote, which is a token and   *)
(* a URL character too, cannot stand in a TLA+ string.                     *)
(***************************************************************************)
EXTENDS Integers, Sequences, FiniteSets, SequencesExt

\* The characters of a text, as a sequence (joined to <<>>, TLC keeps its value) and as a set.
Explode(text) == <<>> \o [i \in 1..Len(text) |-> SubSeq(text, i, i)]
CharsOf(text) == ToSet(Explode(text))

Alpha == CharsOf("abcdefghijklmnopqrstuvwxyzABCDEFGHIJKLMNOPQRSTUVWXYZ")
Num == CharsOf("0123456789")
AlphaNum == Alpha \cup Num
Hex == Num \cup CharsOf("abcdefABCDEF")
Mark == CharsOf("-_.!~*'()")
UserInfoChar == AlphaNum \cup Mark \cup CharsOf("%;:&=+$,")
HostChar == AlphaNum \cup {".", "-"}
UrlChar == AlphaNum \cup CharsOf("!\"$%&'()*+,-./:;<=>@[\\]^_{|}~")
Blank == {" ", "\r", "\n", "\t", "\f"}

(***************************************************************************)
(* parse_url_char: the state after a character, s_dead if it is illegal.   *)
(***************************************************************************)
ServerStates == {"s_req_server_start", "s_req_server", "s_req_server_with_at"}
QueryStates == {"s_req_query_string_start", "s_req_query_string"}
FragmentStates == {"s_req_fragment_start", "s_req_fragment"}

UrlMove(s, ch) ==
    CASE s = "s_req_spaces_before_url" ->
            IF ch \in {"/", "*"} THEN "s_req_path"
            ELSE IF ch \in Alpha THEN "s_req_schema" ELSE "s_dead"
      [] s = "s_req_schema" ->
            IF ch \in Alpha THEN s
            ELSE IF ch = ":" THEN "s_req_schema_slash" ELSE "s_dead"
      [] s = "s_req_schema_slash" ->
            IF ch = "/" THEN "s_req_schema_slash_slash" ELSE "s_dead"
      [] s = "s_req_schema_slash_slash" ->
            IF ch = "/" THEN "s_req_server_start" ELSE "s_dead"
      [] s \in ServerStates ->
            CASE ch = "/" -> "s_req_path"
              [] ch = "?" -> "s_req_query_string_start"
              [] ch = "@" /\ s # "s_req_server_with_at" -> "s_req_server_with_at"
              [] ch \in UserInfoChar \cup {"[", "]"} -> "s_req_server"
              [] OTHER -> "s_dead"
      [] s = "s_req_path" ->
            CASE ch \in UrlChar -> s
              [] ch = "?" -> "s_req_query_string_start"
              [] ch = "#" -> "s_req_fragment_start"
              [] OTHER -> "s_dead"
      [] s \in QueryStates ->
            CASE ch \in UrlChar \cup {"?"} -> "s_req_query_string"
              [] ch = "#" -> "s_req_fragment_start"
              [] OTHER -> "s_dead"
      [] s \in FragmentStates ->
            CASE ch \in UrlChar \cup {"?"} -> "s_req_fragment"
              [] ch = "#" -> s
              [] OTHER -> "s_dead"
      [] OTHER -> "s_dead"

ParseUrlChar(s, ch) == IF ch \in Blank THEN "s_dead" ELSE UrlMove(s, ch)

(***************************************************************************)
(* http_parse_host_char and http_parse_host: user information, host (a     *)
(* name or a bracketed IPv6 address with a zone) and port.                 *)
(***************************************************************************)
ZoneChar == AlphaNum \cup CharsOf("%.-_~")

HostMove(s, ch) ==
    CASE s \in {"s_http_userinfo", "s_http_userinfo_start"} ->
            IF ch = "@" THEN "s_http_host_start"
            ELSE IF ch \in UserInfoChar THEN "s_http_userinfo" ELSE "s_http_host_dead"
      [] s = "s_http_host_start" ->
            IF ch = "[" THEN "s_http_host_v6_start"
            ELSE IF ch \in HostChar THEN "s_http_host" ELSE "s_http_host_dead"
      [] s \in {"s_http_host", "s_http_host_v6_end"} ->
            IF s = "s_http_host" /\ ch \in HostChar THEN s
            ELSE IF ch = ":" THEN "s_http_host_port_start" ELSE "s_http_host_dead"
      [] s \in {"s_http_host_v6", "s_http_host_v6_start"} ->
            CASE s = "s_http_host_v6" /\ ch = "]" -> "s_http_host_v6_end"
              [] ch \in Hex \cup {":", "."} -> "s_http_host_v6"
              [] s = "s_http_host_v6" /\ ch = "%" -> "s_http_host_v6_zone_start"
              [] OTHER -> "s_http_host_dead"
      [] s \in {"s_http_host_v6_zone", "s_http_host_v6_zone_start"} ->
            CASE s = "s_http_host_v6_zone" /\ ch = "]" -> "s_http_host_v6_end"
              [] ch \in ZoneChar -> "s_http_host_v6_zone"
              [] OTHER -> "s_http_host_dead"
      [] s \in {"s_http_host_port", "s_http_host_port_start"} ->
            IF ch \in Num THEN "s_http_host_port" ELSE "s_http_host_dead"
      [] OTHER -> "s_http_host_dead"

HostFinal == {"s_http_host", "s_http_host_v6_end", "s_http_host_port"}

Absent == " "          \* the bit of the field is not in field_set
NoFields == [schema |-> Absent, host |-> Absent, port |-> Absent, path |-> Absent,
             query |-> Absent, fragment |-> Absent, userinfo |-> Absent]
NoUrl == [accepted |-> FALSE, fields |-> NoFields, port |-> 0]

\* The field a character belongs to, from the host state it leads to.
HostField == [s \in {"s_http_userinfo"} |-> "userinfo"] @@ [s \in {"s_http_host_port"} |-> "port"]
             @@ [s \in {"s_http_host", "s_http_host_v6", "s_http_host_v6_zone_start",
                        "s_http_host_v6_zone"} |-> "host"]

ParseHost(fields, foundAt) ==
    LET Step(acc, ch) ==
            LET s == HostMove(acc.s, ch)
                begins == s # acc.s /\ s \notin {"s_http_host_v6_zone_start", "s_http_host_v6_zone"}
            IN  IF s \notin DOMAIN HostField THEN [acc EXCEPT !.s = s]
                ELSE [s |-> s, fields |-> [acc.fields EXCEPT ![HostField[s]] =
                                             IF begins THEN ch ELSE @ \o ch]]
        last == FoldLeft(Step,
                    [s |-> IF foundAt THEN "s_http_userinfo_start" ELSE "s_http_host_start",
                     fields |-> [fields EXCEPT !.host = ""]],
                    Explode(fields.host))
    IN  [accepted |-> last.s \in HostFinal, fields |-> last.fields]

(***************************************************************************)
(* http_parser_parse_url: the fields of a whole URL, and its port number.  *)
(***************************************************************************)
UrlField == [s \in {"s_req_server", "s_req_server_with_at"} |-> "host"]
            @@ [s \in {"s_req_schema"} |-> "schema"] @@ [s \in {"s_req_path"} |-> "path"]
            @@ [s \in {"s_req_query_string"} |-> "query"]
            @@ [s \in {"s_req_fragment"} |-> "fragment"]

Digit(ch) == CHOOSE d \in 0..9 : ToString(d) = ch
MaxPort == 65535
PortOf(text) == FoldLeft(LAMBDA v, ch : IF v > MaxPort THEN v ELSE 10 * v + Digit(ch),
                         0, Explode(text))

SplitUrl(url, isConnect) ==
    LET Step(acc, ch) ==
            LET s == ParseUrlChar(acc.s, ch)
                at == acc.at \/ s = "s_req_server_with_at"
            IN  IF s \notin DOMAIN UrlField THEN [acc EXCEPT !.s = s]
                ELSE LET uf == UrlField[s]
                     IN  [s |-> s, old |-> uf, at |-> at,
                          fields |-> [acc.fields EXCEPT ![uf] =
                                        IF uf = acc.old THEN @ \o ch ELSE ch]]
    IN  FoldLeft(Step, [s |-> IF isConnect THEN "s_req_server_start" ELSE "s_req_spaces_before_url",
                        old |-> Absent, at |-> FALSE, fields |-> NoFields], Explode(url))

ParseUrl(url, isConnect) ==
    LET split == SplitUrl(url, isConnect)
        hosted == IF split.fields.host = Absent
                  THEN [accepted |-> split.fields.schema = Absent, fields |-> split.fields]
                  ELSE ParseHost(split.fields, split.at)
        given == {f \in DOMAIN NoFields : hosted.fields[f] # Absent}
        port == IF "port" \in given THEN PortOf(hosted.fields.port) ELSE 0
    IN  IF \/ url = ""
           \/ split.s = "s_dead"
           \/ ~hosted.accepted
           \/ isConnect /\ given # {"host", "port"}
           \/ port > MaxPort
        THEN NoUrl
        ELSE hosted @@ [port |-> port]
=============================================================================
