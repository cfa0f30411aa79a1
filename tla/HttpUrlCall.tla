----------------------------- MODULE HttpUrlCall -----------------------------
(***************************************************************************)
(* A caller of http_parser_parse_url (src/src/http_parser.c): a text is    *)
(* parsed as the URL of a CONNECT request or of another one.  Some texts   *)
(* were put together from parts, which the caller remembers.               *)
(***************************************************************************)
EXTENDS HttpUrl, TLC

CONSTANTS
    Uris,    \* texts of any form
    Parts    \* the parts of a URL: a record with a field for each, the text of
             \* the host in the URL (`host' has no brackets) and the port's number

VARIABLES
    uri,        \* buf
    isConnect,  \* is_connect
    meant,      \* the parts the text was made of, a sequence of one or none
    parsed      \* what was returned, a sequence of one or none

callVars == <<uri, isConnect, meant, parsed>>

After(mark, part) == IF part = Absent THEN "" ELSE mark \o part
Before(part, mark) == IF part = Absent THEN "" ELSE part \o mark
Made(p) == Before(p.schema, "://") \o Before(p.userinfo, "@") \o After("", p.inUrl) \o After(":", p.port)
           \o After("", p.path) \o After("?", p.query) \o After("#", p.fragment)

Init ==
    /\ isConnect \in BOOLEAN
    /\ \/ uri \in Uris /\ meant = <<>>
       \/ \E p \in Parts : uri = Made(p) /\ meant = <<p>> /\ (isConnect <=> p.schema = Absent /\ p.host # Absent)
    /\ parsed = <<>>

Parse ==
    /\ parsed = <<>>
    /\ parsed' = <<ParseUrl(uri, isConnect)>>
    /\ UNCHANGED <<uri, isConnect, meant>>

-----------------------------------------------------------------------------
Given(f) == {k \in DOMAIN f : f[k] # Absent}
Without(text, S) == CharsOf(text) \cap S = {}

\* The texts these fields are cut from: a part that is empty may leave its delimiter behind, and the
\* marks in front of a fragment are skipped, however many there are.
HostTexts(f) == IF f.host = Absent THEN {""} ELSE {f.host, "[" \o f.host \o "]"}
Hashes(n) == FoldLeft(LAMBDA t, k : t \o "#", "", [k \in 1..n |-> k])
TextsOf(f, longest) ==
    {Before(f.schema, "://") \o u \o h \o After(":", f.port) \o After("", f.path) \o q \o r :
        u \in IF f.userinfo = Absent THEN {"", "@"} ELSE {f.userinfo \o "@"},
        h \in HostTexts(f),
        q \in IF f.query = Absent THEN {"", "?"} ELSE {"?" \o f.query},
        r \in IF f.fragment = Absent THEN {Hashes(n) : n \in 0..longest}
              ELSE {Hashes(n) \o f.fragment : n \in 1..longest}}

\* What a field may be, by itself and beside the others.
FieldsAreUrls(f) ==
    /\ "schema" \in Given(f) => CharsOf(f.schema) \subseteq Alpha /\ "host" \in Given(f)
    /\ "userinfo" \in Given(f) => "host" \in Given(f) /\ Without(f.userinfo, {"@", "/", "?", "#", "["})
    /\ "host" \in Given(f) => f.host # "" /\ Without(f.host, {"@", "/", "?", "#", "[", "]"})
    /\ "port" \in Given(f) => "host" \in Given(f) /\ f.port # "" /\ CharsOf(f.port) \subseteq Num
    /\ "path" \in Given(f) => Without(f.path, {"?", "#"}) /\ SubSeq(f.path, 1, 1) \in {"/", "*"}
    /\ "query" \in Given(f) => Without(f.query, {"#"}) /\ f.query # ""
    /\ "fragment" \in Given(f) => SubSeq(f.fragment, 1, 1) # "#"
    /\ \A k \in Given(f) : Without(f[k], {" "})

\* A URL is accepted only when it is made of the fields that are told, each of its own kind; one made of
\* proper parts is accepted, with exactly these parts and the number of its port, unless the number does
\* not fit in 16 bits, a fragment stands right behind the host, or a CONNECT request names more, or less,
\* than a host and its port.
HttpUrlIsItsFields ==
    parsed # <<>> =>
        LET u == parsed[1] IN
        /\ u.accepted =>
              /\ uri \in TextsOf(u.fields, Len(uri))
              /\ FieldsAreUrls(u.fields)
              /\ isConnect => Given(u.fields) = {"host", "port"}
              /\ u.port \in 0..65535
        /\ meant # <<>> =>
              LET p == meant[1]
                  fields == [k \in DOMAIN NoFields |-> p[k]]
              IN  IF \/ p.number > 65535
                     \/ isConnect /\ Given(fields) # {"host", "port"}
                     \/ "fragment" \in Given(fields) /\ Given(fields) \cap {"path", "query"} = {}
                  THEN ~u.accepted
                  ELSE u.accepted /\ u.fields = fields /\ u.port = p.number
=============================================================================
