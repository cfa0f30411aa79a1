------------------------------- MODULE UrlParser -------------------------------
(***************************************************************************)
(* ez_parse_url of ez_url_parser.c: a URL is cut into its fields from left *)
(* to right, each copied into memory of its own, which there may not be.   *)
(* One action is one field.  A URL is a sequence of characters without its *)
(* NUL.                                                                    *)
(***************************************************************************)
EXTENDS Integers, Sequences, FiniteSets, SequencesExt, TLC

CONSTANTS
    Urls,    \* what is parsed
    Alpha,   \* the letters, upper and lower case, among the characters
    ToLower  \* tolower on the characters of a scheme

VARIABLES
    url,     \* the argument
    curstr,  \* what is left of it
    purl,    \* the fields there are
    at,      \* which field is next; "parsed" and "NULL" are the ends
    heap,    \* the blocks that are allocated: "purl" and the fields
    starved  \* an allocation has failed

urlVars == <<url, curstr, purl, at, heap, starved>>

Field == {"scheme", "username", "password", "host", "port", "path", "query", "fragment"}
SchemeChar == Alpha \cup {"+", "-", "."}

Next1(s) == IF s = <<>> THEN "NUL" ELSE Head(s)
\* How many characters come before the first of S, or before the end.
Before(s, S) == LET k == SelectInSeq(s, LAMBDA c : c \in S) IN IF k = 0 THEN Len(s) ELSE k - 1
Upto(s, n) == SubSeq(s, 1, IF n < Len(s) THEN n ELSE Len(s))
Past(s, n) == SubSeq(s, n + 1, Len(s))

\* ez_parsed_url_free.
FreeFields == {"purl"} \cup {f \in Field : f \in DOMAIN purl}
Fail == at' = "NULL" /\ heap' = heap \ FreeFields /\ UNCHANGED <<curstr, purl>>

\* A copy of n characters is made as field f; behind them and the skipped ones the next part begins.
With(f, n, lower) == purl @@ (f :> IF lower THEN [k \in 1..n |-> ToLower[curstr[k]]] ELSE Upto(curstr, n))
Copy(f, n, skip, next) ==
    \/ /\ purl' = With(f, n, f = "scheme") /\ heap' = heap \cup {f}
       /\ curstr' = Past(curstr, n + skip)
       /\ at' = next
       /\ UNCHANGED starved
    \/ starved' = TRUE /\ Fail

Go(next, skip) == at' = next /\ curstr' = Past(curstr, skip) /\ UNCHANGED <<purl, heap>>

Allocate ==
    /\ at = "purl"
    /\ \/ heap' = {"purl"} /\ at' = "scheme" /\ UNCHANGED starved
       \/ starved' = TRUE /\ at' = "NULL" /\ UNCHANGED heap
    /\ UNCHANGED <<url, curstr, purl>>

Scheme ==
    /\ at = "scheme"
    /\ LET n == Before(curstr, {":"})
       IN  IF n = Len(curstr) \/ ToSet(Upto(curstr, n)) \ SchemeChar # {}
           THEN Fail /\ UNCHANGED starved
           ELSE Copy("scheme", n, 1, "slashes")
    /\ UNCHANGED url

\* "//", and a look ahead for an @ that comes before any slash.
Slashes ==
    /\ at = "slashes"
    /\ LET host == Past(curstr, 2)
           named == Next1(Past(host, Before(host, {"@", "/"}))) = "@"
       IN  IF Upto(curstr, 2) # <<"/", "/">> THEN Fail
           ELSE Go(IF named THEN "username" ELSE "host", 2)
    /\ UNCHANGED <<url, starved>>

Username ==
    /\ at = "username"
    /\ LET n == Before(curstr, {":", "@"})
       IN  Copy("username", n, 1, IF Next1(Past(curstr, n)) = ":" THEN "password" ELSE "host")
    /\ UNCHANGED url

Password ==
    /\ at = "password"
    /\ Copy("password", Before(curstr, {"@"}), 1, "host")
    /\ UNCHANGED url

\* An address in brackets ends behind its bracket, any other host before : or /.
HostLength ==
    IF Next1(curstr) = "["
    THEN LET n == Before(curstr, {"]"}) IN IF n = Len(curstr) THEN n ELSE n + 1
    ELSE Before(curstr, {":", "/"})

Host ==
    /\ at = "host"
    /\ LET n == HostLength
           stop == Next1(Past(curstr, n))
       IN  IF n = 0 THEN Fail /\ starved' \in {starved, TRUE}
           ELSE Copy("host", n, IF stop = ":" THEN 1 ELSE 0, IF stop = ":" THEN "port" ELSE "slash")
    /\ UNCHANGED url

Port ==
    /\ at = "port"
    /\ Copy("port", Before(curstr, {"/"}), 0, "slash")
    /\ UNCHANGED url

Slash ==
    /\ at = "slash"
    /\ CASE Next1(curstr) = "NUL" -> Go("parsed", 0)
         [] Next1(curstr) = "/" -> Go("path", 1)
         [] OTHER -> Fail
    /\ UNCHANGED <<url, starved>>

\* As PathEnd, with the fragment alone.
FragmentFirst == {"#"}
PathEnd == {"#", "?"}

Behind(s) == CASE Next1(s) = "?" -> "query" [] Next1(s) = "#" -> "fragment" [] OTHER -> "parsed"

Path ==
    /\ at = "path"
    /\ LET n == Before(curstr, PathEnd) IN Copy("path", n, 1, Behind(Past(curstr, n)))
    /\ UNCHANGED url

Query ==
    /\ at = "query"
    /\ LET n == Before(curstr, {"#"}) IN Copy("query", n, 1, Behind(Past(curstr, n)))
    /\ UNCHANGED url

Fragment ==
    /\ at = "fragment"
    /\ Copy("fragment", Len(curstr), 0, "parsed")
    /\ UNCHANGED url

InitUrl ==
    /\ url \in Urls /\ curstr = url /\ purl = <<>> /\ at = "purl" /\ heap = {} /\ starved = FALSE

NextUrl ==
    \/ Allocate \/ Scheme \/ Slashes \/ Username \/ Password \/ Host \/ Port \/ Slash
    \/ Path \/ Query \/ Fragment
-----------------------------------------------------------------------------
\* The URL put together again from its fields.
Part(before, f) == IF f \in DOMAIN purl THEN before \o purl[f] ELSE <<>>
Composed ==
    purl["scheme"] \o <<":", "/", "/">>
    \o Part(<<>>, "username") \o Part(<<":">>, "password") \o (IF "username" \in DOMAIN purl THEN <<"@">> ELSE <<>>)
    \o purl["host"] \o Part(<<":">>, "port")
    \o Part(<<"/">>, "path") \o Part(<<"?">>, "query") \o Part(<<"#">>, "fragment")

Lowered(s) == LET n == Before(s, {":"}) IN [k \in 1..Len(s) |-> IF k <= n THEN ToLower[s[k]] ELSE s[k]]

Lacks(f, S) == f \in DOMAIN purl => ToSet(purl[f]) \cap S = {}

\* A parsed URL is its fields, with nothing lost between them and each cut where it should be:
\* only the scheme has changed, to lower case.  And the fields, nothing else, are allocated;
\* after a failure, of the URL or of an allocation, nothing is.
UrlIsItsFields ==
    /\ at = "parsed" =>
           /\ Composed = Lowered(url)
           /\ Lacks("scheme", {":"}) /\ Lacks("username", {":", "@", "/"}) /\ Lacks("password", {"@", "/"})
           /\ Lacks("port", {"/"}) /\ Lacks("path", {"?", "#"}) /\ Lacks("query", {"#"})
           /\ purl["host"][1] # "[" => Lacks("host", {":", "/"})
           /\ heap = {"purl"} \cup DOMAIN purl
    /\ at = "NULL" => heap = {}
=============================================================================
