------------------------------- MODULE MCTexts -------------------------------
(***************************************************************************)
(* The parsers and the string functions, each with the texts it is given,  *)
(* and the receiver of ADLC, whose module this one extends.  They share    *)
(* nothing: in a behaviour one of them runs, `part', and the others stay   *)
(* where they are.                                                         *)
(***************************************************************************)
EXTENDS AdlcReceiver, FiniteSetsExt, TLC

VARIABLES part, text, jc, result, js, len, pool, parser, count, ret,
          rest, section, prev_name, lineno, error, read, pairs,
          url, curstr, purl, at, heap, starved,
          uri, isConnect, meant, parsed,
          mem, given, call, returned, coding, data, room, written, answer, step

checkerVars == <<text, jc, result>>
jsmnVars == <<js, len, pool, parser, count, ret>>
iniVars == <<rest, section, prev_name, lineno, error, read, pairs>>
urlVars == <<url, curstr, purl, at, heap, starved>>
callVars == <<uri, isConnect, meant, parsed>>
strVars == <<mem, given, call, returned>>
codingVars == <<coding, data, room, written, answer, step>>

Words(S, n) == UNION {[1..k -> S] : k \in 0..n}

(***************************************************************************)
(* adlc_ondata: every line of flags and plain bytes, cut in every way,     *)
(* every answer of the callback and packets of up to three bytes.          *)
(***************************************************************************)
MCByte == {90, 1, 2}
MCChunks == UNION {[1..n -> MCByte] : n \in 1..2}

(***************************************************************************)
(* json_checker: texts in one of four alphabets, behind a start.           *)
(***************************************************************************)
CheckerAlphabets ==
    {{"{", "}", "[", "]", ":", ",", "\"", "a"}, {"[", "]", ",", "-", "0", "1", ".", "e", "+", " "},
     {"[", "]", "t", "r", "u", "e", "f", "a", "l", "s", "n"},
     {"[", "]", "\"", "\\", "u", "0", "high", "\t", "NUL", "z"}}
CheckerStarts ==
    {<<>>, <<"high">>, <<"[">>, <<"[", "\"">>, <<"{", "\"", "\"">>, <<"{", "\"", "\"", ":", "1">>, <<"[", "0">>,
     <<"[", "1", ".">>, <<"[", "-", "1", "e">>, <<"[", "\"", "\\", "u">>, [k \in 1..17 |-> "["]}
C == INSTANCE JsonChecker WITH Alphabets <- CheckerAlphabets, Starts <- CheckerStarts, MaxText <- 3

(***************************************************************************)
(* jsmn: all short texts, and some in which keys, escapes and brackets     *)
(* meet.                                                                   *)
(***************************************************************************)
JsmnTexts ==
    Words({"{", "}", "[", "]", ":", ",", "\"", "1"}, 3)
    \cup {<<"{", "\"", "a", "\\", "\"", "\"", ":", "[", "1", "e", ",", " ", "{", "}", "]", "}">>,
          <<"{", "\"", "a", "\"", ":", "1", ",", "\"", "b", "\"", ":", "{", "\"", "\"", ":", "[", "]", "}", " ", "}">>,
          <<"[", "\"", "\\", "u", "0", "0", "a", "b", "\"", ",", "\"", "\\", "z", "\"">>, <<"1", "ctl">>}
K == INSTANCE Jsmn WITH Texts <- JsmnTexts, MaxPool <- 7

(***************************************************************************)
(* ini_parse_stream: files of three pieces of these lines.                 *)
(***************************************************************************)
IniLines ==
    {<<"\n">>, <<"[", "a", "]", "\n">>, <<" ", "[", "b", " ", ";", "]", "\n">>,
     <<"[", "a", "b", "c", "d", "]", "x", "\n">>, <<"[", ";", "]", "\n">>, <<"BOM", "k", "=", "v", "\n">>,
     <<"k", " ", ":", " ", "v", " ", ";", "=", "\n">>, <<"\t", "v", ";", "w", "=", "\r", "\n">>,
     <<"k", "\n">>, <<"k", " ", ";", "=", "v", "\n">>, <<";", "k", "=", "\n">>,
     <<"k", "=", "a", "b", "c", "d", "e", "f", "[", "=", "]", "\n">>,
     <<"\f", "v", "=", " ", ";", "w", "\n">>, <<"VT", "[", "a", "]", "\n">>, <<"l", "o", "n", "g", "=", "\n">>,
     <<"=", "v", "\n">>}
I == INSTANCE Ini WITH INI_MAX_LINE <- 9, MAX_SECTION <- 4, MAX_NAME <- 4, Lines <- IniLines, MaxLines <- 3, told <- pairs

(***************************************************************************)
(* ez_parse_url: all short texts, and all short texts behind a scheme and  *)
(* behind a host.                                                          *)
(***************************************************************************)
MCUrls ==
    Words({"h", "H", "1", ":", "/"}, 4)
    \cup {<<"H", ":", "/", "/">> \o s : s \in Words({"h", ":", "/", "@", "[", "]", "?", "#"}, 3)}
    \cup {<<"h", ":", "/", "/">> \o s : s \in Words({"h", ":", "@", "["}, 4)}
    \cup {<<"h", ":", "/", "/", "h", "/">> \o s : s \in Words({"h", "?", "#", "/"}, 4)}
Tolower == [c \in {"h", "H", "1", ":", "/", "@", "[", "]", "?", "#"} |-> IF c = "H" THEN "h" ELSE c]
U == INSTANCE UrlParser WITH Urls <- MCUrls, Alpha <- {"h", "H"}, ToLower <- Tolower

(***************************************************************************)
(* http_parser_parse_url: short texts, the same behind a scheme and behind *)
(* a path, and URLs made of parts with ports around the limit.             *)
(***************************************************************************)
Q == INSTANCE SequencesExt
TextsOver(S, n) == {Q!FoldLeft(LAMBDA t, c : t \o c, "", w) : w \in Words(S, n)}
None == " "
MCUris ==
    TextsOver({"h", "1", ":", "/", "?", "#", "@", "["}, 3)
    \cup {"h://" \o s : s \in TextsOver({"h", "1", ":", "@", "[", "]", "/", "?", "%"}, 4)}
    \cup {"/" \o s : s \in TextsOver({"h", "?", "#", "/", " "}, 4)}
MCParts ==
    LET tail == [path : {None, "/", "/*@"}, query : {None, "q?/", "?"}, fragment : {None, "f", "f#?"}]
        server == [userinfo : {None, "u:p", "%;"},
                   named : {<<"h-1.", "h-1.">>, <<"::1", "[::1]">>, <<"f.%e_~", "[f.%e_~]">>},
                   numbered : {<<None, 0>>, <<"0", 0>>, <<"0080", 80>>, <<"65535", 65535>>, <<"65536", 65536>>,
                               <<"655350", 655350>>}]
        Url(sch, s, t) == [schema |-> sch, userinfo |-> s.userinfo, host |-> s.named[1], inUrl |-> s.named[2],
                           port |-> s.numbered[1], number |-> s.numbered[2]] @@ t
        nowhere == [userinfo |-> None, named |-> <<None, None>>, numbered |-> <<None, 0>>]
    IN  {Url(sch, s, t) : sch \in {None, "hT"}, s \in server, t \in tail}
        \cup {Url(None, nowhere, t) : t \in {u \in tail : u.path # None}}
H == INSTANCE HttpUrlCall WITH Uris <- MCUris, Parts <- MCParts

(***************************************************************************)
(* str_opr.c and the query parser.                                         *)
(***************************************************************************)
Edited == Words({"a", "b", " "}, 4)
          \cup {<<" ", "#">>, <<"a", "\n", "#">>, <<"A", "b", "/">>}
Searched == Words({"a", "b"}, 5)
            \cup {<<"a", "/", "b", "\r", "\n", "a">>, <<"b", "a", "b", "/", "b", "\r">>, <<"a", "\n", "b">>}
Asked == {<<"b", "a", "=">> \o v \o <<"&", "a", "b", "=", "b">> :
            v \in {<<>>, <<"a">>, <<"%", "4", "A", "b">>, <<"%", "4", "B", "+">>, <<"+", "%", "4", "1", "=", "a">>}}
         \cup {<<"a", "b", "&", "a", "=", "b">>, <<"a", "=", "b", "+">>, <<"a">>}
Codes == [c \in {"a", "b", "A", "B", "1", "4", "=", "&", "%", "+", " "} |->
            CASE c = "a" -> 97 [] c = "b" -> 98 [] c = "A" -> 65 [] c = "B" -> 66 [] c = "1" -> 49 [] c = "4" -> 52
              [] c = "=" -> 61 [] c = "&" -> 38 [] c = "%" -> 37 [] c = "+" -> 43 [] c = " " -> 32]
Dotted == {<<a, -1, b, -1, 3, -1, 4>> : a \in {0, 10, 58, 127, 172, 192, 255}, b \in {15, 16, 31, 32, 168, 300}}
          \cup {<<1>>, <<1, -1>>, <<-1, 7>>, <<1, -1, -1, 2>>, <<>>}
S == INSTANCE StrOpr WITH
        Strings <- Edited, Spare <- <<"#", "#", "#", "#", "#", "#", "#", "#", "#">>, Chars <- {"a", "b"},
        Lengths <- {0, 1, 2, 3, 5}, Spliters <- {<<"a">>, <<"a", "b">>, <<"b", "a", "a">>},
        Sources <- Searched, Queries <- Asked, Ascii <- Codes, Urls <- Words({"1", "x", ":", "/"}, 4),
        Addresses <- Dotted, Masks <- SUBSET {"SHOW_HEXAD", "SHOW_ASCII", "SHOW_BINAR", "SHOW_LINER"},
        Rooms <- {1, 2, 3, 7, 20, 30, 40}, LINE <- 2

(***************************************************************************)
(* The encodings: up to three bytes, and some longer data; texts that no   *)
(* encoder wrote.                                                          *)
(***************************************************************************)
Bytes == Words({0, 1, 99, 255}, 3) \cup {<<1, 2, 3, 4>>, <<0, 0, 255, 255>>, <<200, 0, 7, 0>>, <<9, 8, 7, 6, 5>>}
Foreign == Words({0, 1, 57, 63, 64, 65}, 3)
           \cup {<<1, 2, 3, 4>>, <<1, 2, 3, 4, 5>>, <<1, 2, 3, 4, 5, 6>>, <<1, 2, 3, 4, 5, 64, 64, 64>>, <<1, 2, 3, 4, 64, 9>>}
Sha(d) == LET n == SumSet({k * d[k] : k \in 1..Len(d)}) IN <<1 + (n % 255), (n * 7) % 256, 0, (n \div 3) % 256>>
E == INSTANCE Encodings WITH
        Data <- Bytes, Texts <- Foreign, Rooms <- {0, 1, 2, 3, 4, 5, 9, 10}, WORD <- 2, DoubleSha <- Sha

-----------------------------------------------------------------------------
CheckerOff == text = <<>> /\ jc = <<>> /\ result = "off"
JsmnOff == js = <<>> /\ len = 0 /\ pool = 0 /\ parser = <<>> /\ count = 0 /\ ret = "off"
IniOff == /\ rest = <<>> /\ section = <<>> /\ prev_name = <<>> /\ lineno = 0 /\ error = 0
          /\ read = <<>> /\ pairs = <<>>
CallOff == uri = "" /\ isConnect = FALSE /\ meant = <<>> /\ parsed = <<>>
UrlOff == url = <<>> /\ curstr = <<>> /\ purl = <<>> /\ at = "off" /\ heap = {} /\ starved = FALSE
StrOff == mem = <<>> /\ given = <<>> /\ call = <<>> /\ returned = <<>>
EncOff == coding = "off" /\ data = <<>> /\ room = 0 /\ written = <<>> /\ answer = <<>> /\ step = "off"

InitTexts ==
  /\ Init
  /\ \/ part = "checker" /\ C!InitChecker /\ JsmnOff /\ IniOff /\ UrlOff /\ CallOff /\ StrOff /\ EncOff
     \/ part = "jsmn" /\ K!InitJsmn /\ CheckerOff /\ IniOff /\ UrlOff /\ CallOff /\ StrOff /\ EncOff
     \/ part = "ini" /\ I!InitIni /\ CheckerOff /\ JsmnOff /\ UrlOff /\ CallOff /\ StrOff /\ EncOff
     \/ part = "url" /\ U!InitUrl /\ CheckerOff /\ JsmnOff /\ IniOff /\ CallOff /\ StrOff /\ EncOff
     \/ part = "http url" /\ H!Init /\ CheckerOff /\ JsmnOff /\ IniOff /\ UrlOff /\ StrOff /\ EncOff
     \/ part = "strings" /\ S!Init /\ CheckerOff /\ JsmnOff /\ IniOff /\ UrlOff /\ CallOff /\ EncOff
     \/ part = "encodings" /\ E!Init /\ CheckerOff /\ JsmnOff /\ IniOff /\ UrlOff /\ CallOff /\ StrOff
     \/ part = "adlc" /\ CheckerOff /\ JsmnOff /\ IniOff /\ UrlOff /\ CallOff /\ StrOff /\ EncOff

AdlcSteps == /\ part = "adlc" /\ Next
             /\ UNCHANGED <<part, checkerVars, jsmnVars, iniVars, urlVars, callVars, strVars, codingVars>>
CheckerSteps == /\ part = "checker" /\ C!NextChecker
                /\ UNCHANGED <<part, vars, jsmnVars, iniVars, urlVars, callVars, strVars, codingVars>>
JsmnSteps == /\ part = "jsmn" /\ K!NextJsmn
             /\ UNCHANGED <<part, vars, checkerVars, iniVars, urlVars, callVars, strVars, codingVars>>
IniSteps == /\ part = "ini" /\ I!ReadLine
            /\ UNCHANGED <<part, vars, checkerVars, jsmnVars, urlVars, callVars, strVars, codingVars>>
UrlSteps == /\ part = "url" /\ U!NextUrl
            /\ UNCHANGED <<part, vars, checkerVars, jsmnVars, iniVars, callVars, strVars, codingVars>>
HttpUrlCalls == /\ part = "http url" /\ H!Parse
                /\ UNCHANGED <<part, vars, checkerVars, jsmnVars, iniVars, urlVars, strVars, codingVars>>
StringCalls == /\ part = "strings" /\ S!Next
               /\ UNCHANGED <<part, vars, checkerVars, jsmnVars, iniVars, urlVars, callVars, codingVars>>
Codings == /\ part = "encodings" /\ E!Next
           /\ UNCHANGED <<part, vars, checkerVars, jsmnVars, iniVars, urlVars, callVars, strVars>>

NextTexts == AdlcSteps \/ CheckerSteps \/ JsmnSteps \/ IniSteps \/ UrlSteps \/ HttpUrlCalls \/ StringCalls \/ Codings

\* The loop of a call of adlc_ondata runs until it returns.
SpecTexts ==
  /\ InitTexts
  /\ [][NextTexts]_<<part, vars, checkerVars, jsmnVars, iniVars, urlVars, callVars, strVars, codingVars>>
  /\ WF_vars(part = "adlc" /\ Run)

-----------------------------------------------------------------------------
\* json_checker accepts a text exactly when the grammar of JSON derives it with less than DEPTH brackets
\* open at a time, and rejects one at the first character after which nothing can make it one.
AcceptsJson == part = "checker" => C!AcceptsJson

\* However the text was cut and however often the pool had to be enlarged, the tokens of jsmn_parse are
\* those of the text, each once and in their order, with the sizes of what they stand for; an error is
\* returned only when it is one.
TokensAreTheTexts == part = "jsmn" => K!TokensAreTheTexts

\* The handler of ini_parse is told each pair of the file, and each line that the code takes for the
\* continuation of one, once, in order, with its section; the result is the number of the first line
\* that is wrong or that the handler refused.
ToldTheFile == part = "ini" => I!ToldTheFile

\* A line with leading white space behind a pair continues its value, the handler being called with the
\* same name (ini.h:93).
ContinuationsAreTold == part = "ini" => I!ContinuationsAreTold

\* The fields of a URL that was parsed are its parts in order and make it up again, in ez_parse_url and in
\* http_parser_parse_url; whatever allocation of the first failed, nothing is left allocated.
UrlIsItsFields == /\ part = "url" => U!UrlIsItsFields
                  /\ part = "http url" => H!HttpUrlIsItsFields

\* Every string function makes of the string what it promises, within the string's own memory and the
\* room it was given.
StringsAreRight == part = "strings" => S!StringsAreRight

\* A text that an encoder wrote stands for the data, is written exactly when it fits, and is decoded back
\* to them; the lengths announced are enough, but for base58_decode_length.
TextsStandForTheirData == part = "encodings" => E!TextsStandForTheirData

\* A buffer of base58_decode_length takes what a text of base58_encode decodes to
\* (tutorial_libezutil/base58.c:105).
DecodeLengthSuffices == part = "encodings" => E!DecodeLengthSuffices
=============================================================================
