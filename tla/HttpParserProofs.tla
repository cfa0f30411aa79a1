-------------------------- MODULE HttpParserProofs --------------------------
(***************************************************************************)
(* The assertions of http_parser_execute and the limit on headers, for     *)
(* every stream, every way of cutting it into calls and every answer of    *)
(* the callbacks.                                                          *)
(***************************************************************************)
EXTENDS HttpParser, SequenceTheorems, FiniteSetTheorems, NaturalsInduction, WellFoundedInduction, TLAPS

(***************************************************************************)
(* The invariant.                                                          *)
(***************************************************************************)
\* The fields of h.
HFields == {"type", "lenient", "flags", "method", "status_code", "http_major", "http_minor", "index",
            "header_state", "content_length", "upgrade"}

\* What header_state may be in a value.
InValue == {"h_general", "h_content_length_num", "h_content_length_ws",
            "h_matching_transfer_encoding_token_start", "h_matching_transfer_encoding_chunked",
            "h_matching_transfer_encoding_token", "h_transfer_encoding_chunked",
            "h_matching_connection_token_start", "h_matching_connection_token",
            "h_matching_connection_keep_alive", "h_matching_connection_close", "h_matching_connection_upgrade",
            "h_connection_keep_alive", "h_connection_close", "h_connection_upgrade"}

ChunkHeads == {"s_chunk_size_start", "s_chunk_size", "s_chunk_parameters", "s_chunk_size_almost_done"}
ChunkBodies == {"s_chunk_data", "s_chunk_data_almost_done", "s_chunk_data_done"}

\* What h says of the message in state s.
Says(s, m) ==
    /\ DOMAIN m = HFields /\ m.content_length \in 0..ULLONG_MAX
    /\ s \in ChunkHeads \cup ChunkBodies => "F_CHUNKED" \in m.flags
    /\ s \in (ChunkHeads \ {"s_chunk_size_start"}) \cup {"s_chunk_data", "s_body_identity"} => m.content_length # ULLONG_MAX
    /\ s \in {"s_chunk_data", "s_body_identity"} => m.content_length # 0
    /\ s = "s_chunk_data_almost_done" => m.content_length = 0
    /\ s = "s_header_value" => m.header_state \in InValue

\* The states in which the text f may be under way.
During == [header_field |-> {"s_header_field"}, header_value |-> {"s_header_value"},
           url |-> ServerUrlStates \cup UrlStates, status |-> {"s_res_status"},
           body |-> {"s_body_identity", "s_body_identity_eof", "s_chunk_data", "s_chunk_data_almost_done"}]

Places ==
    /\ line \in Lines /\ from \in 0..Len(Data) /\ end \in 0..Len(Data) /\ at \in 0..Len(Data) + 1
    /\ nread \in Nat /\ saved \in Nat /\ pauses \in Nat /\ again \in BOOLEAN
    /\ at # 0 => from < at /\ at <= end + 1 /\ errno = "OK"
    /\ at = 0 => ~again

Marking ==
    /\ marks \in [Fields -> Nat]
    /\ at = 0 => marks = NoMarks
    /\ \A f \in Fields : marks[f] # 0 => state \in During[f] /\ marks[f] <= at

Alive == errno \in {"OK", "PAUSED"}

\* The head of a chunk is counted from its first byte.
FromZero == Alive /\ state = "s_chunk_size_start" => nread = 0 /\ ~again

\* Between the beginning of a message and the end of its headers.
Heading(s, m) ==
    /\ s \notin StartStates \cup BodyStates \cup ChunkHeads \cup {"s_headers_done"}
    /\ "F_TRAILING" \notin m.flags

\* b bytes of the header are told, the byte at p is next, and it is counted already if it is seen again.
Fits(b, p, last, seen, mk, n) ==
    LET a == IF seen /\ p <= last THEN 1 ELSE 0
    IN  b + a <= n /\ \A f \in Fields : mk[f] # 0 => b + (p - mk[f]) + a <= n

Budget ==
    pauses = 0 /\ Alive /\ Heading(state, h) => Fits(HeaderBytes[Len(told)], at, end, again, marks, nread)

\* What is told is a sequence of calls of callbacks, the texts that may come in pieces are sequences.
Recorded(e) == DOMAIN e = {"cb", "text"} /\ e.cb \in Callbacks /\ (e.cb \in Fields => e.text \in Seq(STRING))
IsTelling(t) == (\E S : t \in Seq(S)) /\ \A i \in 1..Len(t) : Recorded(t[i])

AllSmall == \A i \in 1..Len(told) : told[i].cb = "headers_complete" => HeaderBytes[i] <= MaxHeaderSize

IInv == /\ Places /\ Says(state, h) /\ Marking /\ FromZero /\ Budget
        /\ IsTelling(told) /\ (pauses = 0 => AllSmall)

-----------------------------------------------------------------------------
\* A set of natural numbers that is not empty has a least element.
LEMMA LeastNatural ==
    ASSUME NEW S \in SUBSET Nat, S # {}
    PROVE  \E s \in S : \A r \in S : s <= r
  <1>1. PICK s \in S : \A r \in S : ~(<<r, s>> \in OpToRel(<, Nat))
    BY NatLessThanWellFounded, WFMin
  <1>2. \A r \in S : ~(r < s)
    BY <1>1 DEF OpToRel
  <1>3. QED
    BY <1>2

(***************************************************************************)
(* What was told: the bytes of a header.                                   *)
(***************************************************************************)
Size(e) == IF e.cb \in Fields THEN Len(e.text) ELSE 0

\* f counts the bytes of the texts in the first n of t since the last message began.
Counts(f, t, n) ==
    f = [i \in 0..n |-> IF i = 0 THEN 0
                        ELSE IF t[i].cb = "message_begin" THEN 0 ELSE f[i - 1] + Size(t[i])]

\* There is such a function: the definition of HeaderBytes defines something.
LEMMA CountsExists ==
    ASSUME NEW t, NEW n \in Nat
    PROVE  \E f : Counts(f, t, n)
  <1> DEFINE Bad == {m \in Nat : ~\E f : Counts(f, t, m)}
  <1> SUFFICES ASSUME n \in Bad PROVE FALSE
    OBVIOUS
  <1>1. PICK m \in Bad : \A r \in Bad : m <= r
    <2>1. Bad \in SUBSET Nat /\ Bad # {}
      OBVIOUS
    <2> HIDE DEF Bad
    <2>2. QED
      BY <2>1, LeastNatural
  <1>2. CASE m = 0
    <2>1. Counts([i \in 0..0 |-> 0], t, 0)
      BY DEF Counts
    <2>2. QED
      BY <1>2, <2>1
  <1>3. CASE m # 0
    <2>1. m - 1 \in Nat /\ ~(m <= m - 1)
      BY <1>3
    <2>2. m - 1 \notin Bad
      BY <1>1, <2>1
    <2>3. PICK f : Counts(f, t, m - 1)
      BY <2>1, <2>2
    <2> DEFINE v(i, b) == IF i = 0 THEN 0 ELSE IF t[i].cb = "message_begin" THEN 0 ELSE b + Size(t[i])
    <2>4. PICK g : g = [i \in 0..m |-> IF i < m THEN f[i] ELSE v(m, f[m - 1])]
      OBVIOUS
    <2>5. f = [i \in 0..(m - 1) |-> v(i, f[i - 1])]
      BY <2>3 DEF Counts
    <2> HIDE DEF v
    <2>6. \A i \in 0..m : g[i] = v(i, g[i - 1])
      <3>1. \A i \in 0..m : i < m => g[i] = f[i] /\ f[i] = v(i, f[i - 1])
        BY <2>1, <2>4, <2>5
      <3>2. \A i \in 1..m : g[i - 1] = f[i - 1]
        BY <2>1, <2>4
      <3>3. g[m] = v(m, g[m - 1])
        BY <1>3, <2>1, <2>4, <3>2
      <3>4. \A b : v(0, b) = 0
        BY DEF v
      <3>5. QED
        BY <3>1, <3>2, <3>3, <3>4
    <2>7. g = [i \in 0..m |-> v(i, g[i - 1])]
      <3>1. DOMAIN g = 0..m /\ g = [i \in 0..m |-> g[i]]
        BY <2>4
      <3>2. QED
        BY <2>6, <3>1
    <2>8. Counts(g, t, m)
      BY <2>7 DEF Counts, v
    <2>9. QED
      BY <2>8
  <1>4. QED
    BY <1>2, <1>3

\* The entries one by one.
LEMMA CountsAre ==
    ASSUME NEW f, NEW t, NEW n \in Nat, Counts(f, t, n)
    PROVE  /\ f[0] = 0
           /\ \A i \in 1..n : f[i] = IF t[i].cb = "message_begin" THEN 0 ELSE f[i - 1] + Size(t[i])
  <1>1. \A i \in 0..n : f[i] = IF i = 0 THEN 0
                               ELSE IF t[i].cb = "message_begin" THEN 0 ELSE f[i - 1] + Size(t[i])
    BY DEF Counts
  <1>2. QED
    BY <1>1

\* Counts are natural, and what is equal counts alike.
LEMMA CountsAgree ==
    ASSUME NEW f, NEW t, NEW n \in Nat, Counts(f, t, n), NEW g, NEW u, NEW k \in Nat, Counts(g, u, k),
           NEW m \in Nat, m <= n, m <= k, \A i \in 1..m : t[i] = u[i] /\ Recorded(t[i])
    PROVE  \A i \in 0..m : f[i] \in Nat /\ g[i] = f[i]
  <1> DEFINE Bad == {i \in 0..m : ~(f[i] \in Nat /\ g[i] = f[i])}
  <1> SUFFICES ASSUME Bad # {} PROVE FALSE
    OBVIOUS
  <1>1. PICK i \in Bad : \A r \in Bad : i <= r
    <2>1. Bad \in SUBSET Nat
      OBVIOUS
    <2> HIDE DEF Bad
    <2>2. QED
      BY <2>1, LeastNatural
  <1>2. i \in 0..m /\ ~(f[i] \in Nat /\ g[i] = f[i])
    BY <1>1
  <1>3. f[0] = 0 /\ g[0] = 0
    BY CountsAre
  <1>4. i \in 1..m /\ i - 1 \in 0..m /\ i - 1 < i
    BY <1>2, <1>3
  <1>5. f[i - 1] \in Nat /\ g[i - 1] = f[i - 1]
    BY <1>1, <1>4
  <1>6. t[i] = u[i] /\ Recorded(t[i])
    BY <1>4
  <1>7. Size(t[i]) \in Nat
    BY <1>6, LenProperties DEF Recorded, Size
  <1>8. /\ f[i] = IF t[i].cb = "message_begin" THEN 0 ELSE f[i - 1] + Size(t[i])
        /\ g[i] = IF u[i].cb = "message_begin" THEN 0 ELSE g[i - 1] + Size(u[i])
    <2>1. i \in 1..n /\ i \in 1..k
      BY <1>4
    <2>2. QED
      BY <2>1, CountsAre
  <1>9. QED
    BY <1>2, <1>5, <1>6, <1>7, <1>8

\* HeaderBytes counts what is told.
LEMMA BytesCount ==
    ASSUME IsTelling(told)
    PROVE  Len(told) \in Nat /\ Counts(HeaderBytes, told, Len(told)) /\ \A i \in 0..Len(told) : HeaderBytes[i] \in Nat
  <1>1. Len(told) \in Nat
    BY LenProperties DEF IsTelling
  <1>2. Counts(HeaderBytes, told, Len(told))
    BY <1>1, CountsExists DEF HeaderBytes, Counts, Size
  <1>3. \A i \in 1..Len(told) : told[i] = told[i] /\ Recorded(told[i])
    BY DEF IsTelling
  <1>4. \A i \in 0..Len(told) : HeaderBytes[i] \in Nat
    BY <1>1, <1>2, <1>3, CountsAgree
  <1>5. QED
    BY <1>1, <1>2, <1>4

\* So it does after a step.
LEMMA BytesCountNext ==
    ASSUME IsTelling(told')
    PROVE  Len(told') \in Nat /\ Counts(HeaderBytes', told', Len(told'))
  <1>1. Len(told') \in Nat
    BY LenProperties DEF IsTelling
  <1>2. Counts(HeaderBytes', told', Len(told'))
    BY <1>1, CountsExists DEF HeaderBytes, Counts, Size
  <1>3. QED
    BY <1>1, <1>2

\* What telling adds: a call of a callback, or a piece to the text of the last one.
LEMMA TellAdds ==
    ASSUME IsTelling(told), NEW cb \in Callbacks, NEW text, cb \in Fields => text \in Seq(STRING)
    PROVE  LET u == Tell(cb, text)
               n == Len(told)
               joined == cb \in Fields /\ n > 0 /\ told[n].cb = cb
           IN  /\ IsTelling(u)
               /\ IF joined
                  THEN /\ Len(u) = n /\ u[n].cb = cb /\ Size(u[n]) = Size(told[n]) + Len(text)
                       /\ \A i \in 1..n - 1 : u[i] = told[i]
                  ELSE Len(u) = n + 1 /\ u[n + 1] = [cb |-> cb, text |-> text] /\ \A i \in 1..n : u[i] = told[i]
  <1>1. PICK S : told \in Seq(S)
    BY DEF IsTelling
  <1>2. PICK n \in Nat : n = Len(told)
    BY <1>1, LenProperties
  <1>3. PICK u : u = Tell(cb, text)
    OBVIOUS
  <1>4. CASE cb \in Fields /\ n > 0 /\ told[n].cb = cb
    <2>1. Recorded(told[n]) /\ n \in 1..n
      BY <1>2, <1>4 DEF IsTelling
    <2>2. PICK old : old = told[n].text
      OBVIOUS
    <2>3. old \in Seq(STRING) /\ text \in Seq(STRING)
      BY <1>4, <2>1, <2>2 DEF Recorded
    <2>4. old \o text \in Seq(STRING) /\ Len(old \o text) = Len(old) + Len(text)
      BY <2>3, ConcatProperties
    <2>5. PICK e : e = [told[n] EXCEPT !.text = @ \o text]
      OBVIOUS
    <2>6. Recorded(e) /\ e.cb = cb /\ e.text = old \o text
      BY <1>4, <2>1, <2>2, <2>4, <2>5 DEF Recorded
    <2>7. u = [told EXCEPT ![n] = e]
      BY <1>2, <1>3, <1>4, <2>5 DEF Tell
    <2>8. told \in Seq(S \cup {e}) /\ e \in S \cup {e}
      BY <1>1, SeqMonotonic
    <2>9. /\ u \in Seq(S \cup {e}) /\ Len(u) = n
          /\ \A i \in 1..n : u[i] = IF i = n THEN e ELSE told[i]
      BY <1>2, <2>1, <2>7, <2>8, ExceptSeq
    <2>10. \A i \in 1..n : Recorded(u[i])
      BY <1>2, <2>6, <2>9 DEF IsTelling
    <2>11. IsTelling(u)
      BY <2>9, <2>10 DEF IsTelling
    <2>12. Size(e) = Size(told[n]) + Len(text)
      BY <1>4, <2>2, <2>4, <2>6 DEF Size
    <2>13. u[n] = e /\ \A i \in 1..n - 1 : u[i] = told[i]
      BY <2>1, <2>9
    <2>14. QED
      BY <1>2, <1>3, <1>4, <2>6, <2>9, <2>11, <2>12, <2>13
  <1>5. CASE ~(cb \in Fields /\ n > 0 /\ told[n].cb = cb)
    <2>1. PICK e : e = [cb |-> cb, text |-> text]
      OBVIOUS
    <2>2. u = Append(told, e)
      BY <1>2, <1>3, <1>5, <2>1 DEF Tell
    <2>3. told \in Seq(S \cup {e}) /\ e \in S \cup {e}
      BY <1>1, SeqMonotonic
    <2>4. /\ u \in Seq(S \cup {e}) /\ Len(u) = n + 1 /\ u[n + 1] = e
          /\ \A i \in 1..n : u[i] = told[i]
      BY <1>2, <2>2, <2>3, AppendProperties
    <2>5. Recorded(e)
      BY <2>1 DEF Recorded
    <2>6. \A i \in 1..n + 1 : Recorded(u[i])
      BY <1>2, <2>4, <2>5 DEF IsTelling
    <2>7. IsTelling(u)
      BY <2>4, <2>6 DEF IsTelling
    <2>8. QED
      BY <1>2, <1>3, <1>5, <2>1, <2>4, <2>7
  <1>6. QED
    BY <1>4, <1>5

\* What telling does to the bytes of the header.
LEMMA TellCounts ==
    ASSUME IsTelling(told), NEW cb \in Callbacks, NEW text, cb \in Fields => text \in Seq(STRING),
           told' = Tell(cb, text)
    PROVE  /\ IsTelling(told')
           /\ HeaderBytes[Len(told)] \in Nat
           /\ HeaderBytes'[Len(told')] = IF cb = "message_begin" THEN 0
                                         ELSE HeaderBytes[Len(told)] + (IF cb \in Fields THEN Len(text) ELSE 0)
           /\ AllSmall /\ (cb = "headers_complete" => HeaderBytes[Len(told)] <= MaxHeaderSize) => AllSmall'
  <1>1. PICK u : u = told'
    OBVIOUS
  <1>2. PICK n \in Nat : n = Len(told)
    BY BytesCount
  <1>3. /\ IsTelling(u)
        /\ IF cb \in Fields /\ n > 0 /\ told[n].cb = cb
           THEN /\ Len(u) = n /\ u[n].cb = cb /\ Size(u[n]) = Size(told[n]) + Len(text)
                /\ \A i \in 1..n - 1 : u[i] = told[i]
           ELSE Len(u) = n + 1 /\ u[n + 1] = [cb |-> cb, text |-> text] /\ \A i \in 1..n : u[i] = told[i]
    BY <1>1, <1>2, TellAdds
  <1>4. PICK f : f = HeaderBytes
    OBVIOUS
  <1>5. PICK g : g = HeaderBytes'
    OBVIOUS
  <1>6. Counts(f, told, n) /\ \A i \in 0..n : f[i] \in Nat
    BY <1>2, <1>4, BytesCount
  <1>7. Len(u) \in Nat /\ Counts(g, u, Len(u))
    BY <1>1, <1>3, <1>5, BytesCountNext
  <1>8. \A i \in 1..n : Recorded(told[i])
    BY <1>2 DEF IsTelling
  <1>9. CASE cb \in Fields /\ n > 0 /\ told[n].cb = cb
    <2>1. Len(u) = n /\ u[n].cb = cb /\ Size(u[n]) = Size(told[n]) + Len(text) /\ \A i \in 1..n - 1 : u[i] = told[i]
      BY <1>3, <1>9
    <2>2. \A i \in 0..n - 1 : g[i] = f[i]
      <3>1. PICK m : m = n - 1
        OBVIOUS
      <3>2. m \in Nat /\ m <= n /\ \A i \in 1..m : told[i] = u[i] /\ Recorded(told[i])
        BY <1>8, <1>9, <2>1, <3>1
      <3>3. Counts(g, u, n) /\ Counts(f, told, n)
        BY <1>6, <1>7, <2>1
      <3>4. \A i \in 0..m : f[i] \in Nat /\ g[i] = f[i]
        BY <3>2, <3>3, CountsAgree
      <3>5. QED
        BY <3>1, <3>4
    <2>3. n \in 1..n /\ n - 1 \in 0..n - 1 /\ cb # "message_begin" /\ cb # "headers_complete"
      BY <1>9 DEF Fields
    <2>4. /\ f[n] = IF told[n].cb = "message_begin" THEN 0 ELSE f[n - 1] + Size(told[n])
          /\ g[n] = IF u[n].cb = "message_begin" THEN 0 ELSE g[n - 1] + Size(u[n])
      BY <1>6, <1>7, <2>1, <2>3, CountsAre
    <2>5. f[n - 1] \in Nat /\ Size(told[n]) \in Nat /\ Len(text) \in Nat
      <3>1. Size(told[n]) \in Nat
        BY <1>8, <1>9, <2>3, LenProperties DEF Size, Recorded
      <3>2. QED
        BY <1>6, <1>9, <2>3, <3>1, LenProperties
    <2>6. g[n] = f[n] + Len(text)
      BY <1>9, <2>1, <2>2, <2>3, <2>4, <2>5
    <2>7. ASSUME AllSmall PROVE AllSmall'
      <3>1. \A i \in 1..n : told[i].cb = "headers_complete" => f[i] <= MaxHeaderSize
        BY <1>2, <1>4, <2>7 DEF AllSmall
      <3>2. \A i \in 1..n : u[i].cb = "headers_complete" => g[i] <= MaxHeaderSize
        <4>1. \A i \in 1..n : i # n => i \in 1..n - 1 /\ i \in 0..n - 1
          OBVIOUS
        <4>2. QED
          BY <2>1, <2>2, <2>3, <3>1, <4>1
      <3>3. QED
        BY <1>1, <1>5, <2>1, <3>2 DEF AllSmall
    <2>8. QED
      BY <1>1, <1>2, <1>3, <1>4, <1>5, <1>6, <1>9, <2>1, <2>3, <2>6, <2>7
  <1>10. CASE ~(cb \in Fields /\ n > 0 /\ told[n].cb = cb)
    <2>1. Len(u) = n + 1 /\ u[n + 1] = [cb |-> cb, text |-> text] /\ \A i \in 1..n : u[i] = told[i]
      BY <1>3, <1>10
    <2>2. \A i \in 0..n : g[i] = f[i]
      <3>1. \A i \in 1..n : told[i] = u[i] /\ Recorded(told[i])
        BY <1>8, <2>1
      <3>2. PICK k : k = n + 1
        OBVIOUS
      <3>3. n <= n /\ n <= k /\ k \in Nat /\ Counts(g, u, k)
        BY <1>7, <2>1, <3>2
      <3>4. \A i \in 0..n : f[i] \in Nat /\ g[i] = f[i]
        BY <1>6, <3>1, <3>3, CountsAgree
      <3>5. QED
        BY <3>4
    <2>3. g[n + 1] = IF cb = "message_begin" THEN 0 ELSE f[n] + (IF cb \in Fields THEN Len(text) ELSE 0)
      <3>1. n + 1 \in 1..n + 1 /\ (n + 1) - 1 = n
        OBVIOUS
      <3>2. g[n + 1] = IF u[n + 1].cb = "message_begin" THEN 0 ELSE g[n] + Size(u[n + 1])
        BY <1>7, <2>1, <3>1, CountsAre
      <3>3. QED
        BY <2>1, <2>2, <3>2 DEF Size
    <2>4. ASSUME AllSmall, cb = "headers_complete" => f[n] <= MaxHeaderSize PROVE AllSmall'
      <3>1. \A i \in 1..n : told[i].cb = "headers_complete" => f[i] <= MaxHeaderSize
        BY <1>2, <1>4, <2>4 DEF AllSmall
      <3>2. \A i \in 1..n : u[i].cb = "headers_complete" => g[i] <= MaxHeaderSize
        BY <2>1, <2>2, <3>1
      <3>3. u[n + 1].cb = "headers_complete" => g[n + 1] <= MaxHeaderSize
        <4>1. "headers_complete" \notin Fields /\ "headers_complete" # "message_begin"
          BY DEF Fields
        <4>2. f[n] \in Nat
          BY <1>6
        <4>3. QED
          BY <2>1, <2>3, <2>4, <4>1, <4>2
      <3>4. \A i \in 1..n + 1 : u[i].cb = "headers_complete" => g[i] <= MaxHeaderSize
        BY <3>2, <3>3
      <3>5. QED
        BY <1>1, <1>5, <2>1, <3>4 DEF AllSmall
    <2>5. QED
      BY <1>1, <1>2, <1>3, <1>4, <1>5, <1>6, <2>1, <2>3, <2>4
  <1>11. QED
    BY <1>9, <1>10

-----------------------------------------------------------------------------
(***************************************************************************)
(* The steps of the loop in general.                                       *)
(***************************************************************************)
One(a) == IF a THEN 1 ELSE 0

\* No text is under way in state s.
Unmarked(s) == \A f \in Fields : s \notin During[f]

Special == ChunkHeads \cup ChunkBodies \cup {"s_body_identity", "s_header_value"}

\* What h says in a state of which nothing is asked.
LEMMA SaysPlain ==
    ASSUME NEW s, s \notin Special, NEW m, DOMAIN m = HFields, m.content_length \in 0..ULLONG_MAX
    PROVE  Says(s, m)
  BY DEF Says, Special, ChunkHeads, ChunkBodies

\* The bounds are natural numbers.
LEMMA Bounds == ULLONG_MAX \in Nat /\ ULLONG_MAX >= 16 /\ MaxHeaderSize \in Nat /\ MaxPauses \in Nat
  BY BoundAssumption

\* The stream is a sequence of characters.
LEMMA DataIsText ==
    ASSUME Places
    PROVE  Data \in Seq(STRING) /\ Len(Data) \in Nat
  BY LinesAssumption, LenProperties DEF Places, Data

\* The places of the parser are natural numbers.
LEMMA PlacesNat ==
    ASSUME Places
    PROVE  /\ Len(Data) \in Nat /\ from \in Nat /\ end \in Nat /\ at \in Nat /\ nread \in Nat /\ saved \in Nat
           /\ from <= Len(Data) /\ end <= Len(Data) /\ at <= Len(Data) + 1 /\ again \in BOOLEAN /\ pauses \in Nat
           /\ line \in Lines
  BY DataIsText DEF Places

\* The end of a call.
LEMMA Returns ==
    ASSUME IInv, NEW q \in 0..Len(Data), NEW n \in Nat, Return(q, n), pauses' \in Nat, Says(state', h'),
           IsTelling(told'), pauses' = 0 => AllSmall',
           Alive' /\ state' = "s_chunk_size_start" => n = 0,
           pauses' = 0 /\ Alive' /\ Heading(state', h') => HeaderBytes'[Len(told')] <= n,
           HeaderBytes'[Len(told')] \in Nat
    PROVE  IInv'
  <1>1. /\ from' = q /\ saved' = n /\ nread' = n /\ at' = 0 /\ end' = 0 /\ again' = FALSE /\ marks' = NoMarks
        /\ line' = line /\ Data' = Data
    BY DEF Return, Data
  <1>2. Len(Data) \in Nat /\ line \in Lines
    BY PlacesNat DEF IInv
  <1>3. Places'
    <2>1. /\ line' \in Lines /\ nread' \in Nat /\ saved' \in Nat /\ again' \in BOOLEAN
          /\ from' \in 0..Len(Data')
      BY <1>1, <1>2
    <2>3. Len(Data') \in Nat /\ at' = 0 /\ end' = 0
      BY <1>1, <1>2
    <2>4. end' \in 0..Len(Data') /\ at' \in 0..Len(Data') + 1
      BY <2>3
    <2>2. at' = 0 /\ ~again'
      BY <1>1
    <2>5. QED
      BY <2>1, <2>2, <2>4 DEF Places
  <1>4. Marking'
    BY <1>1 DEF Marking, NoMarks
  <1>5. FromZero'
    BY <1>1 DEF FromZero
  <1>6. Budget'
    <2>1. \A f \in Fields : marks'[f] = 0
      BY <1>1 DEF NoMarks
    <2>2. SUFFICES ASSUME pauses' = 0, Alive', Heading(state', h')
                   PROVE  Fits(HeaderBytes'[Len(told')], at', end', again', marks', nread')
      BY DEF Budget
    <2>3. HeaderBytes'[Len(told')] + 0 <= n
      BY <2>2
    <2>4. QED
      BY <1>1, <2>1, <2>3 DEF Fits
  <1>7. QED
    BY <1>3, <1>4, <1>5, <1>6 DEF IInv

\* What is told stays as it is.
LEMMA ToldRests ==
    ASSUME IsTelling(told), told' = told
    PROVE  /\ IsTelling(told') /\ HeaderBytes' = HeaderBytes
           /\ HeaderBytes'[Len(told')] = HeaderBytes[Len(told)] /\ HeaderBytes[Len(told)] \in Nat
           /\ (AllSmall' <=> AllSmall)
  <1>1. IsTelling(told')
    BY DEF IsTelling
  <1>2. HeaderBytes' = HeaderBytes
    BY DEF HeaderBytes
  <1>3. HeaderBytes[Len(told)] \in Nat
    BY BytesCount
  <1>4. QED
    BY <1>1, <1>2, <1>3 DEF AllSmall

\* A step that fails: no call follows.
LEMMA FailAtKeeps ==
    ASSUME IInv, NEW q \in 1..Len(Data) + 1, NEW n \in Nat, NEW e, e \notin {"OK", "PAUSED"}, FailAt(q, n, e)
    PROVE  IInv'
  <1>1. Return(q - 1, n) /\ errno' = e /\ UNCHANGED <<state, h, told, pauses>>
    BY DEF FailAt
  <1>2. ~Alive'
    BY <1>1 DEF Alive
  <1>3. Len(Data) \in Nat /\ pauses \in Nat
    BY PlacesNat DEF IInv
  <1>4. PICK p : p = q - 1
    OBVIOUS
  <1>5. p \in 0..Len(Data) /\ Return(p, n)
    BY <1>1, <1>3, <1>4
  <1>6. Says(state', h')
    BY <1>1 DEF IInv
  <1>7. IsTelling(told') /\ HeaderBytes'[Len(told')] \in Nat /\ (pauses' = 0 => AllSmall')
    BY <1>1, ToldRests DEF IInv
  <1>8. QED
    BY <1>1, <1>2, <1>3, <1>5, <1>6, <1>7, Returns

\* Count is what nread was or one more.
LEMMA CountIs ==
    ASSUME Places
    PROVE  /\ Count \in Nat /\ nread <= Count
           /\ \A m : Heading(state, m) => Count = nread + 1 - One(again)
  <1>1. nread \in Nat /\ again \in BOOLEAN
    BY PlacesNat
  <1>2. \A m : Heading(state, m) => state \notin BodyStates
    BY DEF Heading
  <1>3. QED
    BY <1>1, <1>2 DEF Count, One

\* A failure at the byte at hand.
LEMMA FailKeeps ==
    ASSUME IInv, at # 0, at <= end, NEW e, e \notin {"OK", "PAUSED"}, Fail(e)
    PROVE  IInv'
  <1>1. at \in 1..Len(Data) + 1 /\ Count \in Nat
    BY PlacesNat, CountIs DEF IInv
  <1>2. QED
    BY <1>1, FailAtKeeps DEF Fail

\* What fits still fits when the step counts what it takes.
LEMMA StillFits ==
    ASSUME NEW b \in Nat, NEW p \in Nat, NEW last \in Nat, p <= last, NEW seen, NEW mk \in [Fields -> Nat],
           NEW n \in Nat, Fits(b, p, last, seen, mk, n),
           NEW r \in Nat, p <= r, NEW a, NEW k \in [Fields -> Nat], NEW m \in Nat,
           m >= n + (r - p) + One(a) - One(seen),
           \A f \in Fields : k[f] # 0 => k[f] = mk[f] \/ k[f] >= p
    PROVE  Fits(b, r, last, a, k, m)
  <1>1. PICK x \in 0..1 : x = One(a)
    BY DEF One
  <1>2. PICK y \in 0..1 : y = One(seen)
    BY DEF One
  <1>3. b + y <= n /\ \A f \in Fields : mk[f] # 0 => b + (p - mk[f]) + y <= n
    BY <1>2 DEF Fits, One
  <1>4. PICK z \in 0..1 : z <= x /\ z = IF a /\ r <= last THEN 1 ELSE 0
    BY <1>1 DEF One
  <1>5. b + z <= m
    BY <1>1, <1>2, <1>3, <1>4
  <1>6. ASSUME NEW f \in Fields, k[f] # 0 PROVE b + (r - k[f]) + z <= m
    <2>1. k[f] \in Nat /\ mk[f] \in Nat
      OBVIOUS
    <2>2. CASE k[f] >= p
      BY <1>1, <1>2, <1>3, <1>4, <2>1, <2>2
    <2>3. CASE k[f] = mk[f]
      <3>1. b + (p - k[f]) + y <= n
        BY <1>3, <1>6, <2>3
      <3>2. QED
        BY <1>1, <1>2, <1>4, <2>1, <3>1
    <2>4. QED
      BY <1>6, <2>2, <2>3
  <1>7. QED
    BY <1>4, <1>5, <1>6 DEF Fits

\* A step of the loop that calls no callback.
LEMMA Moves ==
    ASSUME IInv, at # 0, at <= end, NEW s, NEW n \in Nat, NEW r \in at..end + 1, NEW a \in BOOLEAN,
           state' = s, nread' = n, saved' \in Nat, at' = r, again' = a, UNCHANGED cursor, Says(s, h'),
           marks' \in [Fields -> Nat],
           \A f \in Fields : marks'[f] # 0 =>
               s \in During[f] /\ marks'[f] <= r /\ (marks'[f] = marks[f] \/ marks'[f] >= at),
           s = "s_chunk_size_start" => n = 0 /\ ~a,
           Heading(s, h') => Heading(state, h) /\ n >= nread + (r - at) + One(a) - One(again)
    PROVE  IInv'
  <1>1. /\ line' = line /\ from' = from /\ end' = end /\ errno' = errno /\ told' = told /\ pauses' = pauses
        /\ Data' = Data
    BY DEF cursor, Data
  <1>2. /\ Len(Data) \in Nat /\ from \in Nat /\ end \in Nat /\ at \in Nat /\ nread \in Nat
        /\ end <= Len(Data) /\ again \in BOOLEAN
    BY PlacesNat DEF IInv
  <1>3. errno = "OK" /\ from < at
    BY DEF IInv, Places
  <1>4. Places'
    BY <1>1, <1>2, <1>3 DEF IInv, Places
  <1>5. Marking'
    <2>1. at' # 0
      BY <1>2
    <2>2. QED
      BY <2>1 DEF Marking
  <1>6. FromZero'
    BY DEF FromZero
  <1>7. /\ IsTelling(told') /\ HeaderBytes[Len(told)] \in Nat
        /\ HeaderBytes'[Len(told')] = HeaderBytes[Len(told)] /\ (AllSmall' <=> AllSmall)
    BY <1>1, ToldRests DEF IInv
  <1>8. Budget'
    <2>1. SUFFICES ASSUME pauses' = 0, Heading(state', h')
                   PROVE  Fits(HeaderBytes[Len(told)], r, end, a, marks', n)
      BY <1>1, <1>7 DEF Budget
    <2>2. Fits(HeaderBytes[Len(told)], at, end, again, marks, nread)
      BY <1>1, <1>3, <2>1 DEF IInv, Budget, Alive
    <2>3. marks \in [Fields -> Nat]
      BY DEF IInv, Marking
    <2>4. r \in Nat /\ at <= r /\ n >= nread + (r - at) + One(a) - One(again)
      BY <1>2, <2>1
    <2>5. \A f \in Fields : marks'[f] # 0 => marks'[f] = marks[f] \/ marks'[f] >= at
      OBVIOUS
    <2>6. PICK b \in Nat : b = HeaderBytes[Len(told)]
      BY <1>7
    <2>7. PICK k \in [Fields -> Nat] : k = marks'
      OBVIOUS
    <2>8. PICK mk \in [Fields -> Nat] : mk = marks
      BY <2>3
    <2>9. PICK p \in Nat, last \in Nat, c \in Nat, seen \in BOOLEAN : p = at /\ last = end /\ c = nread /\ seen = again
      BY <1>2
    <2>10. p <= last /\ p <= r
      BY <2>4, <2>9
    <2>11. Fits(b, p, last, seen, mk, c)
      BY <2>2, <2>6, <2>8, <2>9
    <2>12. n >= c + (r - p) + One(a) - One(seen)
      BY <2>4, <2>9
    <2>13. \A f \in Fields : k[f] # 0 => k[f] = mk[f] \/ k[f] >= p
      BY <2>5, <2>7, <2>8, <2>9
    <2>14. Fits(b, r, last, a, k, n)
      BY <2>4, <2>10, <2>11, <2>12, <2>13, StillFits, ZenonT(40)
    <2>15. QED
      BY <2>6, <2>7, <2>9, <2>14
  <1>9. QED
    BY <1>1, <1>4, <1>5, <1>6, <1>7, <1>8 DEF IInv

\* A step that fails in any way keeps the invariant.
LEMMA DeadKeeps ==
    ASSUME IInv, NEW q \in 0..Len(Data), NEW n \in Nat, Return(q, n), pauses' \in Nat, Says(state', h'), ~Alive',
           IsTelling(told'), HeaderBytes'[Len(told')] \in Nat, pauses' = 0 => AllSmall'
    PROVE  IInv'
  BY Returns

\* What is told of the header once the callback is told.
Told(cb, text) == IF cb = "message_begin" THEN 0
                  ELSE HeaderBytes[Len(told)] + (IF cb \in Fields THEN Len(text) ELSE 0)

\* A step that calls a callback, whatever it answers.
LEMMA CallbackKeeps ==
    ASSUME IInv, at # 0, at <= end + 1, NEW cb \in Callbacks, cb # "headers_complete",
           NEW text, cb \in Fields => text \in Seq(STRING), NEW s, NEW n \in Nat, NEW q \in at..end + 1,
           NEW adv \in BOOLEAN, q <= end \/ ~adv, Callback(cb, text, s, n, q, adv), Says(s, h'),
           \A f \in Fields \ {cb} : marks[f] = 0, s = "s_chunk_size_start" => n = 0 /\ adv,
           pauses = 0 /\ Heading(s, h') => Told(cb, text) + (IF ~adv /\ q <= end THEN 1 ELSE 0) <= n
    PROVE  IInv'
  <1>1. PICK taken : taken = IF adv THEN q ELSE q - 1
    OBVIOUS
  <1>2. state' = s /\ told' = Tell(cb, text)
    BY DEF Callback
  <1>3. /\ IsTelling(told') /\ HeaderBytes[Len(told)] \in Nat
        /\ HeaderBytes'[Len(told')] = Told(cb, text)
        /\ (pauses = 0 => AllSmall')
    BY <1>2, TellCounts DEF IInv, Told
  <1>4. PICK b \in Nat : b = Told(cb, text)
    <2>1. cb \in Fields => Len(text) \in Nat
      BY LenProperties
    <2>2. QED
      BY <1>3, <2>1 DEF Told
  <1>5. /\ Len(Data) \in Nat /\ end \in Nat /\ at \in Nat /\ nread \in Nat /\ saved \in Nat /\ end <= Len(Data)
        /\ pauses \in Nat /\ from \in Nat
    BY PlacesNat DEF IInv
  <1>6. at >= 1 /\ from < at /\ errno = "OK"
    BY <1>5 DEF IInv, Places
  <1>7. taken \in 0..Len(Data) /\ q - 1 \in 0..Len(Data) /\ taken + 1 \in at..end + 1 /\ q \in Nat /\ q >= 1 /\ taken \in Nat
    BY <1>1, <1>5, <1>6
  <1>8. Says(state', h') /\ HeaderBytes'[Len(told')] \in Nat /\ HeaderBytes'[Len(told')] = b
    BY <1>2, <1>3, <1>4
  <1>9. Stored(n) \in Nat /\ (n = 0 => Stored(n) = 0)
    BY <1>5 DEF Stored
  <1>10. CASE /\ at' = taken + 1 /\ again' = ~adv
              /\ nread' = n /\ saved' = Stored(n)
              /\ marks' = [f \in Fields |-> IF f = cb THEN 0 ELSE marks[f]]
              /\ UNCHANGED <<line, from, end, errno, pauses, ended>>
    <2>1. \A f \in Fields : marks'[f] = 0
      BY <1>10
    <2>2. marks' \in [Fields -> Nat]
      <3>1. marks \in [Fields -> Nat]
        BY DEF IInv, Marking
      <3>2. QED
        BY <1>10, <3>1
    <2>3. Data' = Data /\ Len(Data') = Len(Data)
      BY <1>10 DEF Data
    <2>4. Places'
      <3>1. at' \in Nat /\ at' # 0 /\ from' < at' /\ at' <= end' + 1 /\ at' <= Len(Data') + 1 /\ errno' = "OK"
        BY <1>5, <1>6, <1>7, <1>10, <2>3
      <3>2. at' \in 0..Len(Data') + 1
        BY <1>5, <2>3, <3>1
      <3>3. line' \in Lines /\ pauses' \in Nat /\ from' \in 0..Len(Data') /\ end' \in 0..Len(Data')
        BY <1>10, <2>3 DEF IInv, Places
      <3>4. nread' \in Nat /\ saved' \in Nat /\ again' \in BOOLEAN
        BY <1>9, <1>10
      <3>5. QED
        BY <3>1, <3>2, <3>3, <3>4 DEF Places
    <2>5. Marking'
      <3>1. at' # 0
        BY <1>7, <1>10
      <3>2. QED
        BY <2>1, <2>2, <3>1 DEF Marking
    <2>6. FromZero'
      <3>1. s = "s_chunk_size_start" => nread' = 0 /\ ~again'
        BY <1>10
      <3>2. QED
        BY <1>2, <3>1 DEF FromZero
    <2>7. Budget'
      <3>1. SUFFICES ASSUME pauses' = 0, Heading(state', h')
                     PROVE  Fits(HeaderBytes'[Len(told')], at', end', again', marks', nread')
        BY DEF Budget
      <3>2. b + (IF ~adv /\ q <= end THEN 1 ELSE 0) <= n
        BY <1>2, <1>4, <1>10, <3>1
      <3>3. again' /\ at' <= end' <=> ~adv /\ q <= end
        <4>1. CASE adv
          BY <1>10, <4>1
        <4>2. CASE ~adv
          <5>1. again'
            BY <1>10, <4>2
          <5>2. at' = q /\ end' = end
            BY <1>1, <1>7, <1>10, <4>2
          <5>3. QED
            BY <4>2, <5>1, <5>2
        <4>3. QED
          BY <4>1, <4>2
      <3>4. b + (IF again' /\ at' <= end' THEN 1 ELSE 0) <= n
        BY <3>2, <3>3
      <3>5. QED
        BY <1>8, <1>10, <2>1, <3>4 DEF Fits
    <2>8. pauses' = pauses
      BY <1>10
    <2>9. QED
      BY <1>3, <1>8, <2>4, <2>5, <2>6, <2>7, <2>8 DEF IInv
  <1>11. CASE errno' = "HEADER_OVERFLOW" /\ Return(q - 1, n) /\ UNCHANGED pauses
    <2>1. ~Alive'
      BY <1>11 DEF Alive
    <2>2. PICK p \in 0..Len(Data) : p = q - 1
      BY <1>7
    <2>3. Return(p, n) /\ pauses' = pauses
      BY <1>11, <2>2
    <2>4. QED
      BY <1>3, <1>5, <1>8, <2>1, <2>3, DeadKeeps
  <1>12. CASE Paused(taken, Stored(n))
    <2>1. Return(taken, Stored(n)) /\ pauses' = pauses + 1 /\ pauses' # 0 /\ pauses' \in Nat
      BY <1>5, <1>12 DEF Paused
    <2>2. PICK k \in Nat : k = Stored(n)
      BY <1>9
    <2>3. Return(taken, k) /\ (state' = "s_chunk_size_start" => k = 0)
      BY <1>2, <1>9, <2>1, <2>2
    <2>4. QED
      BY <1>3, <1>7, <1>8, <2>1, <2>3, Returns
  <1>13. CASE Refused(cb, taken, n)
    <2>1. Return(taken, n) /\ pauses' = pauses /\ errno' = "CB_" \o cb
      BY <1>13 DEF Refused
    <2>2. ~Alive'
      BY <2>1, TextAssumption DEF Alive
    <2>3. QED
      BY <1>3, <1>5, <1>7, <1>8, <2>1, <2>2, DeadKeeps
  <1>14. QED
    BY <1>1, <1>10, <1>11, <1>12, <1>13 DEF Callback

\* The texts are under way in states of their own.
LEMMA Disjoint ==
    ASSUME NEW s, NEW f \in Fields, NEW g \in Fields, s \in During[f], s \in During[g]
    PROVE  f = g
  BY DEF Fields, During, ServerUrlStates, UrlStates, QueryStates, FragmentStates

\* Only the text under way is marked.
LEMMA OthersUnmarked ==
    ASSUME Marking, NEW f \in Fields, state \in During[f]
    PROVE  \A g \in Fields \ {f} : marks[g] = 0
  BY Disjoint DEF Marking

\* In a state without a text nothing is marked.
LEMMA NoneMarked ==
    ASSUME Marking, Unmarked(state)
    PROVE  \A f \in Fields : marks[f] = 0
  BY DEF Marking, Unmarked

\* The bytes from the mark on are told, or nothing is.
LEMMA DataKeeps ==
    ASSUME IInv, at # 0, at <= end, NEW f \in Fields, NEW s, NEW n \in Nat, NEW q \in at..end, NEW adv \in BOOLEAN,
           DataUpTo(f, q - 1, s, n, q, adv), Says(s, h'), state \in During[f], s # "s_chunk_size_start",
           Heading(s, h') => Heading(state, h) /\ n >= nread + (q - at) + 1 - One(again)
    PROVE  IInv'
  <1>1. /\ Len(Data) \in Nat /\ end \in Nat /\ at \in Nat /\ nread \in Nat /\ end <= Len(Data) /\ from \in Nat
        /\ again \in BOOLEAN /\ saved \in Nat /\ at >= 1
    BY PlacesNat DEF IInv
  <1>2. \A g \in Fields \ {f} : marks[g] = 0
    BY OthersUnmarked DEF IInv
  <1>3. marks \in [Fields -> Nat] /\ marks[f] <= at /\ marks[f] \in Nat
    BY <1>1 DEF IInv, Marking
  <1>4. q \in Nat /\ q <= end /\ at <= q
    BY <1>1
  <1>5. CASE marks[f] # 0
    <2>1. PICK k \in Nat : k = marks[f]
      BY <1>3
    <2>2. k >= 1 /\ k <= q
      BY <1>1, <1>3, <1>4, <1>5, <2>1
    <2>3. PICK text : text = SubSeq(Data, k, q - 1)
      OBVIOUS
    <2>4. text \in Seq(STRING) /\ Len(text) = q - k
      <3>1. PICK m : m = q - 1
        OBVIOUS
      <3>2. k \in 1..Len(Data) + 1 /\ m \in (k - 1)..Len(Data)
        BY <1>1, <1>4, <2>2, <3>1
      <3>3. Data \in Seq(STRING)
        BY DataIsText DEF IInv
      <3>4. SubSeq(Data, k, m) \in Seq(STRING) /\ Len(SubSeq(Data, k, m)) = IF k <= m THEN m - k + 1 ELSE 0
        <4>1. \A i \in k..m : Data[i] \in STRING
          <5>1. \A i \in k..m : i \in 1..Len(Data)
            BY <1>1, <3>2
          <5>2. QED
            BY <3>3, <5>1, ElementOfSeq
        <4>2. k \in Int /\ m \in Int
          BY <3>2
        <4>3. QED
          BY <3>2, <3>3, <4>1, <4>2, SubSeqProperties
      <3>5. QED
        BY <2>2, <2>3, <3>1, <3>4
    <2>5. Callback(f, text, s, n, q, adv)
      BY <1>5, <2>1, <2>3 DEF DataUpTo
    <2>6. ASSUME pauses = 0, Heading(s, h')
          PROVE  Told(f, text) + (IF ~adv /\ q <= end THEN 1 ELSE 0) <= n
      <3>1. PICK b \in Nat : b = HeaderBytes[Len(told)]
        BY BytesCount DEF IInv
      <3>2. errno = "OK"
        BY DEF IInv, Places
      <3>3. Fits(b, at, end, again, marks, nread)
        BY <2>6, <3>1, <3>2 DEF IInv, Budget, Alive
      <3>4. b + (at - k) + One(again) <= nread
        BY <1>5, <2>1, <3>3 DEF Fits, One
      <3>5. n >= nread + (q - at) + 1 - One(again)
        BY <2>6
      <3>6. PICK y \in 0..1 : y = One(again)
        BY DEF One
      <3>7. Told(f, text) = b + (q - k)
        BY <2>4, <3>1 DEF Told, Fields
      <3>8. b + (q - k) + 1 <= n
        BY <1>1, <1>4, <2>2, <3>4, <3>5, <3>6
      <3>9. QED
        BY <1>4, <2>2, <3>7, <3>8
    <2>7. f \in Callbacks /\ f # "headers_complete"
      BY DEF Callbacks, Fields
    <2>8. at <= end + 1 /\ q \in at..end + 1 /\ (q <= end \/ ~adv)
      BY <1>1, <1>4
    <2>9. QED
      BY <1>2, <2>4, <2>5, <2>6, <2>7, <2>8, CallbackKeeps
  <1>6. CASE marks[f] = 0
    <2>1. PICK r : r = IF adv THEN q + 1 ELSE q
      OBVIOUS
    <2>2. PICK a \in BOOLEAN : a = ~adv
      OBVIOUS
    <2>3. r \in at..end + 1 /\ (r - at) + One(a) = (q - at) + 1
      <3>1. CASE adv
        <4>1. One(a) = 0
          BY <2>2, <3>1 DEF One
        <4>2. r = q + 1
          BY <2>1, <3>1
        <4>3. QED
          BY <1>1, <1>4, <4>1, <4>2
      <3>2. CASE ~adv
        <4>1. One(a) = 1
          BY <2>2, <3>2 DEF One
        <4>2. r = q
          BY <2>1, <3>2
        <4>3. QED
          BY <1>1, <1>4, <4>1, <4>2
      <3>3. QED
        BY <3>1, <3>2
    <2>4. state' = s /\ nread' = n /\ saved' \in Nat /\ at' = r /\ again' = a /\ UNCHANGED cursor /\ marks' = marks
      BY <1>1, <1>6, <2>1, <2>2 DEF DataUpTo, Stored
    <2>5. marks' \in [Fields -> Nat] /\ \A g \in Fields : marks'[g] = 0
      BY <1>2, <1>3, <1>6, <2>4
    <2>6. ASSUME Heading(s, h') PROVE Heading(state, h) /\ n >= nread + (r - at) + One(a) - One(again)
      <3>1. Heading(state, h) /\ n >= nread + (q - at) + 1 - One(again)
        BY <2>6
      <3>2. PICK x \in 0..1, y \in 0..1 : x = One(a) /\ y = One(again)
        BY DEF One
      <3>3. n >= nread + (q - at) + 1 - y /\ (r - at) + x = (q - at) + 1 /\ r \in Nat
        BY <1>1, <2>3, <3>1, <3>2
      <3>4. n >= nread + (r - at) + x - y
        BY <1>1, <1>4, <3>3
      <3>5. QED
        BY <3>1, <3>2, <3>4
    <2>7. QED
      BY <2>3, <2>4, <2>5, <2>6, Moves
  <1>7. QED
    BY <1>5, <1>6

-----------------------------------------------------------------------------
(***************************************************************************)
(* The first line.                                                         *)
(***************************************************************************)
\* The states that accept one character only.
ExpectStates ==
    {"s_res_H", "s_res_HT", "s_res_HTT", "s_res_HTTP", "s_res_http_dot", "s_res_http_end", "s_res_line_almost_done",
     "s_req_http_H", "s_req_http_HT", "s_req_http_HTT", "s_req_http_I", "s_req_http_IC", "s_req_http_HTTP",
     "s_req_http_dot", "s_req_line_almost_done", "s_header_almost_done", "s_header_value_discard_ws_almost_done"}

\* The states of a header in which no text is under way, and those in which one is.
Quiet == ExpectStates \cup
    {"s_res_or_resp_H", "s_req_method", "s_req_spaces_before_url", "s_req_http_start", "s_res_http_major",
     "s_req_http_major", "s_res_http_minor", "s_req_http_minor", "s_req_http_end", "s_res_first_status_code",
     "s_res_status_code", "s_res_status_start", "s_header_field_start", "s_header_value_discard_ws",
     "s_header_value_start", "s_header_value_lws", "s_header_value_discard_lws", "s_headers_almost_done"}
Speaking == {"s_header_field", "s_header_value", "s_res_status"} \cup ServerUrlStates \cup UrlStates
Over == StartStates \cup BodyStates \cup ChunkHeads \cup {"s_headers_done"}

\* No text is under way in a quiet state, and nothing is asked of h.
LEMMA QuietStates ==
    ASSUME NEW s \in Quiet
    PROVE  Unmarked(s) /\ s \notin Special /\ s \notin Over
  <1>1. Unmarked(s)
    BY DEF Quiet, ExpectStates, Unmarked, Fields, During, ServerUrlStates, UrlStates, QueryStates, FragmentStates
  <1>2. s \notin Special
    BY DEF Quiet, ExpectStates, Special, ChunkHeads, ChunkBodies
  <1>3. s \notin Over
    BY DEF Quiet, ExpectStates, Over, ChunkHeads, BodyStates, StartStates
  <1>4. QED
    BY <1>1, <1>2, <1>3

\* Of the others, something is asked of h in a value only.
LEMMA SpeakingStates ==
    ASSUME NEW s \in Speaking
    PROVE  (s # "s_header_value" => s \notin Special) /\ s \notin Over
  BY DEF Speaking, Special, Over, ChunkHeads, ChunkBodies, BodyStates, StartStates, ServerUrlStates, UrlStates, QueryStates,
         FragmentStates

\* What a step inside a header leaves of h.
Keeping(m) == DOMAIN m = HFields /\ m.content_length \in 0..ULLONG_MAX /\ h.flags \subseteq m.flags

\* h itself keeps what it says.
LEMMA KeepingItself ==
    ASSUME Says(state, h)
    PROVE  Keeping(h)
  BY DEF Keeping, Says

\* A header does not begin in the middle.
LEMMA HeadingBefore ==
    ASSUME state \notin Over, NEW s, NEW m, h.flags \subseteq m.flags, Heading(s, m)
    PROVE  Heading(state, h)
  BY DEF Heading, Over

\* From one quiet state to another.
LEMMA QuietKeeps ==
    ASSUME IInv, at # 0, at <= end, state \in Quiet, NEW s \in Quiet, NextByte(s) \/ Reexecute(s), Keeping(h')
    PROVE  IInv'
  <1>1. /\ Len(Data) \in Nat /\ end \in Nat /\ at \in Nat /\ nread \in Nat /\ saved \in Nat /\ again \in BOOLEAN
        /\ Count \in Nat /\ nread <= Count
    BY PlacesNat, CountIs DEF IInv
  <1>2. marks \in [Fields -> Nat] /\ \A f \in Fields : marks[f] = 0
    BY NoneMarked, QuietStates DEF IInv, Marking
  <1>3. Says(s, h') /\ s # "s_chunk_size_start"
    BY SaysPlain, QuietStates DEF Keeping, Special, ChunkHeads
  <1>4. Heading(s, h') => Heading(state, h) /\ Count = nread + 1 - One(again)
    BY HeadingBefore, QuietStates, CountIs DEF Keeping, IInv
  <1>5. marks' = marks /\ state' = s /\ nread' = Count /\ UNCHANGED cursor
    BY DEF NextByte, Reexecute, Advance, cursor
  <1>6. CASE NextByte(s)
    <2>1. at' = at + 1 /\ again' = FALSE /\ saved' \in Nat
      BY <1>1, <1>6 DEF NextByte, Advance, Stored
    <2>2. at + 1 \in at..end + 1 /\ FALSE \in BOOLEAN
      BY <1>1
    <2>3. Heading(s, h') => Heading(state, h) /\ Count >= nread + ((at + 1) - at) + One(FALSE) - One(again)
      BY <1>1, <1>4 DEF One
    <2>4. \A f \in Fields : marks'[f] = 0
      BY <1>2, <1>5
    <2>5. PICK r \in at..end + 1 : r = at + 1
      BY <2>2
    <2>6. PICK n \in Nat : n = Count
      BY <1>1
    <2>7. /\ state' = s /\ nread' = n /\ saved' \in Nat /\ at' = r /\ again' = FALSE /\ UNCHANGED cursor
          /\ marks' \in [Fields -> Nat]
      BY <1>2, <1>5, <2>1, <2>5, <2>6
    <2>8. Heading(s, h') => Heading(state, h) /\ n >= nread + (r - at) + One(FALSE) - One(again)
      BY <2>3, <2>5, <2>6
    <2>9. QED
      BY <1>3, <2>2, <2>4, <2>7, <2>8, Moves
  <1>7. CASE Reexecute(s)
    <2>1. at' = at /\ again' = TRUE /\ saved' \in Nat
      BY <1>1, <1>7 DEF Reexecute
    <2>2. at \in at..end + 1 /\ TRUE \in BOOLEAN
      BY <1>1
    <2>3. Heading(s, h') => Heading(state, h) /\ Count >= nread + (at - at) + One(TRUE) - One(again)
      BY <1>1, <1>4 DEF One
    <2>4. \A f \in Fields : marks'[f] = 0
      BY <1>2, <1>5
    <2>5. PICK r \in at..end + 1 : r = at
      BY <2>2
    <2>6. PICK n \in Nat : n = Count
      BY <1>1
    <2>7. /\ state' = s /\ nread' = n /\ saved' \in Nat /\ at' = r /\ again' = TRUE /\ UNCHANGED cursor
          /\ marks' \in [Fields -> Nat]
      BY <1>2, <1>5, <2>1, <2>5, <2>6
    <2>8. Heading(s, h') => Heading(state, h) /\ n >= nread + (r - at) + One(TRUE) - One(again)
      BY <2>3, <2>5, <2>6
    <2>9. QED
      BY <1>3, <2>2, <2>4, <2>7, <2>8, Moves
  <1>8. QED
    BY <1>6, <1>7

\* To or within a state in which the text f is under way, perhaps with a mark at this byte.
LEMMA TextKeeps ==
    ASSUME IInv, at # 0, at <= end, NEW f \in Fields, Unmarked(state) \/ state \in During[f], NEW s \in During[f],
           NEW n \in Nat, NEW r \in at..end + 1, NEW a \in BOOLEAN,
           state' = s, nread' = n, saved' \in Nat, at' = r, again' = a, UNCHANGED cursor, Says(s, h'),
           marks' = Marked(f) \/ (marks' = marks /\ state \in During[f]),
           Heading(s, h') => Heading(state, h) /\ n >= nread + (r - at) + One(a) - One(again)
    PROVE  IInv'
  <1>1. at \in Nat /\ end \in Nat /\ r \in Nat /\ at <= r
    BY PlacesNat DEF IInv
  <1>2. marks \in [Fields -> Nat] /\ \A g \in Fields \ {f} : marks[g] = 0
    <2>1. CASE Unmarked(state)
      BY <2>1, NoneMarked DEF IInv, Marking
    <2>2. CASE state \in During[f]
      BY <2>2, OthersUnmarked DEF IInv, Marking
    <2>3. QED
      BY <2>1, <2>2
  <1>3. marks[f] \in Nat /\ (marks[f] # 0 => marks[f] <= at)
    BY <1>2 DEF IInv, Marking
  <1>4. PICK k : k = marks'
    OBVIOUS
  <1>5. k \in [Fields -> Nat] /\ (k[f] = marks[f] \/ k[f] = at) /\ \A g \in Fields \ {f} : k[g] = 0
    <2>1. CASE marks' = marks
      BY <1>2, <1>4, <2>1
    <2>2. CASE marks' = Marked(f)
      <3>1. k = [marks EXCEPT ![f] = IF @ = 0 THEN at ELSE @]
        BY <1>4, <2>2 DEF Marked
      <3>2. k = [g \in Fields |-> IF g = f THEN IF marks[f] = 0 THEN at ELSE marks[f] ELSE marks[g]]
        BY <1>2, <3>1
      <3>3. QED
        BY <1>1, <1>2, <1>3, <3>2
    <2>3. QED
      BY <2>1, <2>2
  <1>6. \A g \in Fields : k[g] # 0 => s \in During[g] /\ k[g] <= r /\ (k[g] = marks[g] \/ k[g] >= at)
    <2>1. k[f] # 0 => k[f] <= r /\ (k[f] = marks[f] \/ k[f] >= at)
      BY <1>1, <1>3, <1>5
    <2>2. QED
      BY <1>5, <2>1
  <1>7. s # "s_chunk_size_start"
    BY DEF Fields, During, ServerUrlStates, UrlStates, QueryStates, FragmentStates
  <1>8. marks' \in [Fields -> Nat]
    BY <1>4, <1>5
  <1>9. \A g \in Fields : marks'[g] # 0 => s \in During[g] /\ marks'[g] <= r /\ (marks'[g] = marks[g] \/ marks'[g] >= at)
    BY <1>4, <1>6
  <1>10. QED
    BY <1>7, <1>8, <1>9, Moves

\* Outside of headers, from a state in which no text is under way.
LEMMA OutsideKeeps ==
    ASSUME IInv, at # 0, at <= end, Unmarked(state), NEW s \in Over,
           NEW n \in Nat, NEW r \in at..end + 1, NEW a \in BOOLEAN,
           state' = s, nread' = n, saved' \in Nat, at' = r, again' = a, UNCHANGED cursor, marks' = marks, Says(s, h'),
           s = "s_chunk_size_start" => n = 0 /\ ~a
    PROVE  IInv'
  <1>1. marks \in [Fields -> Nat] /\ \A f \in Fields : marks[f] = 0
    BY NoneMarked DEF IInv, Marking
  <1>2. marks' \in [Fields -> Nat] /\ \A f \in Fields : marks'[f] = 0
    BY <1>1
  <1>3. ~Heading(s, h')
    BY DEF Heading, Over
  <1>4. QED
    BY <1>2, <1>3, Moves

\* The same for the next byte.
LEMMA OutsideNext ==
    ASSUME IInv, at # 0, at <= end, Unmarked(state), NEW s \in Over, s # "s_chunk_size_start", NextByte(s), Says(s, h')
    PROVE  IInv'
  <1>1. at \in Nat /\ end \in Nat /\ saved \in Nat /\ Count \in Nat
    BY PlacesNat, CountIs DEF IInv
  <1>2. PICK n \in Nat : n = Count
    BY <1>1
  <1>3. PICK r \in at..end + 1 : r = at + 1
    BY <1>1
  <1>4. /\ state' = s /\ nread' = n /\ saved' \in Nat /\ at' = r /\ again' = FALSE /\ UNCHANGED cursor
        /\ marks' = marks
    BY <1>1, <1>2, <1>3 DEF NextByte, Advance, Stored
  <1>5. QED
    BY <1>4, OutsideKeeps

\* Before a message nothing is under way and nothing is asked of h.
LEMMA StartsAre ==
    ASSUME NEW s \in StartStates
    PROVE  Unmarked(s) /\ s \notin Special /\ s \in Over /\ s # "s_chunk_size_start"
  <1>1. Unmarked(s)
    BY DEF StartStates, Unmarked, Fields, During, ServerUrlStates, UrlStates, QueryStates, FragmentStates
  <1>2. s \notin Special
    BY DEF StartStates, Special, ChunkHeads, ChunkBodies
  <1>3. QED
    BY <1>1, <1>2 DEF Over, Special, ChunkHeads

\* A message begins.
LEMMA Begins ==
    ASSUME IInv, at # 0, at <= end, state \in StartStates, NEW s \in Quiet, Notify("message_begin", <<>>, s),
           DOMAIN h' = HFields, h'.content_length \in 0..ULLONG_MAX
    PROVE  IInv'
  <1>1. at \in Nat /\ end \in Nat /\ Count \in Nat
    BY PlacesNat, CountIs DEF IInv
  <1>2. \A f \in Fields : marks[f] = 0
    BY NoneMarked, StartsAre DEF IInv
  <1>3. Says(s, h') /\ s # "s_chunk_size_start"
    BY SaysPlain, QuietStates DEF Special, ChunkHeads
  <1>4. "message_begin" \in Callbacks /\ "message_begin" \notin Fields
    BY DEF Callbacks, Fields
  <1>5. Told("message_begin", <<>>) = 0
    BY DEF Told
  <1>6. PICK n \in Nat : n = Count
    BY <1>1
  <1>7. PICK q \in at..end + 1 : q = at /\ q <= end
    BY <1>1
  <1>8. PICK adv \in BOOLEAN : adv
    OBVIOUS
  <1>9. Callback("message_begin", <<>>, s, n, q, adv)
    <2>1. adv = TRUE
      BY <1>8
    <2>2. QED
      BY <1>6, <1>7, <2>1 DEF Notify
  <1>10. Told("message_begin", <<>>) + (IF ~adv /\ q <= end THEN 1 ELSE 0) <= n
    BY <1>5, <1>8
  <1>11. at <= end + 1
    BY <1>1
  <1>12. QED
    BY <1>2, <1>3, <1>4, <1>7, <1>9, <1>10, <1>11, CallbackKeeps

\* Line ends before a message.
LEMMA BlanksKeep ==
    ASSUME IInv, Blanks
    PROVE  IInv'
  <1>1. at # 0 /\ at <= end /\ state \in StartStates /\ NextByte(state) /\ h' = h
    BY DEF Blanks, Reading
  <1>2. Says(state, h') /\ Unmarked(state) /\ state \in Over /\ state # "s_chunk_size_start"
    BY <1>1, StartsAre DEF IInv
  <1>3. QED
    BY <1>1, <1>2, OutsideNext

\* Bytes behind a closed connection.
LEMMA ClosedKeeps ==
    ASSUME IInv, Dead
    PROVE  IInv'
  BY FailKeeps DEF Dead, Reading

\* What h says when a message begins.
LEMMA FreshSays ==
    ASSUME Says(state, h), NEW m, NEW t, m \in {Fresh, [Fresh EXCEPT !.type = t]}
    PROVE  DOMAIN m = HFields /\ m.content_length \in 0..ULLONG_MAX
  <1>1. DOMAIN h = HFields
    BY DEF Says
  <1>2. DOMAIN Fresh = HFields /\ Fresh.content_length = ULLONG_MAX
    BY <1>1 DEF Fresh, HFields
  <1>3. ULLONG_MAX \in 0..ULLONG_MAX
    BY Bounds
  <1>4. QED
    BY <1>2, <1>3 DEF HFields

\* The first byte of a request or of a response.
LEMMA StartReqOrResKeeps ==
    ASSUME IInv, StartReqOrRes
    PROVE  IInv'
  <1>1. at # 0 /\ at <= end /\ state \in StartStates
    BY DEF StartReqOrRes, Reading, StartStates
  <1>2. Says(state, h)
    BY DEF IInv
  <1>3. CASE Ch = "H"
    <2>1. h' = Fresh /\ Notify("message_begin", <<>>, "s_res_or_resp_H")
      BY <1>3 DEF StartReqOrRes
    <2>2. DOMAIN h' = HFields /\ h'.content_length \in 0..ULLONG_MAX
      BY <1>2, <2>1, FreshSays
    <2>3. "s_res_or_resp_H" \in Quiet
      BY DEF Quiet
    <2>4. QED
      BY <1>1, <2>1, <2>2, <2>3, Begins
  <1>4. CASE Ch # "H"
    <2>1. h' = [Fresh EXCEPT !.type = "HTTP_REQUEST"] /\ Reexecute("s_start_req")
      BY <1>4 DEF StartReqOrRes
    <2>2. DOMAIN h' = HFields /\ h'.content_length \in 0..ULLONG_MAX
      BY <1>2, <2>1, FreshSays
    <2>3. "s_start_req" \in StartStates
      BY DEF StartStates
    <2>4. Says("s_start_req", h') /\ "s_start_req" \in Over /\ Unmarked(state)
      BY <1>1, <2>2, <2>3, StartsAre, SaysPlain
    <2>5. at \in Nat /\ end \in Nat /\ saved \in Nat /\ Count \in Nat
      BY PlacesNat, CountIs DEF IInv
    <2>6. PICK n \in Nat : n = Count
      BY <2>5
    <2>7. PICK r \in at..end + 1 : r = at
      BY <1>1, <2>5
    <2>8. /\ state' = "s_start_req" /\ nread' = n /\ saved' \in Nat /\ at' = r /\ again' = TRUE /\ UNCHANGED cursor
          /\ marks' = marks
      BY <2>1, <2>5, <2>6, <2>7 DEF Reexecute, cursor
    <2>9. QED
      BY <1>1, <2>4, <2>8, OutsideKeeps
  <1>5. QED
    BY <1>3, <1>4

\* The second byte tells a response from a HEAD request.
LEMMA ResOrRespHKeeps ==
    ASSUME IInv, ResOrRespH
    PROVE  IInv'
  <1>1. at # 0 /\ at <= end /\ state \in Quiet
    BY DEF ResOrRespH, Reading, Quiet
  <1>2. DOMAIN h = HFields /\ h.content_length \in 0..ULLONG_MAX
    BY DEF IInv, Says
  <1>3. CASE h' = [h EXCEPT !.type = "HTTP_RESPONSE"] /\ NextByte("s_res_HT")
    <2>1. Keeping(h')
      BY <1>2, <1>3 DEF Keeping, HFields
    <2>2. "s_res_HT" \in Quiet
      BY DEF Quiet, ExpectStates
    <2>3. QED
      BY <1>1, <1>3, <2>1, <2>2, QuietKeeps
  <1>4. CASE h' = [h EXCEPT !.type = "HTTP_REQUEST", !.method = "HEAD", !.index = 2] /\ NextByte("s_req_method")
    <2>1. Keeping(h')
      BY <1>2, <1>4 DEF Keeping, HFields
    <2>2. "s_req_method" \in Quiet
      BY DEF Quiet
    <2>3. QED
      BY <1>1, <1>4, <2>1, <2>2, QuietKeeps
  <1>5. CASE Fail("INVALID_CONSTANT")
    BY <1>1, <1>5, FailKeeps
  <1>6. QED
    BY <1>3, <1>4, <1>5 DEF ResOrRespH

\* The first byte of a response.
LEMMA StartResKeeps ==
    ASSUME IInv, StartRes
    PROVE  IInv'
  <1>1. at # 0 /\ at <= end /\ state \in StartStates
    BY DEF StartRes, Reading, StartStates
  <1>2. CASE h' = Fresh /\ Notify("message_begin", <<>>, "s_res_H")
    <2>1. DOMAIN h' = HFields /\ h'.content_length \in 0..ULLONG_MAX
      BY <1>2, FreshSays DEF IInv
    <2>2. "s_res_H" \in Quiet
      BY DEF Quiet, ExpectStates
    <2>3. QED
      BY <1>1, <1>2, <2>1, <2>2, Begins
  <1>3. CASE Fail("INVALID_CONSTANT")
    BY <1>1, <1>3, FailKeeps
  <1>4. QED
    BY <1>2, <1>3 DEF StartRes

\* The first byte of a request.
LEMMA StartReqKeeps ==
    ASSUME IInv, StartReq
    PROVE  IInv'
  <1>1. at # 0 /\ at <= end /\ state \in StartStates
    BY DEF StartReq, Reading, StartStates
  <1>2. ASSUME NEW m, h' = [Fresh EXCEPT !.method = m, !.index = 1], Notify("message_begin", <<>>, "s_req_method")
        PROVE  IInv'
    <2>1. DOMAIN h' = HFields /\ h'.content_length \in 0..ULLONG_MAX
      <3>1. DOMAIN Fresh = HFields /\ Fresh.content_length \in 0..ULLONG_MAX
        BY FreshSays DEF IInv
      <3>2. QED
        BY <1>2, <3>1 DEF HFields
    <2>2. "s_req_method" \in Quiet
      BY DEF Quiet
    <2>3. QED
      BY <1>1, <1>2, <2>1, <2>2, Begins
  <1>3. CASE Fail("INVALID_METHOD")
    BY <1>1, <1>3, FailKeeps
  <1>4. QED
    BY <1>2, <1>3 DEF StartReq

\* The method of a request.
LEMMA ReqMethodKeeps ==
    ASSUME IInv, ReqMethod
    PROVE  IInv'
  <1>1. at # 0 /\ at <= end /\ state = "s_req_method"
    BY DEF ReqMethod, Reading
  <1>2. state \in Quiet /\ "s_req_spaces_before_url" \in Quiet
    BY <1>1 DEF Quiet
  <1>3. DOMAIN h = HFields /\ h.content_length \in 0..ULLONG_MAX
    BY DEF IInv, Says
  <1>4. PICK m : m = MethodAfter(h, Ch)
    OBVIOUS
  <1>5. CASE m = ""
    <2>1. Fail("INVALID_METHOD")
      BY <1>4, <1>5 DEF ReqMethod
    <2>2. QED
      BY <1>1, <2>1, FailKeeps
  <1>6. CASE m # ""
    <2>1. PICK s : s = IF Ch = " " THEN "s_req_spaces_before_url" ELSE state
      OBVIOUS
    <2>2. h' = [h EXCEPT !.method = m, !.index = @ + 1] /\ NextByte(s)
      BY <1>4, <1>6, <2>1 DEF ReqMethod
    <2>3. Keeping(h')
      BY <1>3, <2>2 DEF Keeping, HFields
    <2>4. s \in Quiet
      BY <1>2, <2>1
    <2>5. QED
      BY <1>1, <1>2, <2>2, <2>3, <2>4, QuietKeeps
  <1>7. QED
    BY <1>5, <1>6

\* A byte in a URL leads to a state of a URL or is illegal.
LEMMA UrlGoesOn ==
    ASSUME NEW s, NEW ch, ParseUrlChar(s, ch) # "s_dead"
    PROVE  ParseUrlChar(s, ch) \in During["url"]
  <1>1. ParseUrlChar(s, ch) \in {"s_dead"} \cup ServerUrlStates \cup UrlStates
    BY DEF ParseUrlChar, UrlMove, ServerUrlStates, UrlStates, ServerStates, QueryStates, FragmentStates
  <1>2. During["url"] = ServerUrlStates \cup UrlStates
    BY DEF During
  <1>3. QED
    BY <1>1, <1>2

\* The next byte, within a text or with a mark at it.
LEMMA TextNext ==
    ASSUME IInv, at # 0, at <= end, NEW f \in Fields, Unmarked(state) \/ state \in During[f], NEW s \in During[f],
           Advance(s, Count, at), marks' = Marked(f) \/ (marks' = marks /\ state \in During[f]),
           state \notin Over, h.flags \subseteq h'.flags, Says(s, h')
    PROVE  IInv'
  <1>1. at \in Nat /\ end \in Nat /\ saved \in Nat /\ Count \in Nat /\ nread \in Nat /\ nread <= Count
    BY PlacesNat, CountIs DEF IInv
  <1>2. PICK n \in Nat : n = Count
    BY <1>1
  <1>3. PICK r \in at..end + 1 : r = at + 1
    BY <1>1
  <1>4. state' = s /\ nread' = n /\ saved' \in Nat /\ at' = r /\ again' = FALSE /\ UNCHANGED cursor
    BY <1>1, <1>2, <1>3 DEF Advance, Stored
  <1>5. ASSUME Heading(s, h') PROVE Heading(state, h) /\ n >= nread + (r - at) + One(FALSE) - One(again)
    <2>1. Heading(state, h)
      BY <1>5, HeadingBefore
    <2>2. n = nread + 1 - One(again)
      BY <1>2, <2>1, CountIs DEF IInv
    <2>3. PICK y \in 0..1 : y = One(again)
      BY DEF One
    <2>4. One(FALSE) = 0
      BY DEF One
    <2>5. n = nread + 1 - y
      BY <2>2, <2>3
    <2>6. n >= nread + (r - at) + 0 - y
      BY <1>1, <1>3, <2>5
    <2>7. QED
      BY <2>1, <2>3, <2>4, <2>6
  <1>6. QED
    BY <1>4, <1>5, TextKeeps

\* A byte of a URL.
LEMMA UrlToKeeps ==
    ASSUME IInv, at # 0, at <= end, Unmarked(state) \/ state \in During["url"], state \notin Over, NEW s, NEW ch, NEW m,
           UrlTo(ParseUrlChar(s, ch), m), m = Marked("url") \/ (m = marks /\ state \in During["url"])
    PROVE  IInv'
  <1>1. PICK to : to = ParseUrlChar(s, ch)
    OBVIOUS
  <1>2. UrlTo(to, m)
    BY <1>1
  <1>3. CASE to = "s_dead"
    BY <1>2, <1>3, FailKeeps DEF UrlTo
  <1>4. CASE to # "s_dead"
    <2>1. to \in During["url"]
      BY <1>1, <1>4, UrlGoesOn
    <2>2. Advance(to, Count, at) /\ marks' = m /\ h' = h
      BY <1>2, <1>4 DEF UrlTo
    <2>3. to \in Speaking /\ to # "s_header_value"
      BY <2>1 DEF During, Speaking, ServerUrlStates, UrlStates, QueryStates, FragmentStates
    <2>4. Says(to, h')
      BY <2>2, <2>3, SaysPlain, SpeakingStates DEF IInv, Says
    <2>5. "url" \in Fields /\ h.flags \subseteq h'.flags
      BY <2>2 DEF Fields
    <2>6. QED
      BY <2>1, <2>2, <2>4, <2>5, TextNext
  <1>5. QED
    BY <1>3, <1>4

\* Blanks before the URL, and its first byte.
LEMMA SpacesBeforeUrlKeeps ==
    ASSUME IInv, SpacesBeforeUrl
    PROVE  IInv'
  <1>1. at # 0 /\ at <= end /\ state \in Quiet
    BY DEF SpacesBeforeUrl, Reading, Quiet
  <1>2. CASE NextByte(state) /\ h' = h
    BY <1>1, <1>2, QuietKeeps, KeepingItself DEF IInv
  <1>3. ASSUME NEW s, UrlTo(ParseUrlChar(s, Ch), Marked("url")) PROVE IInv'
    BY <1>1, <1>3, UrlToKeeps, QuietStates
  <1>4. QED
    BY <1>2, <1>3 DEF SpacesBeforeUrl

\* The bytes of a URL.
LEMMA UrlCharsKeep ==
    ASSUME IInv, UrlChars
    PROVE  IInv'
  <1>1. at # 0 /\ at <= end /\ state \in During["url"] /\ state \in Speaking
    BY DEF UrlChars, Reading, Speaking, During
  <1>2. UrlTo(ParseUrlChar(state, Ch), marks)
    BY DEF UrlChars
  <1>3. QED
    BY <1>1, <1>2, UrlToKeeps, SpeakingStates

\* The end of a text in a header: the step counts every byte it takes.
LEMMA TextEnds ==
    ASSUME IInv, at # 0, at <= end, NEW f \in Fields, state \in During[f], state \notin Over,
           NEW q \in at..end, NEW adv \in BOOLEAN, NEW n, n = Count + (q - at), NEW s \in Quiet,
           DataUpTo(f, q - 1, s, n, q, adv), Keeping(h')
    PROVE  IInv'
  <1>1. at \in Nat /\ end \in Nat /\ Count \in Nat /\ nread \in Nat /\ q \in Nat /\ at <= q
    BY PlacesNat, CountIs DEF IInv
  <1>2. n \in Nat
    BY <1>1
  <1>3. Says(s, h') /\ s # "s_chunk_size_start"
    BY SaysPlain, QuietStates DEF Keeping, Special, ChunkHeads
  <1>4. ASSUME Heading(s, h') PROVE Heading(state, h) /\ n >= nread + (q - at) + 1 - One(again)
    <2>1. Heading(state, h)
      BY <1>4, HeadingBefore DEF Keeping
    <2>2. Count = nread + 1 - One(again)
      BY <2>1, CountIs DEF IInv
    <2>3. PICK y \in 0..1 : y = One(again)
      BY DEF One
    <2>4. QED
      BY <1>1, <2>1, <2>2, <2>3
  <1>5. QED
    BY <1>2, <1>3, <1>4, DataKeeps

\* The same at the byte at hand.
LEMMA TextEndsHere ==
    ASSUME IInv, at # 0, at <= end, NEW f \in Fields, state \in During[f], state \notin Over, NEW s \in Quiet,
           DataUpTo(f, at - 1, s, Count, at, TRUE), Keeping(h')
    PROVE  IInv'
  <1>1. at \in Nat /\ end \in Nat /\ Count \in Nat
    BY PlacesNat, CountIs DEF IInv
  <1>2. PICK q \in at..end : q = at
    BY <1>1
  <1>3. PICK n : n = Count
    OBVIOUS
  <1>4. n = Count + (q - at)
    BY <1>1, <1>2, <1>3
  <1>5. DataUpTo(f, q - 1, s, n, q, TRUE)
    BY <1>2, <1>3
  <1>6. QED
    BY <1>4, <1>5, TextEnds

\* The end of a URL.
LEMMA UrlEndKeeps ==
    ASSUME IInv, UrlEnd
    PROVE  IInv'
  <1>1. at # 0 /\ at <= end /\ state \in During["url"] /\ state \in Speaking
    BY DEF UrlEnd, Reading, Speaking, During
  <1>2. DOMAIN h = HFields /\ h.content_length \in 0..ULLONG_MAX
    BY DEF IInv, Says
  <1>3. Keeping(h')
    <2>1. h' = h \/ h' = [h EXCEPT !.http_major = 0, !.http_minor = 9]
      BY DEF UrlEnd
    <2>2. QED
      BY <1>2, <2>1 DEF Keeping, HFields
  <1>4. PICK s : s = CASE Ch = " " -> "s_req_http_start" [] Ch = CR -> "s_req_line_almost_done"
                       [] Ch = LF -> "s_header_field_start"
    OBVIOUS
  <1>5. s \in Quiet
    BY <1>4 DEF UrlEnd, Quiet, ExpectStates
  <1>6. DataUpTo("url", at - 1, s, Count, at, TRUE)
    BY <1>4 DEF UrlEnd
  <1>7. "url" \in Fields
    BY DEF Fields
  <1>8. QED
    BY <1>1, <1>3, <1>5, <1>6, <1>7, TextEndsHere, SpeakingStates

\* The word before the version.
LEMMA HttpStartKeeps ==
    ASSUME IInv, HttpStart
    PROVE  IInv'
  <1>1. at # 0 /\ at <= end /\ state \in Quiet
    BY DEF HttpStart, Reading, Quiet
  <1>2. Keeping(h)
    BY KeepingItself DEF IInv
  <1>3. ASSUME NEW s \in {state, "s_req_http_H", "s_req_http_I"}, NextByte(s), h' = h PROVE IInv'
    <2>1. s \in Quiet
      BY <1>1 DEF Quiet, ExpectStates
    <2>2. QED
      BY <1>1, <1>2, <1>3, <2>1, QuietKeeps
  <1>4. CASE Fail("INVALID_CONSTANT")
    BY <1>1, <1>4, FailKeeps
  <1>5. QED
    BY <1>3, <1>4 DEF HttpStart

\* A byte that is expected.
LEMMA ExpectKeeps ==
    ASSUME IInv, Expect
    PROVE  IInv'
  <1>1. at # 0 /\ at <= end /\ state \in DOMAIN Expected
    BY DEF Expect, Reading
  <1>2. /\ DOMAIN Expected = ExpectStates
        /\ \A s \in ExpectStates : Expected[s][2] \in Quiet /\ Expected[s][3] \notin {"OK", "PAUSED"}
    BY DEF Expected, ExpectStates, Quiet
  <1>3. state \in Quiet
    BY <1>1, <1>2 DEF Quiet
  <1>4. Keeping(h)
    BY KeepingItself DEF IInv
  <1>5. CASE NextByte(Expected[state][2]) /\ h' = h
    BY <1>1, <1>2, <1>3, <1>4, <1>5, QuietKeeps
  <1>6. CASE Fail(Expected[state][3])
    BY <1>1, <1>2, <1>6, FailKeeps
  <1>7. QED
    BY <1>5, <1>6 DEF Expect

\* The first number of the version.
LEMMA HttpMajorKeeps ==
    ASSUME IInv, HttpMajor
    PROVE  IInv'
  <1>1. at # 0 /\ at <= end /\ state \in Quiet
    BY DEF HttpMajor, Reading, Quiet
  <1>2. CASE Ch \in Num
    <2>1. PICK s \in {"s_res_http_dot", "s_req_http_dot"} : NextByte(s)
      BY <1>2 DEF HttpMajor
    <2>2. s \in Quiet
      BY DEF Quiet, ExpectStates
    <2>3. DOMAIN h = HFields /\ h.content_length \in 0..ULLONG_MAX
      BY DEF IInv, Says
    <2>4. h' = [h EXCEPT !.http_major = Digit(Ch)]
      BY <1>2 DEF HttpMajor
    <2>5. Keeping(h')
      BY <2>3, <2>4 DEF Keeping, HFields
    <2>6. QED
      BY <1>1, <2>1, <2>2, <2>5, QuietKeeps
  <1>3. CASE Ch \notin Num
    <2>1. Fail("INVALID_VERSION")
      BY <1>3 DEF HttpMajor
    <2>2. QED
      BY <1>1, <2>1, FailKeeps
  <1>4. QED
    BY <1>2, <1>3

\* The second one.
LEMMA HttpMinorKeeps ==
    ASSUME IInv, HttpMinor
    PROVE  IInv'
  <1>1. at # 0 /\ at <= end /\ state \in Quiet
    BY DEF HttpMinor, Reading, Quiet
  <1>2. CASE Ch \in Num
    <2>1. PICK s \in {"s_res_http_end", "s_req_http_end"} : NextByte(s)
      BY <1>2 DEF HttpMinor
    <2>2. s \in Quiet
      BY DEF Quiet, ExpectStates
    <2>3. DOMAIN h = HFields /\ h.content_length \in 0..ULLONG_MAX
      BY DEF IInv, Says
    <2>4. h' = [h EXCEPT !.http_minor = Digit(Ch)]
      BY <1>2 DEF HttpMinor
    <2>5. Keeping(h')
      BY <2>3, <2>4 DEF Keeping, HFields
    <2>6. QED
      BY <1>1, <2>1, <2>2, <2>5, QuietKeeps
  <1>3. CASE Ch \notin Num
    <2>1. Fail("INVALID_VERSION")
      BY <1>3 DEF HttpMinor
    <2>2. QED
      BY <1>1, <2>1, FailKeeps
  <1>4. QED
    BY <1>2, <1>3

\* The end of a request's first line.
LEMMA ReqHttpEndKeeps ==
    ASSUME IInv, ReqHttpEnd
    PROVE  IInv'
  <1>1. at # 0 /\ at <= end /\ state \in Quiet
    BY DEF ReqHttpEnd, Reading, Quiet
  <1>2. Keeping(h)
    BY KeepingItself DEF IInv
  <1>3. ASSUME NEW s \in {"s_req_line_almost_done", "s_header_field_start"}, NextByte(s), h' = h PROVE IInv'
    <2>1. s \in Quiet
      BY DEF Quiet, ExpectStates
    <2>2. QED
      BY <1>1, <1>2, <1>3, <2>1, QuietKeeps
  <1>4. CASE Fail("INVALID_VERSION")
    BY <1>1, <1>4, FailKeeps
  <1>5. QED
    BY <1>3, <1>4 DEF ReqHttpEnd

\* The first digit of the status code.
LEMMA FirstStatusCodeKeeps ==
    ASSUME IInv, FirstStatusCode
    PROVE  IInv'
  <1>1. at # 0 /\ at <= end /\ state \in Quiet
    BY DEF FirstStatusCode, Reading, Quiet
  <1>2. DOMAIN h = HFields /\ h.content_length \in 0..ULLONG_MAX
    BY DEF IInv, Says
  <1>3. CASE NextByte(state) /\ h' = h
    BY <1>1, <1>3, QuietKeeps, KeepingItself DEF IInv
  <1>4. CASE h' = [h EXCEPT !.status_code = Digit(Ch)] /\ NextByte("s_res_status_code")
    <2>1. Keeping(h')
      BY <1>2, <1>4 DEF Keeping, HFields
    <2>2. "s_res_status_code" \in Quiet
      BY DEF Quiet
    <2>3. QED
      BY <1>1, <1>4, <2>1, <2>2, QuietKeeps
  <1>5. CASE Fail("INVALID_STATUS")
    BY <1>1, <1>5, FailKeeps
  <1>6. QED
    BY <1>3, <1>4, <1>5 DEF FirstStatusCode

\* The others.
LEMMA StatusCodeKeeps ==
    ASSUME IInv, StatusCode
    PROVE  IInv'
  <1>1. at # 0 /\ at <= end /\ state \in Quiet
    BY DEF StatusCode, Reading, Quiet
  <1>2. DOMAIN h = HFields /\ h.content_length \in 0..ULLONG_MAX
    BY DEF IInv, Says
  <1>3. CASE h' = [h EXCEPT !.status_code = 10 * @ + Digit(Ch)] /\ NextByte(state)
    <2>1. Keeping(h')
      BY <1>2, <1>3 DEF Keeping, HFields
    <2>2. QED
      BY <1>1, <1>3, <2>1, QuietKeeps
  <1>4. CASE (NextByte("s_res_status_start") \/ Reexecute("s_res_status_start")) /\ h' = h
    <2>1. "s_res_status_start" \in Quiet
      BY DEF Quiet
    <2>2. QED
      BY <1>1, <1>4, <2>1, QuietKeeps, KeepingItself DEF IInv
  <1>5. CASE Fail("INVALID_STATUS")
    BY <1>1, <1>5, FailKeeps
  <1>6. QED
    BY <1>3, <1>4, <1>5, ZenonT(40) DEF StatusCode

\* The first byte of the reason, or the end of the line.
LEMMA StatusStartKeeps ==
    ASSUME IInv, StatusStart
    PROVE  IInv'
  <1>1. at # 0 /\ at <= end /\ state \in Quiet
    BY DEF StatusStart, Reading, Quiet
  <1>2. /\ at \in Nat /\ end \in Nat /\ saved \in Nat /\ Count \in Nat /\ nread \in Nat
    BY PlacesNat, CountIs DEF IInv
  <1>3. DOMAIN h = HFields /\ h.content_length \in 0..ULLONG_MAX
    BY DEF IInv, Says
  <1>4. h' = [h EXCEPT !.index = 0]
    BY DEF StatusStart
  <1>5. "status" \in Fields /\ "s_res_status" \in During["status"] /\ "s_res_status" \notin Special
    BY DEF Fields, During, Special, ChunkHeads, ChunkBodies
  <1>6. Keeping(h') /\ Says("s_res_status", h')
    <2>1. Keeping(h')
      BY <1>3, <1>4 DEF Keeping, HFields
    <2>2. QED
      BY <1>5, <2>1, SaysPlain DEF Keeping
  <1>7. PICK n \in Nat : n = Count
    BY <1>2
  <1>8. PICK a \in BOOLEAN : a = (Ch \in {CR, LF})
    <2>1. CASE Ch \in {CR, LF}
      <3>1. TRUE = (Ch \in {CR, LF})
        BY <2>1
      <3>2. QED
        BY <3>1
    <2>2. CASE Ch \notin {CR, LF}
      <3>1. FALSE = (Ch \in {CR, LF})
        BY <2>2
      <3>2. QED
        BY <3>1
    <2>3. QED
      BY <2>1, <2>2
  <1>9. PICK r \in at..end + 1 : r = IF Ch \in {CR, LF} THEN at ELSE at + 1
    BY <1>1, <1>2
  <1>10. (r - at) + One(a) = 1
    <2>1. CASE Ch \in {CR, LF}
      <3>1. One(a) = 1
        BY <1>8, <2>1 DEF One
      <3>2. r = at
        BY <1>9, <2>1
      <3>3. QED
        BY <1>2, <3>1, <3>2
    <2>2. CASE Ch \notin {CR, LF}
      <3>1. One(a) = 0
        BY <1>8, <2>2 DEF One
      <3>2. r = at + 1
        BY <1>9, <2>2
      <3>3. QED
        BY <1>2, <3>1, <3>2
    <2>3. QED
      BY <2>1, <2>2
  <1>11. /\ state' = "s_res_status" /\ nread' = n /\ saved' \in Nat /\ at' = r /\ again' = a /\ UNCHANGED cursor
         /\ marks' = Marked("status")
    BY <1>2, <1>7, <1>8, <1>9 DEF StatusStart
  <1>12. ASSUME Heading("s_res_status", h')
         PROVE  Heading(state, h) /\ n >= nread + (r - at) + One(a) - One(again)
    <2>1. Heading(state, h)
      BY <1>1, <1>6, <1>12, HeadingBefore, QuietStates DEF Keeping
    <2>2. PICK x \in 0..1, y \in 0..1 : x = One(a) /\ y = One(again)
      BY DEF One
    <2>3. n = nread + 1 - y
      BY <1>7, <2>1, <2>2, CountIs DEF IInv
    <2>4. (r - at) + x = 1
      BY <1>10, <2>2
    <2>5. n >= nread + (r - at) + x - y
      BY <1>2, <2>3, <2>4
    <2>6. QED
      BY <2>1, <2>2, <2>5
  <1>13. Unmarked(state)
    BY <1>1, QuietStates
  <1>14. QED
    BY <1>1, <1>5, <1>6, <1>11, <1>12, <1>13, TextKeeps

\* The reason.
LEMMA StatusKeeps ==
    ASSUME IInv, Status
    PROVE  IInv'
  <1>1. at # 0 /\ at <= end /\ state = "s_res_status" /\ h' = h
    BY DEF Status, Reading
  <1>2. "status" \in Fields /\ state \in During["status"] /\ state \in Speaking
    BY <1>1 DEF Fields, During, Speaking
  <1>3. Keeping(h') /\ Says(state, h')
    BY <1>1, KeepingItself DEF IInv
  <1>4. CASE Ch \in {CR, LF}
    <2>1. PICK s \in {"s_res_line_almost_done", "s_header_field_start"} :
              DataUpTo("status", at - 1, s, Count, at, TRUE)
      BY <1>4 DEF Status
    <2>2. s \in Quiet
      BY DEF Quiet, ExpectStates
    <2>3. QED
      BY <1>1, <1>2, <1>3, <2>1, <2>2, TextEndsHere, SpeakingStates
  <1>5. CASE Ch \notin {CR, LF}
    <2>1. Advance(state, Count, at) /\ marks' = marks
      BY <1>5 DEF Status, NextByte
    <2>2. state \notin Over /\ h.flags \subseteq h'.flags
      BY <1>1, <1>2, SpeakingStates
    <2>3. QED
      BY <1>1, <1>2, <1>3, <2>1, <2>2, TextNext
  <1>6. QED
    BY <1>4, <1>5

-----------------------------------------------------------------------------
(***************************************************************************)
(* Header fields: what reading a name or a value makes of h.               *)
(***************************************************************************)
\* f is h as the first n bytes of a name are read.
Matches(f, n) == f = [i \in 0..n |-> IF i = 0 THEN h ELSE MatchField(f[i - 1], Data[at + i - 1])]

\* There is such a function: the definition of Matched defines something.
LEMMA MatchesExists ==
    ASSUME NEW n \in Nat
    PROVE  \E f : Matches(f, n)
  <1> DEFINE Bad == {m \in Nat : ~\E f : Matches(f, m)}
  <1> SUFFICES ASSUME n \in Bad PROVE FALSE
    OBVIOUS
  <1>1. PICK m \in Bad : \A r \in Bad : m <= r
    <2>1. Bad \in SUBSET Nat /\ Bad # {}
      OBVIOUS
    <2> HIDE DEF Bad
    <2>2. QED
      BY <2>1, LeastNatural
  <1>2. CASE m = 0
    <2>1. Matches([i \in 0..0 |-> h], 0)
      BY DEF Matches
    <2>2. QED
      BY <1>2, <2>1
  <1>3. CASE m # 0
    <2>1. m - 1 \in Nat /\ ~(m <= m - 1)
      BY <1>3
    <2>2. m - 1 \notin Bad
      BY <1>1, <2>1
    <2>3. PICK f : Matches(f, m - 1)
      BY <2>1, <2>2
    <2> DEFINE v(i, b) == IF i = 0 THEN h ELSE MatchField(b, Data[at + i - 1])
    <2>4. PICK g : g = [i \in 0..m |-> IF i < m THEN f[i] ELSE v(m, f[m - 1])]
      OBVIOUS
    <2>5. f = [i \in 0..(m - 1) |-> v(i, f[i - 1])]
      BY <2>3 DEF Matches
    <2>6. \A b, c : v(0, b) = v(0, c)
      OBVIOUS
    <2> HIDE DEF v
    <2>7. \A i \in 0..m : g[i] = v(i, g[i - 1])
      <3>1. \A i \in 0..m : i < m => g[i] = f[i] /\ f[i] = v(i, f[i - 1])
        BY <2>1, <2>4, <2>5
      <3>2. \A i \in 1..m : g[i - 1] = f[i - 1]
        BY <2>1, <2>4
      <3>3. g[m] = v(m, g[m - 1])
        BY <1>3, <2>1, <2>4, <3>2
      <3>4. QED
        BY <2>6, <3>1, <3>2, <3>3
    <2>8. g = [i \in 0..m |-> v(i, g[i - 1])]
      <3>1. DOMAIN g = 0..m /\ g = [i \in 0..m |-> g[i]]
        BY <2>4
      <3>2. QED
        BY <2>7, <3>1
    <2>9. Matches(g, m)
      BY <2>8 DEF Matches, v
    <2>10. QED
      BY <2>9
  <1>4. QED
    BY <1>2, <1>3

\* A letter of a name changes neither the content length nor takes a flag away.
LEMMA MatchFieldKeeps ==
    ASSUME NEW m, Keeping(m), NEW ch
    PROVE  Keeping(MatchField(m, ch))
  <1>1. DOMAIN m = HFields /\ m.content_length \in 0..ULLONG_MAX /\ h.flags \subseteq m.flags
    BY DEF Keeping
  <1> DEFINE Same(x) == DOMAIN x = HFields /\ x.content_length = m.content_length /\ x.flags = m.flags
  <1>2. ASSUME NEW i, NEW s PROVE Same([m EXCEPT !.index = i, !.header_state = s])
    BY <1>1 DEF HFields
  <1>3. ASSUME NEW s PROVE Same([m EXCEPT !.header_state = s])
    BY <1>1 DEF HFields
  <1>4. PICK next : /\ Same(next)
                    /\ MatchField(m, ch) = IF next.header_state = "h_transfer_encoding"
                                           THEN [next EXCEPT !.flags = @ \cup {"F_TRANSFER_ENCODING"}] ELSE next
    <2>1. PICK c, hs : c = Lower(ch) /\ hs = m.header_state
      OBVIOUS
    <2>2. Same(MatchWord(m, c, "h_general"))
      BY <1>2 DEF MatchWord
    <2> HIDE DEF Same
    <2>3. CASE hs \in DOMAIN Words
      BY <2>1, <2>2, <2>3 DEF MatchField
    <2>4. CASE hs \notin DOMAIN Words /\ hs \in {"h_C", "h_CO", "h_CON"}
      <3>1. PICK i, s : /\ i = m.index + 1
                        /\ s = IF \E x \in Con : x[1] = hs /\ x[2] = c
                               THEN (CHOOSE x \in Con : x[1] = hs /\ x[2] = c)[3] ELSE "h_general"
        OBVIOUS
      <3>2. PICK next : next = [m EXCEPT !.index = i, !.header_state = s]
        OBVIOUS
      <3>3. Same(next)
        BY <1>2, <3>2
      <3>4. MatchField(m, ch) = IF next.header_state = "h_transfer_encoding"
                                THEN [next EXCEPT !.flags = @ \cup {"F_TRANSFER_ENCODING"}] ELSE next
        BY <2>1, <2>4, <3>1, <3>2 DEF MatchField
      <3>5. QED
        BY <3>3, <3>4
    <2>5. CASE hs \notin DOMAIN Words /\ hs \notin {"h_C", "h_CO", "h_CON"}
      BY <1>3, <2>1, <2>5 DEF MatchField
    <2>6. QED
      BY <2>3, <2>4, <2>5
  <1>5. Keeping(next) /\ Keeping([next EXCEPT !.flags = @ \cup {"F_TRANSFER_ENCODING"}])
    BY <1>1, <1>4 DEF Keeping, HFields
  <1>6. QED
    BY <1>4, <1>5

\* Nor does a whole name.
LEMMA MatchedKeeps ==
    ASSUME IInv, at # 0, at <= end
    PROVE  \A i \in 0..(end + 1 - at) : Keeping(Matched[i])
  <1>1. at \in Nat /\ end \in Nat
    BY PlacesNat DEF IInv
  <1>2. PICK n \in Nat : n = end + 1 - at
    BY <1>1
  <1>3. PICK f : f = Matched
    OBVIOUS
  <1>4. Matches(f, n)
    <2>1. \E g : g = [i \in 0..(end + 1 - at) |-> IF i = 0 THEN h ELSE MatchField(g[i - 1], Data[at + i - 1])]
      BY <1>2, MatchesExists DEF Matches
    <2>2. Matched = [i \in 0..(end + 1 - at) |-> IF i = 0 THEN h ELSE MatchField(Matched[i - 1], Data[at + i - 1])]
      BY <2>1 DEF Matched
    <2>3. QED
      BY <1>2, <1>3, <2>2 DEF Matches
  <1>5. \A i \in 0..n : f[i] = IF i = 0 THEN h ELSE MatchField(f[i - 1], Data[at + i - 1])
    BY <1>4 DEF Matches
  <1> DEFINE Bad == {i \in 0..n : ~Keeping(f[i])}
  <1>6. SUFFICES ASSUME Bad # {} PROVE FALSE
    BY <1>2, <1>3
  <1>7. PICK i \in Bad : \A r \in Bad : i <= r
    <2>1. Bad \in SUBSET Nat
      OBVIOUS
    <2> HIDE DEF Bad
    <2>2. QED
      BY <1>6, <2>1, LeastNatural
  <1>8. i \in 0..n /\ ~Keeping(f[i])
    BY <1>7
  <1>9. i # 0
    BY <1>5, <1>8, KeepingItself DEF IInv
  <1>10. i - 1 \in 0..n /\ ~(i <= i - 1)
    BY <1>8, <1>9
  <1>11. Keeping(f[i - 1])
    BY <1>7, <1>10
  <1>12. f[i] = MatchField(f[i - 1], Data[at + i - 1])
    BY <1>5, <1>8, <1>9
  <1>13. QED
    BY <1>8, <1>11, <1>12, MatchFieldKeeps

\* Some byte is the first of its kind, or none is.
LEMMA FirstExists ==
    ASSUME at \in Nat, end \in Nat, at <= end, NEW S
    PROVE  \E q \in at..(end + 1) : (q = end + 1 \/ q \in S) /\ \A i \in at..(q - 1) : i \notin S
  <1> DEFINE T == {q \in at..(end + 1) : q = end + 1 \/ q \in S}
  <1>1. PICK q \in T : \A r \in T : q <= r
    <2>1. T \in SUBSET Nat
      OBVIOUS
    <2>2. T # {}
      <3>1. end + 1 \in T
        OBVIOUS
      <3>2. QED
        BY <3>1
    <2> HIDE DEF T
    <2>3. QED
      BY <2>1, <2>2, LeastNatural
  <1>2. q \in at..(end + 1) /\ (q = end + 1 \/ q \in S)
    BY <1>1
  <1>3. ASSUME NEW i \in at..(q - 1), i \in S PROVE FALSE
    <2>1. i \in T /\ ~(q <= i)
      BY <1>2, <1>3
    <2>2. QED
      BY <1>1, <2>1
  <1>4. QED
    BY <1>2, <1>3

\* A text goes on behind the data of this call.
LEMMA TextToEnd ==
    ASSUME IInv, at # 0, at <= end, NEW f \in Fields, state \in During[f], state \notin Over,
           NEW n, n = Count + (end - at), Advance(state, n, end), marks' = marks, h.flags \subseteq h'.flags, Says(state, h')
    PROVE  IInv'
  <1>1. at \in Nat /\ end \in Nat /\ saved \in Nat /\ Count \in Nat /\ nread \in Nat
    BY PlacesNat, CountIs DEF IInv
  <1>2. n \in Nat
    BY <1>1
  <1>3. PICK r \in at..end + 1 : r = end + 1
    BY <1>1
  <1>4. state' = state /\ nread' = n /\ saved' \in Nat /\ at' = r /\ again' = FALSE /\ UNCHANGED cursor
    BY <1>1, <1>2, <1>3 DEF Advance, Stored
  <1>5. ASSUME Heading(state, h') PROVE Heading(state, h) /\ n >= nread + (r - at) + One(FALSE) - One(again)
    <2>1. Heading(state, h)
      BY <1>5, HeadingBefore
    <2>2. PICK y \in 0..1 : y = One(again)
      BY DEF One
    <2>3. Count = nread + 1 - y
      BY <2>1, <2>2, CountIs DEF IInv
    <2>4. One(FALSE) = 0
      BY DEF One
    <2>5. n >= nread + (r - at) + 0 - y
      BY <1>1, <1>3, <2>3
    <2>6. QED
      BY <2>1, <2>2, <2>4, <2>5
  <1>6. QED
    BY <1>2, <1>4, <1>5, TextKeeps

\* A failure at any byte of this call's data.
LEMMA FailsAt ==
    ASSUME IInv, at # 0, at <= end, NEW q \in at..end, NEW n \in Nat, NEW e, e \notin {"OK", "PAUSED"}, FailAt(q, n, e)
    PROVE  IInv'
  <1>1. at \in Nat /\ end \in Nat /\ Len(Data) \in Nat /\ end <= Len(Data)
    BY PlacesNat DEF IInv
  <1>2. q \in 1..Len(Data) + 1
    BY <1>1
  <1>3. QED
    BY <1>2, FailAtKeeps

\* The first byte of a name, or the end of the headers.
LEMMA HeaderFieldStartKeeps ==
    ASSUME IInv, HeaderFieldStart
    PROVE  IInv'
  <1>1. at # 0 /\ at <= end /\ state \in Quiet
    BY DEF HeaderFieldStart, Reading, Quiet
  <1>2. DOMAIN h = HFields /\ h.content_length \in 0..ULLONG_MAX
    BY DEF IInv, Says
  <1>3. CASE (NextByte("s_headers_almost_done") \/ Reexecute("s_headers_almost_done")) /\ h' = h
    <2>1. "s_headers_almost_done" \in Quiet
      BY DEF Quiet
    <2>2. QED
      BY <1>1, <1>3, <2>1, QuietKeeps, KeepingItself DEF IInv
  <1>4. ASSUME NEW s, Advance("s_header_field", Count, at), marks' = Marked("header_field"),
               h' = [h EXCEPT !.index = 0, !.header_state = s]
        PROVE  IInv'
    <2>1. Keeping(h')
      BY <1>2, <1>4 DEF Keeping, HFields
    <2>2. "header_field" \in Fields /\ "s_header_field" \in During["header_field"] /\ "s_header_field" \notin Special
      BY DEF Fields, During, Special, ChunkHeads, ChunkBodies
    <2>3. Says("s_header_field", h') /\ h.flags \subseteq h'.flags
      BY <2>1, <2>2, SaysPlain DEF Keeping
    <2>4. Unmarked(state) /\ state \notin Over
      BY <1>1, QuietStates
    <2>5. QED
      BY <1>1, <1>4, <2>2, <2>3, <2>4, TextNext
  <1>5. CASE Fail("INVALID_HEADER_TOKEN")
    BY <1>1, <1>5, FailKeeps
  <1>6. QED
    BY <1>3, <1>4, <1>5 DEF HeaderFieldStart

\* The bytes of a name.
LEMMA HeaderFieldKeeps ==
    ASSUME IInv, HeaderField
    PROVE  IInv'
  <1>1. at # 0 /\ at <= end /\ state = "s_header_field"
    BY DEF HeaderField, Reading
  <1>2. at \in Nat /\ end \in Nat /\ Count \in Nat
    BY PlacesNat, CountIs DEF IInv
  <1>3. PICK q : q = FirstFrom(LAMBDA ch : ch \notin TokenChar)
    OBVIOUS
  <1>4. q \in at..(end + 1)
    <2>1. PICK S : S = {i \in at..end : Data[i] \notin TokenChar}
      OBVIOUS
    <2>2. PICK p \in at..(end + 1) : (p = end + 1 \/ p \in S) /\ \A i \in at..(p - 1) : i \notin S
      BY <1>1, <1>2, FirstExists
    <2>3. \A i \in at..(p - 1) : i \in at..end
      BY <1>2, <2>2
    <2>4. (p = end + 1 \/ Data[p] \notin TokenChar) /\ \A i \in at..(p - 1) : ~(Data[i] \notin TokenChar)
      BY <2>1, <2>2, <2>3
    <2>5. QED
      BY <1>3, <2>4 DEF FirstFrom
  <1>5. PICK m, n : m = Matched[q - at] /\ n = CountTo(q)
    OBVIOUS
  <1>6. IF n > MaxHeaderSize
        THEN FailAt(IF q > end THEN end ELSE q, n, "HEADER_OVERFLOW")
        ELSE \/ q > end /\ Advance(state, n, end) /\ h' = m /\ UNCHANGED marks
             \/ /\ q <= end /\ Data[q] = ":"
                /\ h' = m
                /\ DataUpTo("header_field", q - 1, "s_header_value_discard_ws", n, q, TRUE)
             \/ q <= end /\ Data[q] # ":" /\ FailAt(q, n, "INVALID_HEADER_TOKEN")
    BY <1>3, <1>5 DEF HeaderField
  <1>7. Keeping(m)
    <2>1. q - at \in 0..(end + 1 - at)
      BY <1>1, <1>2, <1>4
    <2>2. QED
      BY <1>1, <1>5, <2>1, MatchedKeeps
  <1>8. n \in Nat /\ (q > end => n = Count + (end - at)) /\ (q <= end => n = Count + (q - at))
    BY <1>1, <1>2, <1>4, <1>5 DEF CountTo
  <1>9. "header_field" \in Fields /\ state \in During["header_field"] /\ state \in Speaking
    BY <1>1 DEF Fields, During, Speaking
  <1>10. state \notin Over /\ state \notin Special
    BY <1>1, <1>9, SpeakingStates
  <1>11. ASSUME NEW p \in at..end, NEW e \in {"HEADER_OVERFLOW", "INVALID_HEADER_TOKEN"}, FailAt(p, n, e) PROVE IInv'
    BY <1>1, <1>8, <1>11, FailsAt
  <1>12. CASE FailAt(IF q > end THEN end ELSE q, n, "HEADER_OVERFLOW")
    <2>1. PICK p \in at..end : p = IF q > end THEN end ELSE q
      BY <1>1, <1>2, <1>4
    <2>2. QED
      BY <1>11, <1>12, <2>1
  <1>13. CASE q > end /\ Advance(state, n, end) /\ h' = m /\ UNCHANGED marks
    <2>1. Says(state, h') /\ h.flags \subseteq h'.flags
      BY <1>7, <1>10, <1>13, SaysPlain DEF Keeping
    <2>2. QED
      BY <1>1, <1>8, <1>9, <1>10, <1>13, <2>1, TextToEnd
  <1>14. CASE /\ q <= end /\ h' = m
              /\ DataUpTo("header_field", q - 1, "s_header_value_discard_ws", n, q, TRUE)
    <2>1. q \in at..end /\ TRUE \in BOOLEAN
      BY <1>2, <1>4, <1>14
    <2>2. "s_header_value_discard_ws" \in Quiet /\ Keeping(h')
      BY <1>7, <1>14 DEF Quiet
    <2>3. QED
      BY <1>1, <1>8, <1>9, <1>10, <1>14, <2>1, <2>2, TextEnds
  <1>15. CASE q <= end /\ FailAt(q, n, "INVALID_HEADER_TOKEN")
    <2>1. q \in at..end
      BY <1>2, <1>4, <1>15
    <2>2. QED
      BY <1>11, <1>15, <2>1
  <1>16. QED
    BY <1>6, <1>12, <1>13, <1>14, <1>15

\* What reading a value leaves of h.
Valued(m) ==
    /\ DOMAIN m = HFields \cup {"bad", "badAt"}
    /\ m.content_length \in 0..ULLONG_MAX /\ h.flags \subseteq m.flags /\ m.header_state \in InValue

\* The digits are numbers.
LEMMA Digits ==
    ASSUME NEW ch
    PROVE  /\ ch \in Num => Digit(ch) \in 0..9
           /\ ch \in Hex => HexValue[ch] \in 0..15
  BY TextAssumption

\* A content length has the width of its type.
LEMMA LengthIs ==
    ASSUME NEW x \in Nat, NEW base \in Nat, NEW d \in Nat
    PROVE  LengthWith(x, base, d) \in 0..ULLONG_MAX
  <1>1. PICK y \in Nat : y = x * base + d
    OBVIOUS
  <1>2. y % (ULLONG_MAX + 1) \in 0..ULLONG_MAX
    BY Bounds
  <1>3. QED
    BY <1>1, <1>2 DEF LengthWith

\* A byte of a content length.
LEMMA MatchLengthKeeps ==
    ASSUME NEW m, Valued(m), NEW ch
    PROVE  Valued(MatchLength(m, ch))
  <1>1. CASE ch = " "
    <2>1. "h_content_length_ws" \in InValue
      BY DEF InValue
    <2>2. QED
      BY <1>1, <2>1 DEF Valued, HFields, MatchLength
  <1>2. CASE ch # " " /\ (m.header_state = "h_content_length_ws" \/ ch \notin Num \/ TooLong(m.content_length, 10))
    BY <1>2 DEF Valued, HFields, MatchLength
  <1>3. CASE ch # " " /\ ~(m.header_state = "h_content_length_ws" \/ ch \notin Num \/ TooLong(m.content_length, 10))
    <2>1. Digit(ch) \in Nat
      <3>1. ch \in Num
        BY <1>3
      <3>2. PICK d : d = Digit(ch)
        OBVIOUS
      <3>3. d \in 0..9
        BY <3>1, <3>2, Digits
      <3>4. QED
        BY <3>2, <3>3
    <2>2. m.content_length \in Nat /\ 10 \in Nat
      BY Bounds DEF Valued
    <2>3. PICK c : c = LengthWith(m.content_length, 10, Digit(ch))
      OBVIOUS
    <2>4. c \in 0..ULLONG_MAX
      BY <2>1, <2>2, <2>3, LengthIs
    <2>5. MatchLength(m, ch) = [m EXCEPT !.content_length = c]
      BY <1>3, <2>3 DEF MatchLength
    <2>6. QED
      BY <2>4, <2>5 DEF Valued, HFields
  <1>4. QED
    BY <1>1, <1>2, <1>3

\* A byte of a value.
LEMMA MatchValueKeeps ==
    ASSUME NEW m, Valued(m), NEW ch
    PROVE  Valued(MatchValue(m, ch))
  <1>1. PICK hs \in InValue : hs = m.header_state
    BY DEF Valued
  <1> DEFINE te == hs \in {"h_matching_transfer_encoding_token_start", "h_matching_transfer_encoding_chunked",
                           "h_matching_transfer_encoding_token", "h_transfer_encoding_chunked"}
  <1>2. PICK token \in InValue :
          token = IF te THEN "h_matching_transfer_encoding_token" ELSE "h_matching_connection_token"
    BY DEF InValue
  <1>3. PICK start \in InValue :
          start = IF te THEN "h_matching_transfer_encoding_token_start" ELSE "h_matching_connection_token_start"
    BY DEF InValue
  <1>4. "h_general" \in InValue
    BY DEF InValue
  <1>5. CASE m.bad
    BY <1>5 DEF MatchValue
  <1>6. CASE ~m.bad /\ hs \in {"h_content_length_num", "h_content_length_ws"}
    <2>1. MatchValue(m, ch) = MatchLength(m, ch)
      BY <1>1, <1>6 DEF MatchValue, Known, Words
    <2>2. QED
      BY <2>1, MatchLengthKeeps
  <1>7. CASE ~m.bad /\ hs = start
    <2>1. PICK s : s = CASE te /\ Lower(ch) = "c" -> "h_matching_transfer_encoding_chunked"
                         [] te /\ ch \in TokenChar \ {"c", "C"} -> "h_matching_transfer_encoding_token"
                         [] ~te /\ ch \in TokenChar -> ConnectionToken(Lower(ch))
                         [] ch \in {" ", "\t"} -> hs
                         [] OTHER -> "h_general"
      OBVIOUS
    <2>2. MatchValue(m, ch) = [m EXCEPT !.header_state = s]
      <3>1. MatchValue(m, ch) = MatchTokenStart(m, ch, te)
        BY <1>1, <1>3, <1>7 DEF MatchValue, Known, Words
      <3>2. QED
        BY <1>1, <2>1, <3>1 DEF MatchTokenStart
    <2>3. s \in InValue
      <3>1. ConnectionToken(Lower(ch)) \in InValue
        BY DEF ConnectionToken, InValue
      <3>2. QED
        BY <2>1, <3>1 DEF InValue
    <2>4. QED
      BY <2>2, <2>3 DEF Valued, HFields
  <1>8. CASE ~m.bad /\ hs \in DOMAIN Words
    <2>1. hs \in {"h_matching_transfer_encoding_chunked", "h_matching_connection_keep_alive", "h_matching_connection_close",
                  "h_matching_connection_upgrade"}
      BY <1>8 DEF Words, InValue
    <2>2. Words[hs][2] \in InValue
      BY <2>1 DEF Words, InValue
    <2>3. MatchValue(m, ch) = MatchWord(m, Lower(ch), token)
      BY <1>1, <1>2, <1>8, <2>1 DEF MatchValue, Known
    <2>4. PICK i : i = m.index + 1
      OBVIOUS
    <2>5. PICK s : s = IF Lower(ch) # CharAt(Words[hs][1], i) THEN token
                       ELSE IF i = Len(Words[hs][1]) - 1 THEN Words[hs][2] ELSE hs
      OBVIOUS
    <2>6. s \in InValue
      BY <2>2, <2>5
    <2>7. MatchValue(m, ch) = [m EXCEPT !.index = i, !.header_state = s]
      BY <1>1, <2>3, <2>4, <2>5 DEF MatchWord
    <2>8. QED
      BY <2>6, <2>7 DEF Valued, HFields
  <1>9. CASE ~m.bad /\ hs = token
    <2>1. MatchValue(m, ch) = IF ch = "," THEN [m EXCEPT !.header_state = start, !.index = 0] ELSE m
      BY <1>1, <1>2, <1>3, <1>9 DEF MatchValue, Known, Words
    <2>2. QED
      BY <2>1 DEF Valued, HFields
  <1>10. CASE ~m.bad /\ hs = "h_transfer_encoding_chunked"
    <2>1. MatchValue(m, ch) = IF ch = " " THEN m ELSE [m EXCEPT !.header_state = token]
      BY <1>1, <1>2, <1>10 DEF MatchValue, Known, Words
    <2>2. QED
      BY <2>1 DEF Valued, HFields
  <1>11. CASE ~m.bad /\ hs \in DOMAIN Known \ {"h_transfer_encoding_chunked"}
    <2>1. MatchValue(m, ch) =
              CASE ch = "," -> [m EXCEPT !.flags = @ \cup ValueFlag(m), !.header_state = start, !.index = 0]
                [] ch = " " -> m
                [] OTHER -> [m EXCEPT !.header_state = token]
      BY <1>1, <1>2, <1>3, <1>11 DEF MatchValue, Known, Words
    <2>2. QED
      BY <2>1 DEF Valued, HFields
  <1>12. CASE /\ ~m.bad /\ hs \notin {"h_content_length_num", "h_content_length_ws"} /\ hs # start
              /\ hs \notin DOMAIN Words /\ hs # token /\ hs # "h_transfer_encoding_chunked"
              /\ hs \notin DOMAIN Known \ {"h_transfer_encoding_chunked"}
    <2>1. MatchValue(m, ch) = [m EXCEPT !.header_state = "h_general"]
      BY <1>1, <1>2, <1>3, <1>12 DEF MatchValue
    <2>2. QED
      BY <1>4, <2>1 DEF Valued, HFields
  <1>13. QED
    BY <1>5, <1>6, <1>7, <1>8, <1>9, <1>10, <1>11, <1>12

\* One more byte of a value, at place q.
ScanStep(m, q) ==
    LET r == MatchValue(m, Data[q])
    IN  IF m.bad THEN m ELSE IF r.bad THEN [r EXCEPT !.badAt = q] ELSE r

\* h before the first byte of this call's data.
Unread == [f \in DOMAIN h \cup {"bad", "badAt"} |-> IF f = "bad" THEN FALSE ELSE IF f = "badAt" THEN 0 ELSE h[f]]

\* f is h as the first n bytes of a value are read.
Scans(f, n) == f = [i \in 0..n |-> IF i = 0 THEN Unread ELSE ScanStep(f[i - 1], at + i - 1)]

\* There is such a function: the definition of Scanned defines something.
LEMMA ScansExists ==
    ASSUME NEW n \in Nat
    PROVE  \E f : Scans(f, n)
  <1> DEFINE Bad == {m \in Nat : ~\E f : Scans(f, m)}
  <1> SUFFICES ASSUME n \in Bad PROVE FALSE
    OBVIOUS
  <1>1. PICK m \in Bad : \A r \in Bad : m <= r
    <2>1. Bad \in SUBSET Nat /\ Bad # {}
      OBVIOUS
    <2> HIDE DEF Bad
    <2>2. QED
      BY <2>1, LeastNatural
  <1>2. CASE m = 0
    <2>1. Scans([i \in 0..0 |-> Unread], 0)
      BY DEF Scans
    <2>2. QED
      BY <1>2, <2>1
  <1>3. CASE m # 0
    <2>1. m - 1 \in Nat /\ ~(m <= m - 1)
      BY <1>3
    <2>2. m - 1 \notin Bad
      BY <1>1, <2>1
    <2>3. PICK f : Scans(f, m - 1)
      BY <2>1, <2>2
    <2> DEFINE v(i, b) == IF i = 0 THEN Unread ELSE ScanStep(b, at + i - 1)
    <2>4. PICK g : g = [i \in 0..m |-> IF i < m THEN f[i] ELSE v(m, f[m - 1])]
      OBVIOUS
    <2>5. f = [i \in 0..(m - 1) |-> v(i, f[i - 1])]
      BY <2>3 DEF Scans
    <2>6. \A b, c : v(0, b) = v(0, c)
      OBVIOUS
    <2> HIDE DEF v
    <2>7. \A i \in 0..m : g[i] = v(i, g[i - 1])
      <3>1. \A i \in 0..m : i < m => g[i] = f[i] /\ f[i] = v(i, f[i - 1])
        BY <2>1, <2>4, <2>5
      <3>2. \A i \in 1..m : g[i - 1] = f[i - 1]
        BY <2>1, <2>4
      <3>3. g[m] = v(m, g[m - 1])
        BY <1>3, <2>1, <2>4, <3>2
      <3>4. QED
        BY <2>6, <3>1, <3>2, <3>3
    <2>8. g = [i \in 0..m |-> v(i, g[i - 1])]
      <3>1. DOMAIN g = 0..m /\ g = [i \in 0..m |-> g[i]]
        BY <2>4
      <3>2. QED
        BY <2>7, <3>1
    <2>9. Scans(g, m)
      BY <2>8 DEF Scans, v
    <2>10. QED
      BY <2>9
  <1>4. QED
    BY <1>2, <1>3

\* What the first i bytes of this call's data leave of h; a bad byte is one of them.
ReadTo(m, i) == Valued(m) /\ (m.bad => m.badAt \in at..(at + i - 1))

\* One more byte keeps this.
LEMMA ScanStepKeeps ==
    ASSUME NEW m, NEW i \in Nat, at \in Nat, ReadTo(m, i)
    PROVE  ReadTo(ScanStep(m, at + i), i + 1)
  <1>1. PICK q \in Nat : q = at + i
    OBVIOUS
  <1>2. q \in at..(at + (i + 1) - 1) /\ \A p \in at..(at + i - 1) : p \in at..(at + (i + 1) - 1)
    BY <1>1
  <1>3. PICK r : r = MatchValue(m, Data[q])
    OBVIOUS
  <1>4. Valued(r) /\ Valued(m)
    BY <1>3, MatchValueKeeps DEF ReadTo
  <1>5. ScanStep(m, q) = IF m.bad THEN m ELSE IF r.bad THEN [r EXCEPT !.badAt = q] ELSE r
    BY <1>3 DEF ScanStep
  <1>6. CASE m.bad
    BY <1>1, <1>2, <1>5, <1>6 DEF ReadTo
  <1>7. CASE ~m.bad /\ r.bad
    <2>1. PICK w : w = [r EXCEPT !.badAt = q]
      OBVIOUS
    <2>2. Valued(w) /\ w.badAt = q
      BY <1>4, <2>1 DEF Valued, HFields
    <2>3. ScanStep(m, q) = w
      BY <1>5, <1>7, <2>1
    <2>4. QED
      BY <1>1, <1>2, <2>2, <2>3 DEF ReadTo
  <1>8. CASE ~m.bad /\ ~r.bad
    <2>1. ScanStep(m, q) = r
      BY <1>5, <1>8
    <2>2. QED
      BY <1>1, <1>4, <1>8, <2>1 DEF ReadTo
  <1>9. QED
    BY <1>6, <1>7, <1>8

\* So does the whole of it.
LEMMA ScannedKeeps ==
    ASSUME IInv, at # 0, at <= end, state = "s_header_value"
    PROVE  \A i \in 0..(end + 1 - at) : ReadTo(Scanned[i], i)
  <1>1. at \in Nat /\ end \in Nat
    BY PlacesNat DEF IInv
  <1>2. PICK n \in Nat : n = end + 1 - at
    BY <1>1
  <1>3. PICK f : f = Scanned
    OBVIOUS
  <1>4. Scans(f, n)
    <2>1. \E g : g = [i \in 0..(end + 1 - at) |-> IF i = 0 THEN Unread ELSE ScanStep(g[i - 1], at + i - 1)]
      BY <1>2, ScansExists DEF Scans
    <2>2. Scanned = [i \in 0..(end + 1 - at) |-> IF i = 0 THEN Unread ELSE ScanStep(Scanned[i - 1], at + i - 1)]
      BY <2>1 DEF Scanned, Unread, ScanStep
    <2>3. QED
      BY <1>2, <1>3, <2>2 DEF Scans
  <1>5. \A i \in 0..n : f[i] = IF i = 0 THEN Unread ELSE ScanStep(f[i - 1], at + i - 1)
    BY <1>4 DEF Scans
  <1>6. ReadTo(Unread, 0)
    <2>1. Says(state, h)
      BY DEF IInv
    <2>2. DOMAIN h = HFields /\ h.content_length \in 0..ULLONG_MAX /\ h.header_state \in InValue
      BY <2>1 DEF Says
    <2>3. PICK u : u = Unread
      OBVIOUS
    <2>4. u = [x \in HFields \cup {"bad", "badAt"} |-> IF x = "bad" THEN FALSE ELSE IF x = "badAt" THEN 0 ELSE h[x]]
      BY <2>2, <2>3 DEF Unread
    <2>5. /\ DOMAIN u = HFields \cup {"bad", "badAt"} /\ u.content_length = h.content_length /\ u.flags = h.flags
          /\ u.header_state = h.header_state /\ ~u.bad
      BY <2>4 DEF HFields
    <2>6. QED
      BY <2>2, <2>3, <2>5 DEF ReadTo, Valued
  <1> DEFINE Bad == {i \in 0..n : ~ReadTo(f[i], i)}
  <1>7. SUFFICES ASSUME Bad # {} PROVE FALSE
    BY <1>2, <1>3
  <1>8. PICK i \in Bad : \A r \in Bad : i <= r
    <2>1. Bad \in SUBSET Nat
      OBVIOUS
    <2> HIDE DEF Bad
    <2>2. QED
      BY <1>7, <2>1, LeastNatural
  <1>9. i \in 0..n /\ ~ReadTo(f[i], i)
    BY <1>8
  <1>10. i # 0
    BY <1>5, <1>6, <1>9
  <1>11. PICK k \in Nat : k = i - 1 /\ i = k + 1 /\ k \in 0..n /\ ~(i <= k)
    BY <1>9, <1>10
  <1>12. ReadTo(f[k], k)
    BY <1>8, <1>11
  <1>13. f[i] = ScanStep(f[k], at + k)
    <2>1. f[i] = ScanStep(f[i - 1], at + i - 1)
      BY <1>5, <1>9, <1>10
    <2>2. at + i - 1 = at + k
      BY <1>1, <1>11
    <2>3. QED
      BY <1>11, <2>1, <2>2
  <1>14. ReadTo(ScanStep(f[k], at + k), k + 1)
    BY <1>1, <1>12, ScanStepKeeps
  <1>15. QED
    BY <1>9, <1>11, <1>13, <1>14

\* Blanks before a value.
LEMMA DiscardWsKeeps ==
    ASSUME IInv, DiscardWs
    PROVE  IInv'
  <1>1. at # 0 /\ at <= end /\ state = "s_header_value_discard_ws" /\ h' = h
    BY DEF DiscardWs, Reading
  <1>2. PICK s : /\ NextByte(s)
                 /\ s = CASE Ch \in {" ", "\t"} -> state
                          [] Ch = CR -> "s_header_value_discard_ws_almost_done"
                          [] Ch = LF -> "s_header_value_discard_lws"
    BY DEF DiscardWs
  <1>3. s \in Quiet /\ state \in Quiet
    BY <1>1, <1>2 DEF DiscardWs, Quiet, ExpectStates
  <1>4. QED
    BY <1>1, <1>2, <1>3, QuietKeeps, KeepingItself DEF IInv

\* What the first byte of a value makes of h.
LEMMA ValueBegunSays ==
    ASSUME Says(state, h), h.header_state = "h_content_length" => Ch \in Num
    PROVE  Says("s_header_value", ValueBegun) /\ h.flags \subseteq ValueBegun.flags
  <1>1. DOMAIN h = HFields /\ h.content_length \in 0..ULLONG_MAX
    BY DEF Says
  <1>2. PICK hs : hs = h.header_state
    OBVIOUS
  <1>3. PICK to : to = CASE hs = "h_transfer_encoding" ->
                              IF Lower(Ch) = "c" THEN "h_matching_transfer_encoding_chunked"
                              ELSE "h_matching_transfer_encoding_token"
                         [] hs = "h_content_length" -> "h_content_length_num"
                         [] hs = "h_connection" -> ConnectionToken(Lower(Ch))
                         [] hs \in {"h_matching_transfer_encoding_token_start", "h_content_length_ws",
                                    "h_matching_connection_token_start"} -> hs
                         [] OTHER -> "h_general"
    OBVIOUS
  <1>4. to \in InValue
    <2>1. ConnectionToken(Lower(Ch)) \in InValue
      BY DEF ConnectionToken, InValue
    <2>2. QED
      BY <1>3, <2>1 DEF InValue
  <1>5. PICK begun : begun = [h EXCEPT !.index = 0, !.header_state = to]
    OBVIOUS
  <1>6. ValueBegun = CASE hs = "h_upgrade" -> [begun EXCEPT !.flags = @ \cup {"F_UPGRADE"}]
                       [] hs = "h_content_length" -> [begun EXCEPT !.flags = @ \cup {"F_CONTENTLENGTH"},
                                                                   !.content_length = Digit(Ch)]
                       [] OTHER -> begun
    BY <1>2, <1>3, <1>5 DEF ValueBegun
  <1> DEFINE Good(m) == /\ DOMAIN m = HFields /\ m.content_length \in 0..ULLONG_MAX /\ m.header_state \in InValue
                        /\ h.flags \subseteq m.flags
  <1>7. Good(begun)
    BY <1>1, <1>4, <1>5 DEF HFields
  <1>8. Good(ValueBegun)
    <2>1. CASE hs = "h_upgrade"
      BY <1>6, <1>7, <2>1 DEF HFields
    <2>2. CASE hs = "h_content_length"
      <3>1. PICK d \in 0..9 : d = Digit(Ch)
        BY <1>2, <2>2, Digits
      <3>2. d \in 0..ULLONG_MAX
        BY <3>1, Bounds
      <3>3. ValueBegun = [begun EXCEPT !.flags = @ \cup {"F_CONTENTLENGTH"}, !.content_length = d]
        BY <1>6, <2>2, <3>1
      <3>4. QED
        BY <1>7, <3>2, <3>3 DEF HFields
    <2>3. CASE hs # "h_upgrade" /\ hs # "h_content_length"
      BY <1>6, <1>7, <2>3
    <2>4. QED
      BY <2>1, <2>2, <2>3
  <1>9. QED
    BY <1>8 DEF Says, ChunkHeads, ChunkBodies

\* The first byte of a value.
LEMMA ValueStartKeeps ==
    ASSUME IInv, ValueStart
    PROVE  IInv'
  <1>1. at # 0 /\ at <= end /\ state \in Quiet
    BY DEF ValueStart, Reading, Quiet
  <1>2. CASE /\ h.header_state = "h_content_length" => Ch \in Num /\ "F_CONTENTLENGTH" \notin h.flags
             /\ h' = ValueBegun
             /\ Advance("s_header_value", Count, at)
             /\ marks' = Marked("header_value")
    <2>1. Says("s_header_value", h') /\ h.flags \subseteq h'.flags
      BY <1>2, ValueBegunSays DEF IInv
    <2>2. "header_value" \in Fields /\ "s_header_value" \in During["header_value"]
      BY DEF Fields, During
    <2>3. Unmarked(state) /\ state \notin Over
      BY <1>1, QuietStates
    <2>4. QED
      BY <1>1, <1>2, <2>1, <2>2, <2>3, TextNext
  <1>3. CASE Fail("INVALID_CONTENT_LENGTH")
    BY <1>1, <1>3, FailKeeps
  <1>4. CASE Fail("UNEXPECTED_CONTENT_LENGTH")
    BY <1>1, <1>4, FailKeeps
  <1>5. QED
    BY <1>2, <1>3, <1>4 DEF ValueStart

\* The bytes of a value.
LEMMA HeaderValueKeeps ==
    ASSUME IInv, HeaderValue
    PROVE  IInv'
  <1>1. at # 0 /\ at <= end /\ state = "s_header_value"
    BY DEF HeaderValue, Reading
  <1>2. at \in Nat /\ end \in Nat /\ Count \in Nat
    BY PlacesNat, CountIs DEF IInv
  <1>3. PICK q : q = FirstFrom(LAMBDA ch : ch \in {CR, LF} \cup (IF h.lenient THEN {} ELSE ControlChar))
    OBVIOUS
  <1>4. q \in at..(end + 1)
    <2>1. PICK C : C = {CR, LF} \cup (IF h.lenient THEN {} ELSE ControlChar)
      OBVIOUS
    <2>2. PICK S : S = {i \in at..end : Data[i] \in C}
      OBVIOUS
    <2>3. PICK p \in at..(end + 1) : (p = end + 1 \/ p \in S) /\ \A i \in at..(p - 1) : i \notin S
      BY <1>1, <1>2, FirstExists
    <2>4. \A i \in at..(p - 1) : i \in at..end
      BY <1>2, <2>3
    <2>5. (p = end + 1 \/ Data[p] \in C) /\ \A i \in at..(p - 1) : ~(Data[i] \in C)
      BY <2>2, <2>3, <2>4
    <2>6. QED
      BY <1>3, <2>1, <2>5 DEF FirstFrom
  <1>5. PICK m, n : m = Scanned[q - at] /\ n = CountTo(q)
    OBVIOUS
  <1>6. (CASE m.bad -> FailAt(m.badAt, Count, "INVALID_CONTENT_LENGTH")
           [] ~m.bad /\ q > end ->
                  IF n > MaxHeaderSize THEN FailAt(end, n, "HEADER_OVERFLOW")
                  ELSE Advance(state, n, end) /\ h' = Plain(m) /\ UNCHANGED marks
           [] ~m.bad /\ q <= end /\ Data[q] = LF ->
                  IF n > MaxHeaderSize THEN FailAt(q, n, "HEADER_OVERFLOW")
                  ELSE /\ h' = Plain(m)
                       /\ DataUpTo("header_value", q - 1, "s_header_almost_done", n, q, FALSE)
           [] ~m.bad /\ q <= end /\ Data[q] = CR ->
                  /\ h' = Plain(m)
                  /\ DataUpTo("header_value", q - 1, "s_header_almost_done", n, q, TRUE)
           [] OTHER -> FailAt(q, Count, "INVALID_HEADER_TOKEN"))
    BY <1>3, <1>5, ZenonT(40) DEF HeaderValue
  <1>7. Valued(m) /\ (m.bad => m.badAt \in at..end)
    <2>1. PICK i \in 0..(end + 1 - at) : i = q - at
      BY <1>1, <1>2, <1>4
    <2>2. ReadTo(m, i)
      BY <1>1, <1>5, <2>1, ScannedKeeps
    <2>3. \A p \in at..(at + i - 1) : p \in at..end
      BY <1>2, <2>1
    <2>4. QED
      BY <2>2, <2>3 DEF ReadTo
  <1>8. Keeping(Plain(m)) /\ Says(state, Plain(m)) /\ h.flags \subseteq Plain(m).flags
    <2>1. DOMAIN h = HFields
      BY DEF IInv, Says
    <2>2. PICK p : p = Plain(m)
      OBVIOUS
    <2>3. p = [x \in HFields |-> m[x]]
      BY <2>1, <2>2 DEF Plain
    <2>4. /\ DOMAIN p = HFields /\ p.content_length = m.content_length /\ p.flags = m.flags
          /\ p.header_state = m.header_state
      BY <2>3 DEF HFields
    <2>5. QED
      BY <1>1, <1>7, <2>2, <2>4 DEF Keeping, Says, Valued, ChunkHeads, ChunkBodies
  <1>9. n \in Nat /\ (q > end => n = Count + (end - at)) /\ (q <= end => n = Count + (q - at))
    BY <1>1, <1>2, <1>4, <1>5 DEF CountTo
  <1>10. "header_value" \in Fields /\ state \in During["header_value"] /\ state \in Speaking
    BY <1>1 DEF Fields, During, Speaking
  <1>11. state \notin Over /\ "s_header_almost_done" \in Quiet
    BY <1>10, SpeakingStates DEF Quiet, ExpectStates
  <1>12. ASSUME NEW p \in at..end, NEW k \in {n, Count}, NEW e,
                e \in {"INVALID_CONTENT_LENGTH", "HEADER_OVERFLOW", "INVALID_HEADER_TOKEN"}, FailAt(p, k, e)
         PROVE  IInv'
    <2>1. k \in Nat /\ e \notin {"OK", "PAUSED"}
      BY <1>2, <1>9, <1>12
    <2>2. QED
      BY <1>1, <1>12, <2>1, FailsAt
  <1>13. CASE m.bad
    <2>1. FailAt(m.badAt, Count, "INVALID_CONTENT_LENGTH")
      BY <1>6, <1>13
    <2>2. PICK p \in at..end : p = m.badAt
      BY <1>7, <1>13
    <2>3. QED
      BY <1>12, <2>1, <2>2
  <1>14. CASE ~m.bad /\ q > end
    <2>1. IF n > MaxHeaderSize THEN FailAt(end, n, "HEADER_OVERFLOW")
          ELSE Advance(state, n, end) /\ h' = Plain(m) /\ UNCHANGED marks
      <3>1. ~m.bad /\ q > end /\ ~(q <= end)
        BY <1>2, <1>4, <1>14
      <3>2. QED
        BY <1>6, <3>1
    <2>2. CASE FailAt(end, n, "HEADER_OVERFLOW")
      <3>1. end \in at..end
        BY <1>1, <1>2
      <3>2. QED
        BY <1>12, <2>2, <3>1
    <2>3. CASE Advance(state, n, end) /\ h' = Plain(m) /\ UNCHANGED marks
      BY <1>1, <1>8, <1>9, <1>10, <1>11, <1>14, <2>3, TextToEnd
    <2>4. QED
      BY <2>1, <2>2, <2>3
  <1>15. CASE ~m.bad /\ ~(q > end)
    <2>1. q \in at..end /\ q <= end /\ n = Count + (q - at)
      BY <1>2, <1>4, <1>9, <1>15
    <2>2. ASSUME NEW adv \in BOOLEAN, h' = Plain(m),
                 DataUpTo("header_value", q - 1, "s_header_almost_done", n, q, adv)
          PROVE  IInv'
      BY <1>1, <1>8, <1>10, <1>11, <2>1, <2>2, TextEnds
    <2>3. CASE Data[q] = LF
      <3>1. IF n > MaxHeaderSize THEN FailAt(q, n, "HEADER_OVERFLOW")
            ELSE /\ h' = Plain(m)
                 /\ DataUpTo("header_value", q - 1, "s_header_almost_done", n, q, FALSE)
        BY <1>6, <1>15, <2>1, <2>3 DEF CR, LF
      <3>2. QED
        BY <1>12, <2>1, <2>2, <3>1
    <2>4. CASE Data[q] = CR
      <3>1. h' = Plain(m) /\ DataUpTo("header_value", q - 1, "s_header_almost_done", n, q, TRUE)
        BY <1>6, <1>15, <2>1, <2>4 DEF CR, LF
      <3>2. QED
        BY <2>2, <3>1
    <2>5. CASE Data[q] \notin {CR, LF}
      <3>1. FailAt(q, Count, "INVALID_HEADER_TOKEN")
        BY <1>6, <1>15, <2>1, <2>5
      <3>2. QED
        BY <1>12, <2>1, <3>1
    <2>6. QED
      BY <2>3, <2>4, <2>5
  <1>16. QED
    BY <1>13, <1>14, <1>15

\* A line that may go on in the next one.
LEMMA ValueLwsKeeps ==
    ASSUME IInv, ValueLws
    PROVE  IInv'
  <1>1. at # 0 /\ at <= end /\ state \in Quiet
    BY DEF ValueLws, Reading, Quiet
  <1>2. DOMAIN h = HFields /\ h.content_length \in 0..ULLONG_MAX
    BY DEF IInv, Says
  <1>3. CASE Ch \in {" ", "\t"}
    <2>1. /\ h' = h \/ h' = [h EXCEPT !.header_state = "h_content_length_ws"]
          /\ Reexecute("s_header_value_start")
      BY <1>3 DEF ValueLws
    <2>2. Keeping(h')
      BY <1>2, <2>1 DEF Keeping, HFields
    <2>3. "s_header_value_start" \in Quiet
      BY DEF Quiet
    <2>4. QED
      BY <1>1, <2>1, <2>2, <2>3, QuietKeeps
  <1>4. CASE Ch \notin {" ", "\t"}
    <2>1. h' = [h EXCEPT !.flags = @ \cup ValueFlag(h)] /\ Reexecute("s_header_field_start")
      BY <1>4 DEF ValueLws
    <2>2. Keeping(h')
      BY <1>2, <2>1 DEF Keeping, HFields
    <2>3. "s_header_field_start" \in Quiet
      BY DEF Quiet
    <2>4. QED
      BY <1>1, <2>1, <2>2, <2>3, QuietKeeps
  <1>5. QED
    BY <1>3, <1>4

\* What is told of a header is smaller than what is counted.
LEMMA HeaderSmall ==
    ASSUME IInv, at # 0, at <= end, pauses = 0, Heading(state, h)
    PROVE  HeaderBytes[Len(told)] \in Nat /\ HeaderBytes[Len(told)] + 1 <= Count
  <1>1. PICK b \in Nat : b = HeaderBytes[Len(told)]
    BY BytesCount DEF IInv
  <1>2. errno = "OK"
    BY DEF IInv, Places
  <1>3. Fits(b, at, end, again, marks, nread)
    BY <1>1, <1>2 DEF IInv, Budget, Alive
  <1>4. PICK y \in 0..1 : y = One(again)
    BY DEF One
  <1>5. b + y <= nread
    BY <1>3, <1>4 DEF Fits, One
  <1>6. nread \in Nat /\ Count = nread + 1 - y
    BY <1>4, PlacesNat, CountIs DEF IInv
  <1>7. QED
    BY <1>1, <1>5, <1>6

\* A value without a byte.
LEMMA DiscardLwsKeeps ==
    ASSUME IInv, DiscardLws
    PROVE  IInv'
  <1>1. at # 0 /\ at <= end /\ state \in Quiet
    BY DEF DiscardLws, Reading, Quiet
  <1>2. DOMAIN h = HFields /\ h.content_length \in 0..ULLONG_MAX
    BY DEF IInv, Says
  <1>3. CASE NextByte("s_header_value_discard_ws") /\ h' = h
    <2>1. "s_header_value_discard_ws" \in Quiet
      BY DEF Quiet
    <2>2. QED
      BY <1>1, <1>3, <2>1, QuietKeeps, KeepingItself DEF IInv
  <1>4. CASE /\ h' = [h EXCEPT !.flags = @ \cup ValueFlag(h)]
             /\ Callback("header_value", <<>>, "s_header_field_start", Count, at, FALSE)
    <2>1. Keeping(h')
      BY <1>2, <1>4 DEF Keeping, HFields
    <2>2. PICK s \in Quiet : s = "s_header_field_start"
      BY DEF Quiet
    <2>3. Says(s, h') /\ s # "s_chunk_size_start"
      BY <2>1, SaysPlain, QuietStates DEF Keeping, Special, ChunkHeads
    <2>4. at \in Nat /\ end \in Nat /\ Count \in Nat
      BY PlacesNat, CountIs DEF IInv
    <2>5. PICK n \in Nat : n = Count
      BY <2>4
    <2>6. PICK q \in at..end + 1 : q = at /\ q <= end
      BY <1>1, <2>4
    <2>7. PICK text : text = <<>> /\ text \in Seq(STRING) /\ Len(text) = 0
      BY EmptySeq
    <2>8. PICK cb \in Callbacks : cb = "header_value" /\ cb \in Fields /\ cb # "message_begin" /\ cb # "headers_complete"
      BY DEF Callbacks, Fields
    <2>9. Callback(cb, text, s, n, q, FALSE)
      BY <1>4, <2>2, <2>5, <2>6, <2>7, <2>8
    <2>10. \A f \in Fields : marks[f] = 0
      BY <1>1, NoneMarked, QuietStates DEF IInv
    <2>11. ASSUME pauses = 0, Heading(s, h')
           PROVE  Told(cb, text) + (IF ~FALSE /\ q <= end THEN 1 ELSE 0) <= n
      <3>1. Heading(state, h)
        BY <1>1, <2>1, <2>11, HeadingBefore, QuietStates DEF Keeping
      <3>2. HeaderBytes[Len(told)] \in Nat /\ HeaderBytes[Len(told)] + 1 <= Count
        BY <1>1, <2>11, <3>1, HeaderSmall
      <3>3. PICK b \in Nat : b = HeaderBytes[Len(told)] /\ b + 1 <= n
        BY <2>5, <3>2
      <3>4. Told(cb, text) = b + 0
        BY <2>7, <2>8, <3>3 DEF Told
      <3>5. QED
        BY <3>3, <3>4
    <2>12. at <= end + 1
      BY <1>1, <2>4
    <2>13. QED
      BY <1>1, <2>3, <2>6, <2>7, <2>8, <2>9, <2>10, <2>11, <2>12, CallbackKeeps
  <1>5. CASE Fail("INVALID_CONTENT_LENGTH")
    BY <1>1, <1>5, FailKeeps
  <1>6. QED
    BY <1>3, <1>4, <1>5 DEF DiscardLws

-----------------------------------------------------------------------------
(***************************************************************************)
(* The end of the headers.                                                 *)
(***************************************************************************)
\* A callback that tells no text, outside of headers.
LEMMA EventKeeps ==
    ASSUME IInv, at # 0, at <= end, NEW cb \in Callbacks \ Fields, cb # "headers_complete", NEW text, NEW s,
           NEW n \in Nat, NEW adv \in BOOLEAN, Callback(cb, text, s, n, at, adv), Says(s, h'), Unmarked(state),
           s = "s_chunk_size_start" => n = 0 /\ adv, ~Heading(s, h')
    PROVE  IInv'
  <1>1. at \in Nat /\ end \in Nat
    BY PlacesNat DEF IInv
  <1>2. PICK q \in at..end + 1 : q = at /\ q <= end
    BY <1>1
  <1>3. Callback(cb, text, s, n, q, adv)
    BY <1>2
  <1>4. at <= end + 1
    BY <1>1
  <1>5. \A f \in Fields : marks[f] = 0
    BY NoneMarked DEF IInv
  <1>6. QED
    BY <1>2, <1>3, <1>4, <1>5, CallbackKeeps

\* The end of the trailer.
LEMMA TrailingKeeps ==
    ASSUME IInv, Trailing
    PROVE  IInv'
  <1>1. at # 0 /\ at <= end /\ state \in Quiet /\ h' = h
    BY DEF Trailing, Reading, Quiet
  <1>2. "chunk_complete" \in Callbacks \ Fields
    BY DEF Callbacks, Fields
  <1>3. "s_message_done" \in Over /\ "s_message_done" \notin Special
    BY DEF Over, BodyStates, Special, ChunkHeads, ChunkBodies
  <1>4. Says("s_message_done", h') /\ ~Heading("s_message_done", h')
    BY <1>1, <1>3, SaysPlain DEF IInv, Says, Heading, Over
  <1>5. PICK n \in Nat : n = Count
    BY CountIs DEF IInv
  <1>6. Callback("chunk_complete", <<>>, "s_message_done", n, at, FALSE)
    BY <1>5 DEF Trailing
  <1>7. Unmarked(state)
    BY <1>1, QuietStates
  <1>8. QED
    BY <1>1, <1>2, <1>4, <1>6, <1>7, EventKeeps

\* The client is told that the headers are complete.
LEMMA HeadersAlmostDoneKeeps ==
    ASSUME IInv, HeadersAlmostDone
    PROVE  IInv'
  <1>1. at # 0 /\ at <= end /\ state \in Quiet /\ Count <= MaxHeaderSize /\ state = "s_headers_almost_done"
    BY DEF HeadersAlmostDone, Reading, Quiet
  <1>2. DOMAIN h = HFields /\ h.content_length \in 0..ULLONG_MAX
    BY DEF IInv, Says
  <1>3. CASE Fail("STRICT")
    BY <1>1, <1>3, FailKeeps
  <1>4. CASE Fail("UNEXPECTED_CONTENT_LENGTH")
    BY <1>1, <1>4, FailKeeps
  <1>5. PICK m, skip : /\ m = [h EXCEPT !.upgrade = IsUpgrade]
                       /\ skip = [m EXCEPT !.flags = @ \cup {"F_SKIPBODY"}]
    OBVIOUS
  <1>6. PICK both : both = [skip EXCEPT !.upgrade = TRUE]
    OBVIOUS
  <1>7. \A x \in {m, skip, both} : DOMAIN x = HFields /\ x.content_length \in 0..ULLONG_MAX
    BY <1>2, <1>5, <1>6 DEF HFields
  <1>8. ASSUME Ch = LF, state' = "s_headers_done", h' \in {m, skip, both}, NEW text,
               told' = Tell("headers_complete", text)
        PROVE  /\ Says(state', h') /\ IsTelling(told') /\ HeaderBytes'[Len(told')] \in Nat
               /\ ~Heading(state', h') /\ (pauses = 0 => AllSmall') /\ state' # "s_chunk_size_start"
    <2>1. "s_headers_done" \notin Special /\ "s_headers_done" \in Over /\ "s_headers_done" \notin ChunkHeads
      BY DEF Special, ChunkHeads, ChunkBodies, Over
    <2>2. Says(state', h') /\ ~Heading(state', h')
      BY <1>7, <1>8, <2>1, SaysPlain DEF Heading, Over
    <2>3. "headers_complete" \in Callbacks /\ "headers_complete" \notin Fields /\ "headers_complete" # "message_begin"
      BY DEF Callbacks, Fields
    <2>4. PICK b \in Nat : b = HeaderBytes[Len(told)]
      BY BytesCount DEF IInv
    <2>5. /\ IsTelling(told')
          /\ HeaderBytes'[Len(told')] = b + 0
          /\ AllSmall /\ b <= MaxHeaderSize => AllSmall'
      BY <1>8, <2>3, <2>4, TellCounts DEF IInv
    <2>6. ASSUME pauses = 0 PROVE b <= MaxHeaderSize /\ AllSmall
      <3>1. Heading(state, h)
        <4>1. "F_TRAILING" \notin h.flags
          BY <1>8 DEF HeadersAlmostDone
        <4>2. state \notin Over
          BY <1>1, QuietStates
        <4>3. QED
          BY <4>1, <4>2 DEF Heading, Over
      <3>2. b + 1 <= Count
        BY <1>1, <2>4, <2>6, <3>1, HeaderSmall
      <3>3. Count \in Nat /\ MaxHeaderSize \in Nat
        BY CountIs, Bounds DEF IInv
      <3>4. QED
        BY <1>1, <2>4, <2>6, <3>2, <3>3 DEF IInv
    <2>7. HeaderBytes'[Len(told')] \in Nat
      BY <2>4, <2>5
    <2>8. QED
      BY <1>8, <2>1, <2>2, <2>5, <2>6, <2>7 DEF ChunkHeads
  <1>9. /\ at \in Nat /\ end \in Nat /\ from \in Nat /\ Len(Data) \in Nat /\ end <= Len(Data) /\ saved \in Nat
        /\ Count \in Nat /\ pauses \in Nat /\ from < at /\ errno = "OK"
    BY <1>1, PlacesNat, CountIs DEF IInv, Places
  <1>10. ASSUME Ch = LF, state' = "s_headers_done", h' \in {m, skip, both}, NEW text,
                told' = Tell("headers_complete", text), nread' = Count, again' = TRUE,
                UNCHANGED <<line, from, at, end, marks, saved, errno, pauses, ended>>
         PROVE  IInv'
    <2>1. /\ Says(state', h') /\ IsTelling(told') /\ ~Heading(state', h') /\ (pauses = 0 => AllSmall')
          /\ state' # "s_chunk_size_start"
      BY <1>8, <1>10
    <2>2. Data' = Data /\ Len(Data') = Len(Data)
      BY <1>10 DEF Data
    <2>3. Places'
      <3>1. /\ line' \in Lines /\ from' \in 0..Len(Data') /\ end' \in 0..Len(Data') /\ at' \in 0..Len(Data') + 1
            /\ pauses' \in Nat /\ saved' \in Nat
        BY <1>10, <2>2 DEF IInv, Places
      <3>2. nread' \in Nat /\ again' \in BOOLEAN
        BY <1>9, <1>10
      <3>3. at' # 0 /\ from' < at' /\ at' <= end' + 1 /\ errno' = "OK"
        BY <1>1, <1>9, <1>10
      <3>4. QED
        BY <3>1, <3>2, <3>3 DEF Places
    <2>4. Marking'
      <3>1. \A f \in Fields : marks[f] = 0
        BY <1>1, NoneMarked, QuietStates DEF IInv
      <3>2. marks' = marks /\ at' # 0 /\ marks \in [Fields -> Nat]
        BY <1>1, <1>10 DEF IInv, Marking
      <3>3. QED
        BY <3>1, <3>2 DEF Marking
    <2>5. FromZero' /\ Budget'
      BY <2>1 DEF FromZero, Budget
    <2>6. QED
      BY <1>10, <2>1, <2>3, <2>4, <2>5 DEF IInv
  <1>11. ASSUME Ch = LF, state' = "s_headers_done", h' = m, NEW text, told' = Tell("headers_complete", text),
                Paused(at - 1, Count) \/ Refused("headers_complete", at - 1, Count)
         PROVE  IInv'
    <2>1. /\ Says(state', h') /\ IsTelling(told') /\ HeaderBytes'[Len(told')] \in Nat
          /\ ~Heading(state', h') /\ (pauses = 0 => AllSmall') /\ state' # "s_chunk_size_start"
      BY <1>8, <1>11
    <2>2. PICK q \in 0..Len(Data) : q = at - 1
      BY <1>1, <1>9
    <2>3. PICK n \in Nat : n = Count
      BY <1>9
    <2>4. Return(q, n) /\ pauses' \in Nat /\ (pauses' = 0 => pauses = 0)
      BY <1>9, <1>11, <2>2, <2>3 DEF Paused, Refused
    <2>5. QED
      BY <2>1, <2>4, Returns
  <1>12. ASSUME Ch = LF, state' = "s_headers_done",
                \/ /\ \E i \in 1..3 : /\ h' = <<m, skip, both>>[i]
                                      /\ told' = Tell("headers_complete", Summary(m, i - 1))
                   /\ nread' = Count /\ again' = TRUE
                   /\ UNCHANGED <<line, from, at, end, marks, saved, errno, pauses, ended>>
                \/ /\ h' = m /\ told' = Tell("headers_complete", Summary(m, 0))
                   /\ Paused(at - 1, Count) \/ Refused("headers_complete", at - 1, Count)
         PROVE  IInv'
    <2>1. \A i \in 1..3 : <<m, skip, both>>[i] \in {m, skip, both}
      OBVIOUS
    <2>2. QED
      BY <1>10, <1>11, <1>12, <2>1
  <1>13. QED
    BY <1>3, <1>4, <1>5, <1>6, <1>12 DEF HeadersAlmostDone

\* A message ends in a state before messages.
LEMMA NewMessageStarts == NewMessage(h) \in StartStates
  BY DEF NewMessage, StartStates

\* A message is complete.
LEMMA CompleteKeeps ==
    ASSUME IInv, at # 0, at <= end, Unmarked(state), NEW n \in Nat, NEW leaves, Complete(n, leaves), h' = h
    PROVE  IInv'
  <1>1. PICK s \in StartStates : s = NewMessage(h)
    BY NewMessageStarts
  <1>2. PICK keep : keep = <<ToString(KeepAlive(h))>>
    OBVIOUS
  <1>3. Says(s, h') /\ ~Heading(s, h') /\ s # "s_chunk_size_start"
    BY StartsAre, SaysPlain DEF IInv, Says, Heading, Over
  <1>4. PICK cb \in Callbacks : cb = "message_complete" /\ cb \notin Fields /\ cb # "message_begin" /\ cb # "headers_complete"
    BY DEF Callbacks, Fields
  <1>5. CASE ~leaves
    <2>1. Callback(cb, keep, s, n, at, TRUE)
      BY <1>1, <1>2, <1>4, <1>5 DEF Complete
    <2>2. QED
      BY <1>3, <1>4, <2>1, EventKeeps
  <1>6. CASE leaves
    <2>1. /\ state' = s /\ told' = Tell(cb, keep)
          /\ \/ Return(at, n) /\ UNCHANGED <<errno, pauses>>
             \/ Paused(at, Stored(n))
             \/ Refused(cb, at, n)
      BY <1>1, <1>2, <1>4, <1>6 DEF Complete
    <2>2. PICK b \in Nat : b = HeaderBytes[Len(told)]
      BY BytesCount DEF IInv
    <2>3. IsTelling(told') /\ HeaderBytes'[Len(told')] = b + 0 /\ (AllSmall => AllSmall')
      BY <1>4, <2>1, <2>2, TellCounts DEF IInv
    <2>4. HeaderBytes'[Len(told')] \in Nat /\ (pauses = 0 => AllSmall')
      BY <2>2, <2>3 DEF IInv
    <2>5. at \in Nat /\ end \in Nat /\ Len(Data) \in Nat /\ end <= Len(Data) /\ pauses \in Nat /\ saved \in Nat
      BY PlacesNat DEF IInv
    <2>6. PICK q \in 0..Len(Data) : q = at
      BY <2>5
    <2>7. PICK k \in Nat : k = Stored(n)
      BY <2>5 DEF Stored
    <2>8. PICK e \in {n, k} : Return(q, e) /\ pauses' \in Nat /\ (pauses' = 0 => pauses = 0)
      BY <2>1, <2>5, <2>6, <2>7 DEF Paused, Refused
    <2>9. e \in Nat
      BY <2>8
    <2>10. QED
      BY <1>3, <2>1, <2>3, <2>4, <2>8, <2>9, Returns
  <1>7. QED
    BY <1>5, <1>6

\* The states between headers and messages.
LEMMA OverStates ==
    /\ {"s_headers_done", "s_chunk_size_start", "s_chunk_size", "s_chunk_parameters", "s_chunk_size_almost_done",
        "s_chunk_data", "s_chunk_data_almost_done", "s_chunk_data_done", "s_body_identity", "s_body_identity_eof",
        "s_message_done"} \subseteq Over
    /\ \A s \in {"s_headers_done", "s_chunk_size_start", "s_chunk_size", "s_chunk_parameters",
                 "s_chunk_size_almost_done", "s_chunk_data_done", "s_message_done"} : Unmarked(s)
    /\ {"s_body_identity", "s_body_identity_eof", "s_chunk_data", "s_chunk_data_almost_done"} = During["body"]
    /\ "body" \in Fields
  <1>1. {"s_headers_done", "s_chunk_size_start", "s_chunk_size", "s_chunk_parameters", "s_chunk_size_almost_done",
         "s_chunk_data", "s_chunk_data_almost_done", "s_chunk_data_done", "s_body_identity", "s_body_identity_eof",
         "s_message_done"} \subseteq Over
    BY DEF Over, ChunkHeads, BodyStates
  <1>2. \A s \in {"s_headers_done", "s_chunk_size_start", "s_chunk_size", "s_chunk_parameters",
                  "s_chunk_size_almost_done", "s_chunk_data_done", "s_message_done"} : Unmarked(s)
    BY DEF Unmarked, Fields, During, ServerUrlStates, UrlStates, QueryStates, FragmentStates
  <1>3. QED
    BY <1>1, <1>2 DEF During, Fields

\* The body begins, or the message is complete.
LEMMA HeadersDoneKeeps ==
    ASSUME IInv, HeadersDone
    PROVE  IInv'
  <1>1. at # 0 /\ at <= end /\ state = "s_headers_done" /\ Unmarked(state)
    BY OverStates DEF HeadersDone, Reading
  <1>2. at \in Nat /\ end \in Nat /\ saved \in Nat
    BY PlacesNat DEF IInv
  <1>3. CASE Fail("STRICT")
    BY <1>1, <1>3, FailKeeps
  <1>4. CASE Complete(Recount, BodyOf(h) = "other protocol") /\ h' = h
    <2>1. Recount \in Nat
      BY DEF Recount
    <2>2. QED
      BY <1>1, <1>4, <2>1, CompleteKeeps
  <1>5. CASE /\ BodyOf(h) \in {"chunks", "counted", "until eof"}
             /\ Advance(CASE BodyOf(h) = "chunks" -> "s_chunk_size_start"
                          [] BodyOf(h) = "counted" -> "s_body_identity"
                          [] BodyOf(h) = "until eof" -> "s_body_identity_eof", Recount, at)
             /\ UNCHANGED <<h, marks>>
    <2>1. PICK s : /\ Advance(s, 0, at)
                   /\ s = CASE BodyOf(h) = "chunks" -> "s_chunk_size_start"
                            [] BodyOf(h) = "counted" -> "s_body_identity"
                            [] BodyOf(h) = "until eof" -> "s_body_identity_eof"
      BY <1>5 DEF Recount
    <2>2. s \in {"s_chunk_size_start", "s_body_identity", "s_body_identity_eof"}
      BY <1>5, <2>1
    <2>3. s = "s_chunk_size_start" => "F_CHUNKED" \in h.flags
      <3>1. s = "s_chunk_size_start" => BodyOf(h) = "chunks"
        BY <1>5, <2>1
      <3>2. BodyOf(h) = "chunks" => "F_CHUNKED" \in h.flags
        BY DEF BodyOf
      <3>3. QED
        BY <3>1, <3>2
    <2>4. s = "s_body_identity" => h.content_length \notin {0, ULLONG_MAX}
      <3>1. s = "s_body_identity" => BodyOf(h) = "counted"
        BY <1>5, <2>1
      <3>2. BodyOf(h) = "counted" => h.content_length # 0 /\ h.content_length # ULLONG_MAX
        BY DEF BodyOf
      <3>3. QED
        BY <3>1, <3>2
    <2>5. Says(s, h')
      <3>1. h' = h /\ DOMAIN h = HFields /\ h.content_length \in 0..ULLONG_MAX
        BY <1>5 DEF IInv, Says
      <3>2. QED
        BY <2>2, <2>3, <2>4, <3>1 DEF Says, ChunkHeads, ChunkBodies
    <2>6. PICK r \in at..end + 1 : r = at + 1
      BY <1>1, <1>2
    <2>7. /\ state' = s /\ nread' = 0 /\ saved' \in Nat /\ at' = r /\ again' = FALSE /\ UNCHANGED cursor
          /\ marks' = marks
      <3>1. /\ state' = s /\ nread' = 0 /\ saved' = Stored(0) /\ at' = at + 1 /\ again' = FALSE /\ UNCHANGED cursor
        BY <2>1 DEF Advance
      <3>2. Stored(0) \in Nat /\ marks' = marks
        BY <1>2, <1>5 DEF Stored
      <3>3. QED
        BY <2>6, <3>1, <3>2
    <2>8. s \in Over
      BY <2>2, OverStates
    <2>9. QED
      BY <1>1, <2>5, <2>7, <2>8, OutsideKeeps
  <1>6. CASE FailAt(at, Recount, "INVALID_TRANSFER_ENCODING")
    <2>1. at \in at..end /\ Recount \in Nat
      BY <1>1, <1>2 DEF Recount
    <2>2. QED
      BY <1>1, <1>6, <2>1, FailsAt
  <1>7. QED
    BY <1>3, <1>4, <1>5, <1>6 DEF HeadersDone

-----------------------------------------------------------------------------
(***************************************************************************)
(* Bodies.                                                                 *)
(***************************************************************************)
\* How much of a body this call's data holds.
LEMMA ToReadIs ==
    ASSUME IInv, at # 0, at <= end, h.content_length # 0
    PROVE  /\ ToRead \in Nat /\ ToRead >= 1 /\ at + ToRead - 1 \in at..end /\ h.content_length - ToRead \in 0..ULLONG_MAX
           /\ (LastOfBody <=> h.content_length - ToRead = 0)
           /\ h.content_length - ToRead # ULLONG_MAX
  <1>1. PICK x \in Nat : x = h.content_length /\ x >= 1 /\ x <= ULLONG_MAX
    BY Bounds DEF IInv, Says
  <1>2. at \in Nat /\ end \in Nat /\ ULLONG_MAX \in Nat
    BY PlacesNat, Bounds DEF IInv
  <1>3. PICK y \in Nat : y = end - at + 1 /\ y >= 1
    BY <1>2
  <1>4. PICK z \in Nat : z = IF x < y THEN x ELSE y
    OBVIOUS
  <1>5. ToRead = z
    BY <1>1, <1>3, <1>4 DEF ToRead
  <1>6. z >= 1 /\ at + z - 1 \in at..end /\ x - z \in 0..ULLONG_MAX /\ (x = z <=> x - z = 0) /\ x - z # ULLONG_MAX
    BY <1>1, <1>2, <1>3, <1>4
  <1>7. LastOfBody <=> x = z
    BY <1>1, <1>5 DEF LastOfBody
  <1>8. QED
    BY <1>1, <1>5, <1>6, <1>7

\* What a step leaves of h that only counts a body.
LEMMA CountingKeeps ==
    ASSUME IInv, NEW c \in 0..ULLONG_MAX, h' = [h EXCEPT !.content_length = c]
    PROVE  DOMAIN h' = HFields /\ h'.content_length = c /\ h'.flags = h.flags
  BY DEF IInv, Says, HFields

\* More of a body.
LEMMA BodyGoesOn ==
    ASSUME IInv, at # 0, at <= end, state \in During["body"], NEW s \in During["body"],
           NEW q \in at..end, Advance(s, Count, q), marks' = Marked("body"), Says(s, h')
    PROVE  IInv'
  <1>1. at \in Nat /\ end \in Nat /\ saved \in Nat
    BY PlacesNat DEF IInv
  <1>2. PICK n \in Nat : n = Count
    BY CountIs DEF IInv
  <1>3. PICK r \in at..end + 1 : r = q + 1
    BY <1>1
  <1>4. state' = s /\ nread' = n /\ saved' \in Nat /\ at' = r /\ again' = FALSE /\ UNCHANGED cursor
    BY <1>1, <1>2, <1>3 DEF Advance, Stored
  <1>5. ~Heading(s, h')
    BY OverStates DEF Heading, Over
  <1>6. "body" \in Fields
    BY OverStates
  <1>7. QED
    BY <1>4, <1>5, <1>6, TextKeeps

\* A body with a length.
LEMMA BodyIdentityKeeps ==
    ASSUME IInv, BodyIdentity
    PROVE  IInv'
  <1>1. at # 0 /\ at <= end /\ state = "s_body_identity"
    BY DEF BodyIdentity, Reading
  <1>2. at \in Nat /\ end \in Nat /\ Len(Data) \in Nat /\ end <= Len(Data)
    BY PlacesNat DEF IInv
  <1>3. h.content_length # 0
    BY <1>1 DEF IInv, Says
  <1>4. PICK c \in 0..ULLONG_MAX : c = h.content_length - ToRead
    BY <1>1, <1>3, ToReadIs
  <1>5. PICK q \in at..end : q = at + ToRead - 1
    BY <1>1, <1>3, ToReadIs
  <1>6. DOMAIN h' = HFields /\ h'.content_length = c /\ h'.flags = h.flags
    <2>1. h' = [h EXCEPT !.content_length = c]
      BY <1>4 DEF BodyIdentity
    <2>2. QED
      BY <2>1, CountingKeeps
  <1>7. "body" \in Fields /\ state \in During["body"]
    BY <1>1, OverStates
  <1>8. CASE LastOfBody
    <2>1. PICK k : k = Marked("body")["body"]
      OBVIOUS
    <2>2. k \in 1..Len(Data)
      <3>1. marks \in [Fields -> Nat]
        BY DEF IInv, Marking
      <3>2. marks["body"] \in Nat /\ (marks["body"] # 0 => marks["body"] <= at)
        BY <1>7, <3>1 DEF IInv, Marking
      <3>3. k = IF marks["body"] = 0 THEN at ELSE marks["body"]
        BY <1>7, <2>1, <3>1 DEF Marked
      <3>4. QED
        BY <1>1, <1>2, <3>2, <3>3
    <2>3. PICK text : text = SubSeq(Data, k, q)
      OBVIOUS
    <2>4. text \in Seq(STRING)
      <3>1. \A i \in k..q : i \in 1..Len(Data)
        BY <1>2, <2>2
      <3>2. \A i \in k..q : Data[i] \in STRING
        BY <3>1, ElementOfSeq, DataIsText DEF IInv
      <3>3. k \in Int /\ q \in Int
        BY <1>2, <2>2
      <3>4. QED
        BY <2>3, <3>2, <3>3, SubSeqProperties
    <2>5. PICK s : s = "s_message_done"
      OBVIOUS
    <2>6. PICK n \in Nat : n = Count
      BY CountIs DEF IInv
    <2>7. Callback("body", text, s, n, q, FALSE)
      BY <1>5, <1>8, <2>1, <2>3, <2>5, <2>6 DEF BodyIdentity
    <2>8. Says(s, h') /\ s # "s_chunk_size_start" /\ ~Heading(s, h')
      <3>1. s \notin Special /\ s \in Over
        BY <2>5, OverStates DEF Special, ChunkHeads, ChunkBodies
      <3>2. QED
        BY <1>6, <2>5, <3>1, SaysPlain DEF Heading, Over
    <2>9. \A f \in Fields \ {"body"} : marks[f] = 0
      BY <1>7, OthersUnmarked DEF IInv
    <2>10. q \in at..end + 1 /\ at <= end + 1 /\ FALSE \in BOOLEAN /\ (q <= end \/ ~FALSE)
      BY <1>1, <1>2
    <2>11. "body" \in Callbacks /\ "body" # "headers_complete"
      BY DEF Callbacks, Fields
    <2>12. QED
      BY <1>1, <2>4, <2>7, <2>8, <2>9, <2>10, <2>11, CallbackKeeps
  <1>9. CASE ~LastOfBody
    <2>1. Advance(state, Count, q) /\ marks' = Marked("body")
      BY <1>5, <1>9 DEF BodyIdentity
    <2>2. c # 0 /\ c # ULLONG_MAX
      BY <1>1, <1>3, <1>4, <1>9, ToReadIs
    <2>3. Says(state, h')
      BY <1>1, <1>6, <2>2 DEF Says, ChunkHeads, ChunkBodies
    <2>4. QED
      BY <1>1, <1>7, <2>1, <2>3, BodyGoesOn
  <1>10. QED
    BY <1>8, <1>9

\* A body up to the end of the stream.
LEMMA BodyIdentityEofKeeps ==
    ASSUME IInv, BodyIdentityEof
    PROVE  IInv'
  <1>1. at # 0 /\ at <= end /\ state = "s_body_identity_eof" /\ h' = h
    BY DEF BodyIdentityEof, Reading
  <1>2. end \in at..end
    BY <1>1, PlacesNat DEF IInv
  <1>3. Says(state, h') /\ state \in During["body"]
    BY <1>1, OverStates DEF IInv
  <1>4. Advance(state, Count, end) /\ marks' = Marked("body")
    BY DEF BodyIdentityEof
  <1>5. QED
    BY <1>1, <1>2, <1>3, <1>4, BodyGoesOn

\* The end of a message.
LEMMA MessageDoneKeeps ==
    ASSUME IInv, MessageDone
    PROVE  IInv'
  <1>1. at # 0 /\ at <= end /\ state = "s_message_done" /\ h' = h /\ Unmarked(state)
    BY OverStates DEF MessageDone, Reading
  <1>2. PICK n \in Nat : n = Count
    BY CountIs DEF IInv
  <1>3. Complete(n, h.upgrade)
    BY <1>2 DEF MessageDone
  <1>4. QED
    BY <1>1, <1>3, CompleteKeeps

\* To a state in which nothing but the flag and the length of a chunk matters.
LEMMA ChunkSays ==
    ASSUME NEW m, DOMAIN m = HFields, m.content_length \in 0..ULLONG_MAX, "F_CHUNKED" \in m.flags,
           NEW s \in ChunkHeads \cup ChunkBodies,
           s \in (ChunkHeads \ {"s_chunk_size_start"}) \cup {"s_chunk_data"} => m.content_length # ULLONG_MAX,
           s = "s_chunk_data" => m.content_length # 0,
           s = "s_chunk_data_almost_done" => m.content_length = 0
    PROVE  Says(s, m)
  BY DEF Says, ChunkHeads, ChunkBodies

\* The first digit of a chunk's size.
LEMMA ChunkSizeStartKeeps ==
    ASSUME IInv, ChunkSizeStart
    PROVE  IInv'
  <1>1. at # 0 /\ at <= end /\ state = "s_chunk_size_start" /\ Unmarked(state)
    BY OverStates DEF ChunkSizeStart, Reading
  <1>2. CASE Ch \in Hex
    <2>1. PICK d \in 0..15 : d = HexValue[Ch]
      BY <1>2, Digits
    <2>2. d \in 0..ULLONG_MAX /\ d # ULLONG_MAX
      BY <2>1, Bounds
    <2>3. h' = [h EXCEPT !.content_length = d] /\ NextByte("s_chunk_size")
      BY <1>2, <2>1 DEF ChunkSizeStart
    <2>4. DOMAIN h' = HFields /\ h'.content_length = d /\ h'.flags = h.flags
      BY <2>2, <2>3, CountingKeeps
    <2>5. "F_CHUNKED" \in h.flags
      BY <1>1 DEF IInv, Says, ChunkHeads
    <2>6. Says("s_chunk_size", h')
      BY <2>2, <2>4, <2>5, ChunkSays DEF ChunkHeads
    <2>7. "s_chunk_size" \in Over /\ "s_chunk_size" # "s_chunk_size_start"
      BY OverStates
    <2>8. QED
      BY <1>1, <2>3, <2>6, <2>7, OutsideNext
  <1>3. CASE Ch \notin Hex
    <2>1. Fail("INVALID_CHUNK_SIZE")
      BY <1>3 DEF ChunkSizeStart
    <2>2. QED
      BY <1>1, <2>1, FailKeeps
  <1>4. QED
    BY <1>2, <1>3

\* One more hexadecimal digit never reaches the largest length, which stands for none.
LEMMA NotTooLong ==
    ASSUME NEW x \in Nat, NEW d \in 0..15, ~TooLong(x, 16)
    PROVE  LengthWith(x, 16, d) \in 0..ULLONG_MAX /\ LengthWith(x, 16, d) # ULLONG_MAX
  <1>1. ULLONG_MAX \in Nat /\ ULLONG_MAX >= 16
    BY Bounds
  <1>2. PICK z \in Nat : z = ULLONG_MAX - 16
    BY <1>1
  <1>3. ~(z \div 16 < x)
    BY <1>2 DEF TooLong
  <1>4. x * 16 <= z
    BY <1>2, <1>3
  <1>5. PICK y \in Nat : y = x * 16 + d
    OBVIOUS
  <1>6. y < ULLONG_MAX
    BY <1>1, <1>2, <1>4, <1>5
  <1>7. y % (ULLONG_MAX + 1) = y
    BY <1>1, <1>6
  <1>8. LengthWith(x, 16, d) = y
    BY <1>5, <1>7 DEF LengthWith
  <1>9. QED
    BY <1>1, <1>6, <1>8

\* The size of a chunk.
LEMMA ChunkSizeKeeps ==
    ASSUME IInv, ChunkSize
    PROVE  IInv'
  <1>1. at # 0 /\ at <= end /\ state = "s_chunk_size" /\ Unmarked(state)
    BY OverStates DEF ChunkSize, Reading
  <1>2. /\ DOMAIN h = HFields /\ h.content_length \in 0..ULLONG_MAX /\ "F_CHUNKED" \in h.flags
        /\ h.content_length # ULLONG_MAX
    BY <1>1 DEF IInv, Says, ChunkHeads
  <1>3. ASSUME NEW s \in {"s_chunk_size_almost_done", "s_chunk_parameters"}, NextByte(s), h' = h PROVE IInv'
    <2>1. Says(s, h')
      BY <1>2, <1>3, ChunkSays DEF ChunkHeads
    <2>2. s \in Over /\ s # "s_chunk_size_start"
      BY OverStates
    <2>3. QED
      BY <1>1, <1>3, <2>1, <2>2, OutsideNext
  <1>4. CASE /\ Ch \in Hex /\ ~TooLong(h.content_length, 16)
             /\ h' = [h EXCEPT !.content_length = LengthWith(@, 16, HexValue[Ch])]
             /\ NextByte(state)
    <2>1. PICK d \in 0..15 : d = HexValue[Ch]
      BY <1>4, Digits
    <2>2. PICK x \in Nat : x = h.content_length
      BY <1>2, Bounds
    <2>3. ~TooLong(x, 16)
      BY <1>4, <2>2
    <2>4. PICK c \in 0..ULLONG_MAX : c = LengthWith(x, 16, d) /\ c # ULLONG_MAX
      BY <2>3, NotTooLong
    <2>5. h' = [h EXCEPT !.content_length = c]
      BY <1>4, <2>1, <2>2, <2>4
    <2>6. DOMAIN h' = HFields /\ h'.content_length = c /\ h'.flags = h.flags
      BY <2>5, CountingKeeps
    <2>7. Says(state, h')
      BY <1>1, <1>2, <2>4, <2>6, ChunkSays DEF ChunkHeads
    <2>8. state \in Over /\ state # "s_chunk_size_start"
      BY <1>1, OverStates
    <2>9. QED
      BY <1>1, <1>4, <2>7, <2>8, OutsideNext
  <1>5. CASE Fail("INVALID_CONTENT_LENGTH") \/ Fail("INVALID_CHUNK_SIZE")
    BY <1>1, <1>5, FailKeeps
  <1>6. QED
    BY <1>3, <1>4, <1>5 DEF ChunkSize

\* What follows the size on its line.
LEMMA ChunkParametersKeeps ==
    ASSUME IInv, ChunkParameters
    PROVE  IInv'
  <1>1. at # 0 /\ at <= end /\ state = "s_chunk_parameters" /\ Unmarked(state) /\ h' = h
    BY OverStates DEF ChunkParameters, Reading
  <1>2. /\ DOMAIN h = HFields /\ h.content_length \in 0..ULLONG_MAX /\ "F_CHUNKED" \in h.flags
        /\ h.content_length # ULLONG_MAX
    BY <1>1 DEF IInv, Says, ChunkHeads
  <1>3. PICK s \in {"s_chunk_size_almost_done", "s_chunk_parameters"} : NextByte(s)
    BY <1>1 DEF ChunkParameters
  <1>4. Says(s, h')
    BY <1>1, <1>2, ChunkSays DEF ChunkHeads
  <1>5. s \in Over /\ s # "s_chunk_size_start"
    BY OverStates
  <1>6. QED
    BY <1>1, <1>3, <1>4, <1>5, OutsideNext

\* The head of a chunk is read; the last one is empty.
LEMMA ChunkSizeAlmostDoneKeeps ==
    ASSUME IInv, ChunkSizeAlmostDone
    PROVE  IInv'
  <1>1. at # 0 /\ at <= end /\ state = "s_chunk_size_almost_done" /\ Unmarked(state)
    BY OverStates DEF ChunkSizeAlmostDone, Reading
  <1>2. /\ DOMAIN h = HFields /\ h.content_length \in 0..ULLONG_MAX /\ "F_CHUNKED" \in h.flags
        /\ h.content_length # ULLONG_MAX
    BY <1>1 DEF IInv, Says, ChunkHeads
  <1>3. CASE Ch # LF
    <2>1. Fail("STRICT")
      BY <1>3 DEF ChunkSizeAlmostDone
    <2>2. QED
      BY <1>1, <2>1, FailKeeps
  <1>4. CASE Ch = LF
    <2>1. PICK text, s : /\ text = <<ToString(h.content_length)>>
                         /\ s = IF h.content_length = 0 THEN "s_header_field_start" ELSE "s_chunk_data"
      OBVIOUS
    <2>2. /\ h' = IF h.content_length = 0 THEN [h EXCEPT !.flags = @ \cup {"F_TRAILING"}] ELSE h
          /\ Callback("chunk_header", text, s, 0, at, TRUE)
      BY <1>4, <2>1 DEF ChunkSizeAlmostDone, Recount
    <2>3. "chunk_header" \in Callbacks \ Fields /\ "chunk_header" # "headers_complete"
      BY DEF Callbacks, Fields
    <2>4. Says(s, h') /\ ~Heading(s, h') /\ s # "s_chunk_size_start"
      <3>1. CASE h.content_length = 0
        <4>1. s = "s_header_field_start" /\ s \notin Special
          BY <2>1, <3>1 DEF Special, ChunkHeads, ChunkBodies
        <4>2. DOMAIN h' = HFields /\ h'.content_length \in 0..ULLONG_MAX /\ "F_TRAILING" \in h'.flags
          BY <1>2, <2>2, <3>1 DEF HFields
        <4>3. QED
          BY <4>1, <4>2, SaysPlain DEF Heading
      <3>2. CASE h.content_length # 0
        <4>1. s = "s_chunk_data" /\ s \in ChunkBodies /\ s \in Over /\ h' = h
          BY <2>1, <2>2, <3>2, OverStates DEF ChunkBodies
        <4>2. Says(s, h')
          BY <1>2, <3>2, <4>1, ChunkSays
        <4>3. QED
          BY <4>1, <4>2 DEF Heading, Over
      <3>3. QED
        BY <3>1, <3>2
    <2>5. QED
      BY <1>1, <2>2, <2>3, <2>4, EventKeeps
  <1>5. QED
    BY <1>3, <1>4

\* The data of a chunk.
LEMMA ChunkDataKeeps ==
    ASSUME IInv, ChunkData
    PROVE  IInv'
  <1>1. at # 0 /\ at <= end /\ state = "s_chunk_data"
    BY DEF ChunkData, Reading
  <1>2. h.content_length # 0 /\ "F_CHUNKED" \in h.flags
    BY <1>1 DEF IInv, Says, ChunkBodies
  <1>3. PICK c \in 0..ULLONG_MAX : c = h.content_length - ToRead /\ c # ULLONG_MAX /\ (LastOfBody <=> c = 0)
    BY <1>1, <1>2, ToReadIs
  <1>4. PICK q \in at..end : q = at + ToRead - 1
    BY <1>1, <1>2, ToReadIs
  <1>5. PICK s : s = IF LastOfBody THEN "s_chunk_data_almost_done" ELSE state
    OBVIOUS
  <1>6. h' = [h EXCEPT !.content_length = c] /\ Advance(s, Count, q) /\ marks' = Marked("body")
    BY <1>3, <1>4, <1>5 DEF ChunkData
  <1>7. DOMAIN h' = HFields /\ h'.content_length = c /\ h'.flags = h.flags
    BY <1>6, CountingKeeps
  <1>8. s \in ChunkBodies /\ (s = "s_chunk_data" => c # 0) /\ (s = "s_chunk_data_almost_done" => c = 0)
    BY <1>1, <1>3, <1>5 DEF ChunkBodies
  <1>9. Says(s, h')
    BY <1>2, <1>3, <1>7, <1>8, ChunkSays
  <1>10. state \in During["body"] /\ s \in During["body"]
    BY <1>1, <1>5, OverStates
  <1>11. QED
    BY <1>1, <1>6, <1>9, <1>10, BodyGoesOn

\* The end of the data of a chunk.
LEMMA ChunkDataAlmostDoneKeeps ==
    ASSUME IInv, ChunkDataAlmostDone
    PROVE  IInv'
  <1>1. at # 0 /\ at <= end /\ state = "s_chunk_data_almost_done"
    BY DEF ChunkDataAlmostDone, Reading
  <1>2. /\ DOMAIN h = HFields /\ h.content_length \in 0..ULLONG_MAX /\ "F_CHUNKED" \in h.flags
    BY <1>1 DEF IInv, Says, ChunkBodies
  <1>3. CASE Ch # CR
    <2>1. Fail("STRICT")
      BY <1>3 DEF ChunkDataAlmostDone
    <2>2. QED
      BY <1>1, <2>1, FailKeeps
  <1>4. CASE Ch = CR
    <2>1. DataUpTo("body", at - 1, "s_chunk_data_done", Count, at, TRUE) /\ h' = h
      BY <1>4 DEF ChunkDataAlmostDone
    <2>2. PICK s : s = "s_chunk_data_done"
      OBVIOUS
    <2>3. s \in ChunkBodies /\ s \in Over /\ s # "s_chunk_size_start"
      BY <2>2, OverStates DEF ChunkBodies
    <2>4. Says(s, h') /\ ~Heading(s, h')
      <3>1. PICK m : m = h'
        OBVIOUS
      <3>2. DOMAIN m = HFields /\ m.content_length \in 0..ULLONG_MAX /\ "F_CHUNKED" \in m.flags
        BY <1>2, <2>1, <3>1
      <3>3. /\ s \notin (ChunkHeads \ {"s_chunk_size_start"}) \cup {"s_chunk_data"}
            /\ s # "s_chunk_data_almost_done" /\ s \in ChunkHeads \cup ChunkBodies
        BY <2>2 DEF ChunkHeads, ChunkBodies
      <3>4. Says(s, m)
        BY <3>2, <3>3, ChunkSays
      <3>5. ~Heading(s, m)
        BY <2>3 DEF Heading, Over
      <3>6. QED
        BY <3>1, <3>4, <3>5
    <2>5. PICK q \in at..end : q = at
      BY <1>1, PlacesNat DEF IInv
    <2>6. PICK n \in Nat : n = Count
      BY CountIs DEF IInv
    <2>7. DataUpTo("body", q - 1, s, n, q, TRUE)
      BY <2>1, <2>2, <2>5, <2>6
    <2>8. "body" \in Fields /\ state \in During["body"]
      BY <1>1, OverStates
    <2>9. QED
      BY <1>1, <2>3, <2>4, <2>7, <2>8, DataKeeps
  <1>5. QED
    BY <1>3, <1>4

\* The end of a chunk.
LEMMA ChunkDataDoneKeeps ==
    ASSUME IInv, ChunkDataDone
    PROVE  IInv'
  <1>1. at # 0 /\ at <= end /\ state = "s_chunk_data_done" /\ Unmarked(state)
    BY OverStates DEF ChunkDataDone, Reading
  <1>2. /\ DOMAIN h = HFields /\ h.content_length \in 0..ULLONG_MAX /\ "F_CHUNKED" \in h.flags
    BY <1>1 DEF IInv, Says, ChunkBodies
  <1>3. CASE Ch # LF
    <2>1. Fail("STRICT")
      BY <1>3 DEF ChunkDataDone
    <2>2. QED
      BY <1>1, <2>1, FailKeeps
  <1>4. CASE Ch = LF
    <2>1. Callback("chunk_complete", <<>>, "s_chunk_size_start", 0, at, TRUE) /\ h' = h
      BY <1>4 DEF ChunkDataDone, Recount
    <2>2. "chunk_complete" \in Callbacks \ Fields /\ "chunk_complete" # "headers_complete"
      BY DEF Callbacks, Fields
    <2>3. PICK s : s = "s_chunk_size_start"
      OBVIOUS
    <2>4. s \in ChunkHeads /\ s \in Over
      BY <2>3, OverStates DEF ChunkHeads
    <2>5. Says(s, h') /\ ~Heading(s, h')
      BY <1>2, <2>1, <2>3, <2>4, ChunkSays DEF Heading, Over
    <2>6. Callback("chunk_complete", <<>>, s, 0, at, TRUE)
      BY <2>1, <2>3
    <2>7. QED
      BY <1>1, <2>2, <2>5, <2>6, EventKeeps
  <1>5. QED
    BY <1>3, <1>4


-----------------------------------------------------------------------------
(***************************************************************************)
(* The call and the client.                                                *)
(***************************************************************************)
\* Too many bytes of a header.
LEMMA HeaderOverflowKeeps ==
    ASSUME IInv, HeaderOverflow
    PROVE  IInv'
  BY FailKeeps DEF HeaderOverflow

\* The text under way at the end of the data.
LEMMA LeftOverKeeps ==
    ASSUME IInv, LeftOver
    PROVE  IInv'
  <1>1. /\ Len(Data) \in Nat /\ end \in Nat /\ at \in Nat /\ nread \in Nat /\ end <= Len(Data) /\ from \in Nat
        /\ at # 0 /\ at = end + 1 /\ errno = "OK"
    BY PlacesNat DEF IInv, Places, LeftOver
  <1>2. PICK f \in Fields : marks[f] # 0 /\ Callback(f, SubSeq(Data, marks[f], end), state, nread, at, FALSE)
    BY DEF LeftOver
  <1>3. h' = h
    BY DEF LeftOver
  <1>4. state \in During[f] /\ marks[f] <= at /\ marks[f] \in Nat
    BY <1>2 DEF IInv, Marking
  <1>5. \A g \in Fields \ {f} : marks[g] = 0
    BY <1>4, OthersUnmarked DEF IInv
  <1>6. PICK k \in Nat : k = marks[f]
    BY <1>4
  <1>7. k >= 1 /\ k <= end + 1
    BY <1>1, <1>2, <1>4, <1>6
  <1>8. PICK text : text = SubSeq(Data, k, end)
    OBVIOUS
  <1>9. text \in Seq(STRING) /\ Len(text) = at - k
    <2>1. k \in 1..Len(Data) + 1 /\ end \in (k - 1)..Len(Data) /\ k \in Int /\ end \in Int
      BY <1>1, <1>7
    <2>2. Data \in Seq(STRING)
      BY DataIsText DEF IInv
    <2>3. \A i \in k..end : Data[i] \in STRING
      <3>1. \A i \in k..end : i \in 1..Len(Data)
        BY <1>1, <2>1
      <3>2. QED
        BY <2>2, <3>1, ElementOfSeq
    <2>4. SubSeq(Data, k, end) \in Seq(STRING) /\ Len(SubSeq(Data, k, end)) = IF k <= end THEN end - k + 1 ELSE 0
      BY <2>1, <2>2, <2>3, SubSeqProperties
    <2>5. QED
      BY <1>1, <1>7, <1>8, <2>4
  <1>10. PICK s : s = state
    OBVIOUS
  <1>11. PICK n \in Nat : n = nread
    BY <1>1
  <1>12. PICK q \in at..end + 1 : q = at /\ ~(q <= end)
    BY <1>1
  <1>13. Callback(f, text, s, n, q, FALSE)
    BY <1>2, <1>6, <1>8, <1>10, <1>11, <1>12
  <1>14. Says(s, h') /\ s # "s_chunk_size_start"
    BY <1>3, <1>4, <1>10, OverStates DEF IInv, Unmarked
  <1>15. ASSUME pauses = 0, Heading(s, h')
         PROVE  Told(f, text) + (IF ~FALSE /\ q <= end THEN 1 ELSE 0) <= n
    <2>1. PICK b \in Nat : b = HeaderBytes[Len(told)]
      BY BytesCount DEF IInv
    <2>2. Heading(state, h) /\ Alive
      BY <1>1, <1>3, <1>10, <1>15 DEF Alive
    <2>3. Fits(b, at, end, again, marks, nread)
      BY <1>15, <2>1, <2>2 DEF IInv, Budget
    <2>4. b + (at - k) + 0 <= nread
      BY <1>1, <1>2, <1>6, <2>3 DEF Fits
    <2>5. Told(f, text) = b + (at - k)
      BY <1>9, <2>1 DEF Told, Fields
    <2>6. QED
      BY <1>1, <1>7, <1>11, <1>12, <2>4, <2>5
  <1>16. f \in Callbacks /\ f # "headers_complete"
    BY DEF Callbacks, Fields
  <1>17. at <= end + 1
    BY <1>1
  <1>18. QED
    BY <1>1, <1>5, <1>9, <1>12, <1>13, <1>14, <1>15, <1>16, <1>17, CallbackKeeps

\* The data is read.
LEMMA ReturnLenKeeps ==
    ASSUME IInv, ReturnLen
    PROVE  IInv'
  <1>1. /\ Len(Data) \in Nat /\ end \in Nat /\ at \in Nat /\ nread \in Nat /\ end <= Len(Data) /\ pauses \in Nat
        /\ at # 0 /\ errno = "OK"
    BY PlacesNat DEF IInv, Places, ReturnLen
  <1>2. Return(end, nread) /\ UNCHANGED <<state, h, errno, told, pauses>>
    BY DEF ReturnLen
  <1>3. IsTelling(told') /\ HeaderBytes'[Len(told')] = HeaderBytes[Len(told)] /\ HeaderBytes[Len(told)] \in Nat
        /\ (pauses' = 0 => AllSmall')
    BY <1>2, ToldRests DEF IInv
  <1>4. Says(state', h') /\ Alive
    BY <1>1, <1>2 DEF IInv, Alive
  <1>5. Alive' /\ state' = "s_chunk_size_start" => nread = 0
    BY <1>2, <1>4 DEF IInv, FromZero
  <1>6. ASSUME pauses' = 0, Alive', Heading(state', h') PROVE HeaderBytes'[Len(told')] <= nread
    <2>1. PICK b \in Nat : b = HeaderBytes[Len(told)]
      BY <1>3
    <2>2. Heading(state, h) /\ pauses = 0
      BY <1>2, <1>6
    <2>3. Fits(b, at, end, again, marks, nread)
      BY <1>4, <2>1, <2>2 DEF IInv, Budget
    <2>4. PICK y \in 0..1 : b + y <= nread
      BY <2>3 DEF Fits
    <2>5. b <= nread
      BY <1>1, <2>4
    <2>6. QED
      BY <1>3, <2>1, <2>5
  <1>7. end \in 0..Len(Data) /\ pauses' \in Nat /\ HeaderBytes'[Len(told')] \in Nat
    BY <1>1, <1>2, <1>3
  <1>8. QED
    BY <1>1, <1>2, <1>3, <1>4, <1>5, <1>6, <1>7, Returns

\* The next call.
LEMMA ExecuteKeeps ==
    ASSUME IInv, Execute
    PROVE  IInv'
  <1>1. /\ Len(Data) \in Nat /\ nread \in Nat /\ saved \in Nat /\ pauses \in Nat /\ from \in Nat /\ from <= Len(Data)
        /\ line \in Lines /\ at = 0 /\ errno = "OK" /\ again = FALSE
    BY PlacesNat DEF IInv, Places, Execute
  <1>2. /\ at' = from + 1 /\ marks' = Resumed
        /\ UNCHANGED <<line, from, state, h, errno, saved, nread, again, told, pauses, ended>>
    BY DEF Execute
  <1>3. Data' = Data /\ end' \in Nat /\ from < end' /\ end' <= Len(Data)
    <2>1. PICK n \in 1..(Len(Data) - from) : end' = from + n
      BY DEF Execute
    <2>2. QED
      BY <1>1, <1>2, <2>1 DEF Data
  <1>4. IsTelling(told') /\ HeaderBytes'[Len(told')] = HeaderBytes[Len(told)] /\ HeaderBytes[Len(told)] \in Nat
        /\ (pauses' = 0 => AllSmall')
    BY <1>2, ToldRests DEF IInv
  <1>5. Places'
    <2>1. at' \in 0..Len(Data') + 1 /\ end' \in 0..Len(Data') /\ from' \in 0..Len(Data') /\ at' # 0
      <3>1. PICK l \in Nat : l = Len(Data) /\ l = Len(Data')
        BY <1>1, <1>3
      <3>2. from + 1 \in 0..l + 1 /\ end' \in 0..l /\ from \in 0..l /\ from + 1 # 0
        BY <1>1, <1>3, <3>1
      <3>3. QED
        BY <1>2, <3>1, <3>2
    <2>2. from' < at' /\ at' <= end' + 1 /\ errno' = "OK"
      <3>1. from < end' /\ from \in Nat /\ end' \in Nat
        BY <1>1, <1>3
      <3>2. \A i, j \in Nat : i < j => i < i + 1 /\ i + 1 <= j + 1
        OBVIOUS
      <3>3. QED
        BY <1>1, <1>2, <3>1, <3>2
    <2>3. line' \in Lines /\ nread' \in Nat /\ saved' \in Nat /\ pauses' \in Nat /\ again' \in BOOLEAN
      BY <1>1, <1>2
    <2>4. QED
      BY <2>1, <2>2, <2>3 DEF Places
  <1>6. PICK p \in Nat : p = from + 1 /\ p # 0
    BY <1>1
  <1>7. marks' \in [Fields -> {0, p}] /\ \A f \in Fields : marks'[f] # 0 => state \in During[f]
    <2>1. marks' \in [Fields -> {0, p}]
      BY <1>2, <1>6 DEF Resumed
    <2>2. ASSUME NEW f \in Fields, marks'[f] # 0 PROVE state \in During[f]
      BY <1>2, <2>2 DEF Resumed, During
    <2>3. QED
      BY <2>1, <2>2
  <1>8. Marking'
    <2>1. marks' \in [Fields -> Nat] /\ at' = p
      BY <1>2, <1>6, <1>7
    <2>2. \A f \in Fields : marks'[f] # 0 => marks'[f] = p
      BY <1>7
    <2>3. p <= p
      OBVIOUS
    <2>4. \A f \in Fields : marks'[f] # 0 => state' \in During[f] /\ marks'[f] <= at'
      BY <1>2, <1>7, <2>1, <2>2, <2>3
    <2>5. QED
      BY <1>6, <2>1, <2>4 DEF Marking
  <1>9. FromZero'
    BY <1>2 DEF IInv, FromZero, Alive
  <1>10. Budget'
    <2>1. SUFFICES ASSUME pauses' = 0, Alive', Heading(state', h')
                   PROVE  Fits(HeaderBytes'[Len(told')], at', end', again', marks', nread')
      BY DEF Budget
    <2>2. PICK b \in Nat : b = HeaderBytes[Len(told)]
      BY <1>4
    <2>3. pauses = 0 /\ Alive /\ Heading(state, h)
      BY <1>1, <1>2, <2>1 DEF Alive
    <2>4. Fits(b, at, end, again, marks, nread)
      BY <2>2, <2>3 DEF IInv, Budget
    <2>5. b + 0 <= nread
      BY <1>1, <2>4 DEF Fits
    <2>6. \A f \in Fields : marks'[f] # 0 => b + (p - marks'[f]) + 0 <= nread
      <3>1. ASSUME NEW f \in Fields, marks'[f] # 0 PROVE b + (p - marks'[f]) + 0 <= nread
        <4>1. marks'[f] = p
          BY <1>7, <3>1
        <4>2. QED
          BY <2>5, <4>1
      <3>2. QED
        BY <3>1
    <2>7. Fits(b, p, end', FALSE, marks', nread)
      BY <2>5, <2>6 DEF Fits
    <2>8. HeaderBytes'[Len(told')] = b /\ at' = p /\ again' = FALSE /\ nread' = nread
      BY <1>1, <1>2, <1>4, <1>6, <2>2
    <2>9. QED
      BY <2>7, <2>8
  <1>11. Says(state', h')
    BY <1>2 DEF IInv
  <1>12. QED
    BY <1>4, <1>5, <1>8, <1>9, <1>10, <1>11 DEF IInv

\* A step between two calls, which leaves what the parser counts.
LEMMA ClientKeeps ==
    ASSUME IInv, at = 0, UNCHANGED <<line, from, state, h, saved, nread, at, end, again, marks, pauses>>,
           Alive' => Alive, IsTelling(told'), pauses = 0 => AllSmall',
           Heading(state, h) => told' = told
    PROVE  IInv'
  <1>1. Data' = Data
    BY DEF Data
  <1>2. Places'
    BY <1>1 DEF IInv, Places
  <1>3. Says(state', h') /\ Marking'
    BY DEF IInv, Marking
  <1>4. FromZero'
    BY DEF IInv, FromZero
  <1>5. Budget'
    <2>1. SUFFICES ASSUME pauses' = 0, Alive', Heading(state', h')
                   PROVE  Fits(HeaderBytes'[Len(told')], at', end', again', marks', nread')
      BY DEF Budget
    <2>2. Fits(HeaderBytes[Len(told)], at, end, again, marks, nread)
      BY <2>1 DEF IInv, Budget
    <2>3. HeaderBytes'[Len(told')] = HeaderBytes[Len(told)]
      BY <2>1, ToldRests DEF IInv
    <2>4. QED
      BY <2>2, <2>3
  <1>6. QED
    BY <1>2, <1>3, <1>4, <1>5 DEF IInv

\* http_parser_pause(parser, 0).
LEMMA ResumeKeeps ==
    ASSUME IInv, Resume
    PROVE  IInv'
  <1>1. Alive /\ told' = told /\ UNCHANGED <<line, from, state, h, saved, nread, at, end, again, marks, pauses>> /\ at = 0
    BY DEF Resume, Alive
  <1>2. IsTelling(told') /\ (pauses = 0 => AllSmall')
    BY <1>1, ToldRests DEF IInv
  <1>3. QED
    BY <1>1, <1>2, ClientKeeps

\* The end of the stream.
LEMMA EndOfStreamKeeps ==
    ASSUME IInv, EndOfStream
    PROVE  IInv'
  <1>1. /\ at = 0 /\ errno = "OK" /\ Alive
        /\ UNCHANGED <<line, from, state, h, saved, nread, at, end, again, marks, pauses>>
    BY DEF EndOfStream, Alive
  <1>2. CASE state = "s_body_identity_eof"
    <2>1. PICK keep : told' = Tell("message_complete", keep)
      BY <1>2 DEF EndOfStream, StartStates
    <2>2. PICK cb \in Callbacks : cb = "message_complete" /\ cb \notin Fields /\ cb # "headers_complete"
      BY DEF Callbacks, Fields
    <2>3. IsTelling(told') /\ (AllSmall => AllSmall')
      BY <2>1, <2>2, TellCounts DEF IInv
    <2>4. ~Heading(state, h)
      BY <1>2 DEF Heading, BodyStates
    <2>5. QED
      BY <1>1, <2>3, <2>4, ClientKeeps DEF IInv
  <1>3. CASE state # "s_body_identity_eof"
    <2>1. told' = told
      BY <1>3 DEF EndOfStream
    <2>2. IsTelling(told') /\ (pauses = 0 => AllSmall')
      BY <2>1, ToldRests DEF IInv
    <2>3. QED
      BY <1>1, <2>1, <2>2, ClientKeeps
  <1>4. QED
    BY <1>2, <1>3

-----------------------------------------------------------------------------
(***************************************************************************)
(* The theorems.                                                           *)
(***************************************************************************)
\* http_parser_init.
LEMMA InitKeeps == Init => IInv
  <1> SUFFICES ASSUME Init PROVE IInv
    OBVIOUS
  <1>1. line \in Lines /\ from = 0 /\ errno = "OK" /\ saved = 0 /\ nread = 0 /\ at = 0 /\ end = 0 /\ again = FALSE
        /\ marks = NoMarks /\ told = <<>> /\ pauses = 0
    BY DEF Init
  <1>2. Len(Data) \in Nat
    BY <1>1, LinesAssumption, LenProperties DEF Data
  <1>3. Places
    <2>1. from \in 0..Len(Data) /\ end \in 0..Len(Data) /\ at \in 0..Len(Data) + 1
      BY <1>1, <1>2
    <2>2. nread \in Nat /\ saved \in Nat /\ pauses \in Nat /\ again \in BOOLEAN /\ ~again /\ at = 0
      BY <1>1
    <2>3. QED
      BY <1>1, <2>1, <2>2 DEF Places
  <1>4. DOMAIN h = HFields /\ h.content_length = 0 /\ h.type = line.type
    BY DEF Init, HFields
  <1>5. state \in StartStates
    <2>1. h.type \in {"HTTP_REQUEST", "HTTP_RESPONSE", "HTTP_BOTH"}
      BY <1>1, <1>4, LinesAssumption
    <2>2. state = CASE h.type = "HTTP_REQUEST" -> "s_start_req"
                    [] h.type = "HTTP_RESPONSE" -> "s_start_res"
                    [] h.type = "HTTP_BOTH" -> "s_start_req_or_res"
      BY DEF Init
    <2>3. QED
      BY <2>1, <2>2 DEF StartStates
  <1>6. Unmarked(state) /\ state \notin Special /\ state \in Over /\ state # "s_chunk_size_start"
    BY <1>5, StartsAre
  <1>7. h.content_length \in 0..ULLONG_MAX
    BY <1>4, Bounds
  <1>8. Says(state, h)
    BY <1>4, <1>6, <1>7, SaysPlain
  <1>9. Marking
    BY <1>1 DEF Marking, NoMarks
  <1>10. FromZero /\ Budget
    BY <1>6 DEF FromZero, Budget, Heading, Over
  <1>11. IsTelling(told)
    <2>1. told \in Seq(STRING) /\ Len(told) = 0
      BY <1>1
    <2>2. QED
      BY <2>1 DEF IsTelling
  <1>12. AllSmall
    BY <1>1 DEF AllSmall
  <1>13. QED
    BY <1>3, <1>8, <1>9, <1>10, <1>11, <1>12 DEF IInv

\* The steps that read a byte of the first line.
LEMMA FirstLineKeeps ==
    ASSUME IInv, FirstLine
    PROVE  IInv'
  BY BlanksKeep, ClosedKeeps, StartReqOrResKeeps, ResOrRespHKeeps, StartResKeeps, StartReqKeeps, ReqMethodKeeps,
     SpacesBeforeUrlKeeps, UrlCharsKeep, UrlEndKeeps, HttpStartKeeps, ExpectKeeps, HttpMajorKeeps, HttpMinorKeeps,
     ReqHttpEndKeeps, FirstStatusCodeKeeps, StatusCodeKeeps, StatusStartKeeps, StatusKeeps DEF FirstLine

\* The steps that read a byte of a header.
LEMMA HeaderKeeps ==
    ASSUME IInv, Header
    PROVE  IInv'
  BY HeaderFieldStartKeeps, HeaderFieldKeeps, DiscardWsKeeps, ValueStartKeeps, HeaderValueKeeps, ValueLwsKeeps,
     DiscardLwsKeeps, TrailingKeeps, HeadersAlmostDoneKeeps, HeadersDoneKeeps DEF Header

\* The steps that read a byte of a body.
LEMMA BodyKeeps ==
    ASSUME IInv, Body
    PROVE  IInv'
  BY BodyIdentityKeeps, BodyIdentityEofKeeps, MessageDoneKeeps, ChunkSizeStartKeeps, ChunkSizeKeeps,
     ChunkParametersKeeps, ChunkSizeAlmostDoneKeeps, ChunkDataKeeps, ChunkDataAlmostDoneKeeps, ChunkDataDoneKeeps
     DEF Body

\* Nothing happens.
LEMMA StutterKeeps ==
    ASSUME IInv, UNCHANGED vars
    PROVE  IInv'
  <1>1. Data' = Data /\ UNCHANGED <<line, from, state, h, errno, saved, nread, at, end, again, marks, told, pauses>>
    BY DEF vars, Data
  <1>2. Places' /\ Says(state', h') /\ Marking' /\ FromZero'
    BY <1>1 DEF IInv, Places, Marking, FromZero, Alive
  <1>3. Budget'
    BY <1>1, ToldRests DEF IInv, Budget, Alive
  <1>4. IsTelling(told') /\ (pauses' = 0 => AllSmall')
    BY <1>1, ToldRests DEF IInv
  <1>5. QED
    BY <1>2, <1>3, <1>4 DEF IInv

\* Every step of the parser and of the client keeps the invariant.
LEMMA NextKeeps == IInv /\ [Next]_vars => IInv'
  <1> SUFFICES ASSUME IInv, [Next]_vars PROVE IInv'
    OBVIOUS
  <1>1. CASE Iterate
    BY <1>1, FirstLineKeeps, HeaderKeeps, BodyKeeps, HeaderOverflowKeeps, LeftOverKeeps, ReturnLenKeeps DEF Iterate
  <1>2. CASE Execute \/ Resume \/ EndOfStream
    BY <1>2, ExecuteKeeps, ResumeKeeps, EndOfStreamKeeps
  <1>3. CASE UNCHANGED vars
    BY <1>3, StutterKeeps
  <1>4. QED
    BY <1>1, <1>2, <1>3 DEF Next

\* The parser's places, marks and counts, what its fields say in each state, and how much of a header
\* the client was told compared with what is counted.
THEOREM HttpInvariant == Spec => []IInv
  <1>1. QED
    BY InitKeeps, NextKeeps, PTL DEF Spec

\* At most one of the five marks is set (http_parser.c:2137).
LEMMA OneMark ==
    ASSUME Marking
    PROVE  Cardinality({f \in Fields : marks[f] # 0}) <= 1
  <1>1. PICK S : S = {f \in Fields : marks[f] # 0}
    OBVIOUS
  <1>2. \A f, g \in S : f = g
    BY <1>1, Disjoint DEF Marking
  <1>3. CASE S = {}
    BY <1>1, <1>3, FS_EmptySet
  <1>4. CASE S # {}
    <2>1. PICK f \in S : TRUE
      BY <1>4
    <2>2. S = {f}
      BY <1>2, <2>1
    <2>3. Cardinality(S) = 1
      BY <2>2, FS_Singleton
    <2>4. QED
      BY <1>1, <2>3
  <1>5. QED
    BY <1>3, <1>4

\* The invariant says what the assertions say.
LEMMA AssertionsHold == IInv => Asserted
  <1> SUFFICES ASSUME IInv PROVE Asserted
    OBVIOUS
  <1>1. at > end => Cardinality({f \in Fields : marks[f] # 0}) <= 1
    BY OneMark DEF IInv
  <1>2. ASSUME at # 0, at <= end, state = "s_chunk_size_start" PROVE Count = 1
    <2>1. nread = 0 /\ ~again
      BY <1>2 DEF IInv, FromZero, Alive, Places
    <2>2. state \notin BodyStates
      BY <1>2 DEF BodyStates
    <2>3. QED
      BY <2>1, <2>2 DEF Count
  <1>3. state \in {"s_chunk_size_start", "s_chunk_size", "s_chunk_parameters", "s_chunk_size_almost_done",
                   "s_chunk_data", "s_chunk_data_almost_done", "s_chunk_data_done"}
            => "F_CHUNKED" \in h.flags
    BY DEF IInv, Says, ChunkHeads, ChunkBodies
  <1>4. /\ state \in {"s_body_identity", "s_chunk_data"} => h.content_length \notin {0, ULLONG_MAX}
        /\ state = "s_chunk_data_almost_done" => h.content_length = 0
    BY DEF IInv, Says
  <1>5. state = "s_header_value" => h.header_state \notin {"h_connection", "h_transfer_encoding"}
    BY DEF IInv, Says, InValue
  <1>6. QED
    BY <1>1, <1>2, <1>3, <1>4, <1>5 DEF Asserted

\* The assertions of http_parser_execute hold, and unless a callback pauses the parser no header larger
\* than max_header_size is complete: for every stream, all calls that hand it over and all answers.
THEOREM BoundsAreKept == Spec => []BoundsHold
  <1>1. IInv => BoundsHold
    BY AssertionsHold DEF IInv, AllSmall, BoundsHold
  <1>2. QED
    BY <1>1, HttpInvariant, PTL
=============================================================================
