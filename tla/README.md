# libezutil in TLA+

libezutil is a C library of small parts: framers for serial lines and sockets, parsers for
protocols and file formats, a logger, codecs, ciphers and string helpers. Most parts keep
no thread and no socket of their own: an application calls them, in pieces and in an order
of its choosing, and they call it back. What goes wrong in such code goes wrong between
calls, so the models follow a part over whole histories of calls. Only the logger, the file
helpers and the TCP programs meet other actors.

- `*.tla` without a prefix model code; `MC*.tla` and `MC*.cfg` instantiate them for TLC;
  `*Proofs.tla` hold theorems for TLAPS.
- `PROJECT.json` lists the components, the runs, for each definition the lines it models, the
  hazards of the code with the properties that cover them, the findings and the theorems, and
  for each property a mutated definition under which TLC finds it violated.

## Parts of the system

| part | state | operations | modules |
|---|---|---|---|
| WebSocket frame parser, `ez_websocket_parser.c` | place in a frame, header fields, mask index, error, CLOSE seen | `init`, `execute`; callbacks begin, payload, complete | `WebSocketParser`; promise `FrameStream`; reference `WebSocketGrammar` |
| HDLC receiver, `ez_hdlc.c` | receive buffer and its length | `hdlc_new`, `hdlc_ondata`, `hdlc_delete`; callback per packet | `HdlcReceiver` |
| HDLC codec, `ez_hdlc.c`, `crc8.c`, `ez_mod_bus_crc16.c` | none | `encode`, `decode`, `get_dst_buf_len`, `make_packet`, `get_data` | `HdlcCodec`, `Checksums` |
| HDLC over TCP, `tutorial_libezutil/hdlc_tcp_*.c`, `hdlc_callback.cpp` | slots, descriptors, epoll interest; the client's socket, timer, counters | accept, receive and echo; connect, reconnect, send | `HdlcTcpServer`, `HdlcTcpClient`; one connection byte by byte: `HdlcLink`, promise `Channel` |
| ADLC receiver, `ez_adlc.c` | packet under way, packet that waits | `adlc_create`, `adlc_ondata`, `adlc_destroy`; callback per packet | `AdlcReceiver` |
| logger, `ez_log.c` | level, destination, line buffer, mutex, open file, backup files | `ez_log_structure`, `ez_log_set_level`, `ez_log_L`, `ez_log_cnt_L`, `ez_log`, `ez_log_destructor` | `EzLog` |
| HTTP parser, `http_parser.c` | state, header state, flags, content length, `nread`, error | `execute`, `pause`, `should_keep_alive`, `parse_url`; callbacks | `HttpParser`, `HttpUrl`, `HttpUrlCall` |
| JSON checker, `JSON_checker.c` | automaton, mode stack | `json_checker` | `JsonChecker`; reference `JsonGrammar` |
| JSON tokenizer, `jsmn.c` | position, token pool, parent token | `jsmn_parse` | `Jsmn`; reference `JsonGrammar` |
| INI parser, `ini.c` | section, last name, line, first error | `ini_parse_stream`; handler | `Ini` |
| reading table, `dataIdx.c` | 32 slots | `updateData`, `existId` | `DataIdx` |
| digests, `sha1.c`, `sha256.c`, `md5.c`, `std_md5.c`, `ez_md5.c` | block buffer, length, digest | init, update, final; calls on strings and files | `Digests` |
| ciphers, `des.c`, `aes.c`, `d3des.c`, `ez_aes.c` and others | key tables, initialisation vector | modes and wrappers | `Des`, `Ciphers` |
| times, `timespec.c` | none | all functions | `Timespec` |
| files, `ez_fs.c` | the file system | make directories, load, save, append | `EzFs` |
| URLs and queries, `ez_url_parser.c` | eight allocations | `ez_parse_url`, free | `UrlParser` |
| text encodings, `base64.c`, `base58.c`, `libbase58.c`, BCD of `str_opr.c` | none | encode, decode, lengths | `Encodings` |
| strings, `str_opr.c` | the caller's memory | trim, replace, split, count, dump, addresses | `StrOpr` |

Parts meet in few places. An application's receive loop gives what `recv` returned to
`hdlc_ondata`, whose callback calls `ez_hdlc_get_data` and, in the server, answers with
`ez_hdlc_make_packet`; `ez_hdlc.c` calls `ez_crc8` and `ez_modbus_crc16`. `http_parser_execute`
and `http_parser_parse_url` share one URL machine. The threads of a process share one logger
through its mutex and, at one remove, the file system. Everything else is a part on its own.

What is hard in them, and what makes each correct:

- **Streams cut anywhere** (WebSocket, HDLC, ADLC, HTTP, jsmn, digests, cipher modes). Bytes come in
  pieces of any size. What is reported must depend on the stream alone and never on the cuts,
  and noise or a false head may not swallow a packet that follows it.
- **Callbacks that refuse or pause**, and calls made after an error or a CLOSE frame.
- **Limits**: an HDLC piece that does not fit, an ADLC packet of maximal length, a log file at
  its size, a full token pool, JSON nested to the depth limit, a header at its maximal length,
  a full table, a port of 65536, a destination one byte too short.
- **Codecs**: what is unpacked is what was packed, and damage is noticed.
- **Threads and processes**: the logger's line buffer, level and destination; two callers of
  the file helpers.
- **Reuse** (TCP server): a slot or a descriptor given to another client while an event for
  the last one is under way.
- **Failure and restart**: a `rename`, `fopen` or `fprintf` that fails, an allocation that
  fails half way, a process killed between two renames, a server that goes and comes back.
- **Something that must happen**: calls return, mutexes are given back, edge-triggered sockets
  are drained, a lost connection is made again.

## Modules

                 WebSocketGrammar  FrameStream            Channel    HdlcCodec -- Checksums
                          \          /                        \       /
    MCWebSocketParser -- WebSocketParser        MCHdlcLink -- HdlcLink
                               |                               /    \
                     WebSocketParserProofs     HdlcReceiver --        -- HdlcProofs

    MCEzLog -- EzLog -- EzLogProofs
    HdlcTcpProofs -- MCHdlcTcp -- HdlcTcpServer, HdlcTcpClient
    MCHttpParser -- HttpParser (on HttpUrl) -- HttpParserProofs
    MCTexts -- AdlcReceiver -- AdlcReceiverProofs, JsonChecker, Jsmn (both on JsonGrammar), Ini,
               UrlParser, HttpUrlCall (on HttpUrl), StrOpr, Encodings
    MCValues -- HdlcReceiver, DataIdx and Timespec -- ValueProofs, Des -- DesProofs, EzFs, Digests,
                Ciphers

`MCTexts`, `MCValues` and `MCHdlcTcp` check modules that share nothing in one run: a variable
(`part`, or `at`) says which of them runs in a behaviour, and the others stay where they are.

### WebSocket

`WebSocketParser` has one action per iteration of the loop over the switch in
`ez_websocket_parser_execute`. `state` and `left` are `parser->state` (the eight states that
read a length and the four that read a key are one each, with the bytes left), `frame` the
fields of the frame in progress. `Execute` is a call with any non-empty prefix of what the
peer sent; the other actions are the cases of the switch, `EndOfData` the return at the end
of the data. A callback that returns non-zero is a choice in the action that calls it.
`cur` and `frames` are a client that collects what it is told, `seen` and `wire` the stream.

`FrameStream` is the promise of the callbacks with no byte of a header in sight: begin,
announced payload in order, complete, nothing after a refusal. `KeepsPromise` is the
refinement, and that every call returns. `WebSocketGrammar` reads a stream in one piece and is
the reference for `ReportsTheStream`.

### HDLC

`HdlcReceiver` models `hdlc_ondata`: `OnData` up to the loop, with the overload; `SkipByte`,
`Restart`, `Deliver` for the iterations of the scan; `Compact` for the end of the loop and
the `memmove`. `Renew` is `hdlc_delete` followed by `hdlc_new`, as on a reconnect. `heard`,
`passed`, `gap` and `told` record the line, the bytes that left the buffer, those that left
it unscanned and the callbacks; they guard nothing. A packet is defined on the line alone
(`PacketAt`), so the properties compare the receiver with the line.

`HdlcCodec` is the codec as operators; the loops are given by what they compute and every
error return by the first condition met. `Checksums` builds the two CRC tables from their
polynomials (the tables so computed are those of the C files). `HdlcLink` extends the
receiver by a sender, a line with noise between packets and at most one damaged byte, anywhere
in a packet (its FLAG, its length, the payload, the checksum), the receive loop and the callback; `LinkAssumption` says what it asks of the escape, the payloads and the
checksums, and TLC evaluates it on the real ones. On a quiet line (`quiet`, chosen at the start) it implements
`Channel`, in which what is sent arrives, once, whole and in order.

### HDLC over TCP

`HdlcTcpServer` has one action per system call of the server and, between any two of them,
steps of the clients and of the kernel. The loop of `accept`
goes on (`AcceptsOn`) until one fails, because the queue is empty (`AcceptsNoMore`) or although a
connection waits (`AcceptFails`): `NoDescriptor` is left, or the system has none or no memory. `SaysSo` is
the `perror` and `break` that follow. `limit` is how many descriptors the system leaves the process. `slots` is `g_server.clients`; `conn` says whose
connection a descriptor is, `interest` what epoll watches and the slot index it will report,
`ready` the descriptors with an event due, `events` the rest of the batch that `epoll_wait`
returned. Descriptors are reused, the lowest first, as the kernel does. `HdlcTcpClient` has the loop of the client
program, its timer and its counters; `batch` is the batch of events, so the timer's event and
the socket's come in either order. The kernel's part is modelled from how the programs use it.
Neither looks at bytes: a packet is its number.

### ADLC

`AdlcReceiver` has one action per byte of `adlc_ondata`: `Garbage`, `Collect`, `Release` (a
packet of maximal length), `HeadFlag`; `ReturnEmpty` and `Ask` end the call. `rxBuf` and
`execBuf` are the two buffers. The callback is the application's and answers anything at
every step; that it is not NULL is assumed (without it nothing bounds `execBuf`).

### Logger

`EzLog` has one action per step of a thread between which another thread can see a
difference: `Call` (the level check, without the lock), `Lock`, `MkLog`, `ToFile` and `ToOut`
(the two reads of `log_to`), `Open`, `Write`, `Close` (the `fclose` before a rotation), `Shift` (one
rename of the rotation) and `Unlock`; `SetLevel` and `SetTo` are the two writes of `ez_log_set_level`.
Reading `log_to` or `log_level` while another thread writes it is a data race; each read
gives the old or the new value, whichever the order of the steps says. `files` maps the numbers
of the files there are to their lines, so a missing file is a number outside its domain.
`Restructure` is `ez_log_destructor` and `ez_log_structure` with another number of
backups. `Crash` kills the process: of the lines in the buffer of `flog` any beginning
reaches the file. So it is when the buffer cannot be written out (`FlushFails`), be it in the `fprintf` that
finds it full (`WriteFails`, which loses its own line too), in the `fclose` before a rotation, or in that of
`ez_log_destructor`: the lines before are lost from any point of the buffer on. A line is the record of the call that made it, all lines are one long, and
`log_size` counts lines. A cut in the middle of a line is not modelled.

### HTTP

`HttpUrl` has the character classes and the two machines for URLs as operators. `HttpParser`
has one action per iteration of the loop in `http_parser_execute`: per byte, or per run of
bytes where the code loops inside (a header value, a body). `state` is both `parser->state` and
`p_state`; `nread` and its copy `saved` are two variables because a pause makes them differ.
`again` is the label `reexecute`; `marks` are the pointers into the caller's data, which must be
reported before the call ends. `h` is what `struct http_parser` says of the message. A callback
goes on, pauses, refuses or, for `on_headers_complete`, says that no body follows. `told` is
what the client heard, with the pieces of one text joined. `MCHttpParser` writes its streams from
messages, and each message says what a client is due: the expectation does not come from the
parser. `HttpUrlCall` calls `http_parser_parse_url` with texts of any form and with URLs made of
parts it remembers. The backquote, a token and URL character like `^` and `_`, is left out: a TLA+ string cannot hold it.

### Texts

`JsonChecker` runs `JSON_checker_char` over a text with the transition table's classes and
actions; `JsonGrammar` derives the same language from rules. `Jsmn` has one action per
iteration of `jsmn_parse`; the caller may bring more text, a larger pool, or none. `Ini` has one
action per line: its comment and blank trimming, section, pair, continuation, the byte order
mark, lines longer than the buffer. What the handler should hear is read off the lines: `Kinds` says what each is,
with the continuation lines that the code recognises (see INI, below), `Heard` the name and value of each. `UrlParser` has one action per field, each with an
allocation that may fail. `StrOpr` is given memory, not strings: cells with a NUL among them and
spare cells behind, so that a write outside shows. `Encodings` encodes and decodes what came of it.

### Values

`Timespec` has all of `timespec.c` as operators, but `timespec_mod`, whose doubling and
subtracting loops are actions. A double is a multiple of `1 / grid` of a second, and a sum or product that is none
becomes one of its two `Neighbours`, which of them is left open; rounding to the nearest, and the cut of a cast, choose
one of these. `DataIdx` is the table with an owner that may clear entries.
`EzFs` takes one system or library call a step, so that a second caller can come between;
writing passes through a stream's buffer and the disk may take a part, in `fclose` too, where nobody looks. In `Digests` a digest is
the sequence of blocks that were compressed, so that it says all a digest depends on.
`Des` is `des.c` round by round with the S boxes any function; `Ciphers` the chaining, padding
and length prefixes of the wrappers over any block cipher that is a permutation.

## What the runs show

| run | question | bounds |
|---|---|---|
| `ws_stream` | Is a stream read the same however it is cut, whatever the callbacks refuse, and by a parser that served a connection before? Does every call return? | all streams of up to 3 bytes of 8 header bytes and all pairs of 16 frames (empty, short, longer than `TempBuf`, each length form, masked or not, CLOSE and fragments), followed by 4 streams on new connections |
| `ws_close_repeated` | Does a CLOSE silence the parser? | violated, see below |
| `hdlc_link` | Is a quiet line a channel? With noise and damage, does what is undamaged arrive, and is no other payload taken for a damaged one that kept its length and escapes? Are announced buffer lengths enough? | the real FLAG, ESC and checksums, three payloads that need escaping; quiet: three packets in pieces of up to 9 bytes; otherwise two packets, two stray bytes and one byte of a packet, any of them, replaced by FLAG, ESC, a length or a letter |
| `hdlc_checksum` | Does an undamaged packet arrive whatever its checksum? | violated |
| `log` | Does each line go where it should, with its own text, and does every call return? What do rotation, failing renames, a buffer that cannot be written out, kills and another number of backups lose? | 2 threads of 2 lines each, one `set_level`, one stdio failure; or one thread of 6 lines, files of one, 1 or 2 backups, 2 failures, 2 kills or restarts |
| `http_messages` | Is a client told exactly the messages sent, however the connection is cut, paused or refused? Do the assertions of the code and the header limit hold? | about 170 connections of one or two messages, whole and in pieces of one byte, one pause or refusal at any callback; a chunked response with each byte in turn replaced |
| `tcp` | Are slots, descriptors, events and echoes ever mixed up or lost? Does anybody wait for ever, but for connections that wait when `accept` fails? Does the client reconnect as it was told? | server: 3 clients, 2 packets, 2 slots, batches of 2, and 3 descriptors with one failing system call or 2 without; client: every command line, limits none, 0 and 2 |
| `tcp_send` | Are the data of `-s` sent? | violated |
| `texts` | ADLC: are packets handed over whole, in order, in time and not again, and does every call return? Do the parsers and string functions accept, find and write what a definition of their own says? | ADLC: every line of up to 6 bytes over FLAG and two others, every cut, every answer, packets of up to 3 bytes; all texts of 3 to 5 characters over small alphabets, the same behind chosen beginnings, and texts made of parts; buffers, pools and rooms of every size around what is needed |
| `texts_continuations` | Is an indented line a continuation? | violated |
| `texts_lengths` | Is the length `base58_decode_length` announces enough? | violated |
| `values` | HDLC: are exactly the packets of the line delivered, when the buffer overflows too, and does every call return? Do times, tables, files, digests and ciphers compute, keep and write what a definition of their own says? | HDLC: every line of up to 7 bytes over {FLAG, a length too small, a length that fits, one above FLAG}, in pieces of up to 3, FLAG = 4, a buffer of 5; times around zero with a second of 8 ns and a long of 9 bits; a table of 3 for 4 ids; 2 callers; messages around one to six blocks; 4 rounds |

Deadlock is checked in `ws_stream`. The other systems really stop: a line, a text, a number of
payloads or of log calls is used up, and nothing obliges anyone to go on.

The bounds are small because the code is: its decisions depend on the byte at hand, on the
length of one packet, on one neighbour in a chain of files.

- HDLC: `FLAG` as small as 4 makes packets of 3 bytes, all lengths below FLAG, and lengths that
  are never reached occur within 7 bytes, several of them nested; 5 bytes of buffer hold one
  packet but not two, so that lines of 7 overload it with and without a head in it. The
  lengths between (2 and 4) differ from those in nothing the scan asks. The checksums of
  `HdlcLink` are not scaled down.
- TCP: a slot is reused within one batch by the second client while the third waits; three
  descriptors for two slots let a slot get a descriptor other than its last. With two descriptors for two slots
  `accept` fails while the third client waits, as with 1024 slots under the usual limit of 1024 descriptors, of which
  the process has others open; a descriptor withheld is counted as the one failure.
- HDLC damage: the payloads hold FLAG, ESC and a letter next to the code of one (145, 65); `145 65` has the checksum
  103, with which damage to 125 makes another payload that fits.
- Logger: two backups give the chain a first and a last link, and 6 lines rename it
  over and over; two failures let a rename fail twice.
- HTTP: a content length is one of 256 values (`ULLONG_MAX` = 255) so that its overflow is
  reached, and the header limit is 80 so that a header is too long with two lines.
- Texts: `MAX_SECTION` and `MAX_NAME` of 4 and a line of 9 are exceeded by a character or two; the depth
  limit of the JSON checker is the real one, 20, reached from 17 open brackets.
- Values: doubles lie on a grid of 3, 4 or 12 to a second of 8 nanoseconds, coarser and finer than these; with a long of 255, `timespec_mod` doubles up to the bound; digests with a length
  word of 16 bytes carry into the second word and out of it; a counter of 16 values wraps.

### Disagreements between code and documents

The first five are each shown by a run of its own, in which TLC finds the violation. The last two are said
by what the passing properties of `values` demand instead of the document.

1. A CLOSE frame is reported again by every later call (`ws_close_repeated`).
2. The CRC8 is not escaped but is decoded: a checksum equal to ESC makes an intact packet
   unreadable, one equal to FLAG makes the receiver drop it (`hdlc_checksum`).
3. The client program looks at `connected` before the loop that connects has begun, so the
   data of `-s` are never sent (`tcp_send`).
4. A line of an INI file that is indented with blanks or tabs does not continue the value before it: it is read as a
   pair or a section of its own, or is an error (`texts_continuations`).
5. `base58_decode_length` announces less than the data take when the text begins with `1`, or is short
   (`texts_lengths`). `DecodesItBack` gives the decoder rooms of its own, around what the data take.
6. `timespec.c:54-55`: "any timespec structure processed or returned by library functions is normalised according to
   the rules in timespec_normalise()". `timespec_mod` of a negative time returns one whose nanoseconds are negative
   unless they are 0 or the time was smaller than the divisor: it turns the signs of both fields (185-189).
   `ModIsRight`, in `TimesAreNumbers`, says that the result is in normal form, or its negation is if `ts1` was negative.
7. `ez_fs.h:40-42`: "return filesize", of saving and of appending. `ez_append_file_from_memory` returns what `fwrite`
   took, the number of bytes it appended (`ez_fs.c:253-262`); the lines that ask the file for its size are
   commented out (249-250). `FileIsAsTold`, in `AnswersAreTrue`, says what is returned.

### Fairness

WebSocket, HDLC and ADLC: a call, once made, runs to its return (`WF` of the loop's steps),
as sequential code does; nothing obliges a caller to call. `HdlcLink` adds that on a quiet line
what was sent is received, which TCP provides while the connection stands. Logger: each thread
inside a call goes on (`WF` per thread). The mutex may be given to any waiting thread; since a
thread logs finitely many lines in a run, weak fairness is enough for each to get it in the
end. For threads that log for ever `pthread_mutex_lock` promises no such thing. TCP server: its
loop goes on while it has something to do (`WF` of `ServerStep`); nothing is asked of the
clients. `EverybodyIsServed` says nothing of a connection that waits when `accept` fails for want of a
descriptor or of memory (`Overlooked`): its event is used up, and only another client's connection raises the next. TCP client: its loop and its timer go on (`WF`); and a server that stays up answers an attempt
again and again before the client's wait ends (`SF` of `BeginConnect`, `Answered`,
`ConnectSucceeds`), since each attempt may lose that race to the timer's event. The
other parts of `texts` and `values`, and `http_messages`, state no fairness and check no liveness.

## What is proved

The proofs hold for every value of the constants, under the assumptions named next to the
constants or in front of the theorem, and are checked by TLAPS. Each safety property needs an
inductive invariant, `IInv` unless another name is given; TLC has checked each of them on the
instance of the run before it was proved. Every action has a lemma that it keeps the invariant.

- `WebSocketParserProofs`: the parser's types, `FramesExact` (a frame is reported with exactly
  the payload it announced) and `UnmaskedInPhase`. The invariant holds types, the relation of
  `state`, `left` and the counters (`FrameInv`), and the phase of the mask, since the mask
  index alone says nothing of how much of the payload has come.
  `CallbacksKeepTheirPromise`: the parser implements `FrameStream`, the safety part of `KeepsPromise`.
  The step to `RepeatClose` is the one that needs more: `CloseInv` says that the frame a
  parser still holds after a CLOSE is the frame it reported last, so that later calls can only
  report that one again.
- `HdlcProofs`, in three parts. The receiver: `TypeOK` (the buffer is never outgrown, the scan never leaves it),
  `OnlyPackets` and `NoPacketMissed`, for every FLAG from 3 to 255, buffer size and line. `NoPacketMissed` is
  not inductive: a position that is no packet yet could become one when more of the line
  arrives. `Settled` is the strengthening: what the scan has passed is delivered, dropped, or
  refuted by bytes that were already there. It needs `BufferIsLine`, which ties the buffer to
  the line across `memmove`.
  The codec: what is encoded holds no FLAG and is decoded to what it was (`DecodingUndoesEncoding`), for all
  bytes, by a least counterexample. An ESC within a text that has been encoded is always followed by its second
  byte (`Clean`), so that a byte more decodes to a byte more.
  The link: `LinkInv` says that the packets lie on the line behind each other, those that are intact byte for byte as they
  were made, and that the callback got from each what `ez_hdlc_get_data` makes of it. With `NoPacketMissed` it gives
  `ArrivesIntact`, for every mode, room, payload, noise and damage of other packets, under `PlainChecks`: no byte of
  a checksum is FLAG or ESC. Without that it is false, as `hdlc_checksum` shows. `BufLenSuffices` needs a
  mode with a checksum (see HDLC, below).
- `AdlcReceiverProofs`: `ToldRuns`, `NoPacketLost` and the safety part of `OfferedInTime`, for every head
  flag, length of packets, line and answer of the callback. The properties speak of the line and
  the callbacks only; `UnderWay` and `Waits` connect them: what is collected is the run that ends
  where the scan is, between calls it is what waits in `rxBuf`, and no callback was given
  anything later.
- `EzLogProofs`: `WrittenOnce` and `GoesWhereItShould`, for any threads, messages, settings and numbers of files, with
  crashes and failing calls. The lock excludes (a part of `TypeOK`), so `logstr` is the line of the
  thread inside (`LogsItsCall`); a line that a call has not yet given to `log_file` is nowhere
  (`NotYet`), because lines are numbered by the calls counted (`Numbered`). `KeepsOrder` and `KeepsNewest` need a second
  invariant, `OInv`, on the chain of files. File 0 is the end of what was written (`Tailed`), so a kill cuts
  the same lines off both. Between two renames the number ahead is free (`Freed`), so only the first rename can
  overwrite a file, and it overwrites the oldest. `Gapless` and `Chained` say what is true in the middle of
  a rotation too: no line is missing between two that are held, there is every backup but for the number that
  renaming has left free (`Hole`), and all are full but for one that a buffer not written out has cut short. A file is
  full when it is to be closed (`Closing`), so that one is cut by the `fclose` that follows or not at all.
- `HdlcTcpProofs`: `EventsReachTheirClient`, `EchoesOwnPackets` and `NoDescriptorLeaks`, for any number of
  clients, slots, descriptors and events in a batch. `TcpInv` is the invariant of both programs. `EventsHold`
  is why slots may be used again: an event not handled yet is the only one of its slot, and nothing but that event
  empties the slot. For the client program, `ClientGivesUpInTime`: it never
  repeats an attempt more often than `max_reconnect` allows, the safety part of `ReconnectsAsTold`.
- `HttpParserProofs`: `BoundsHold`, the assertions in `http_parser_execute` and the limit on headers, for every
  stream, every way of cutting it into calls, every limit and every answer of the callbacks. An assertion about a mark
  or the content length speaks of one state; the invariant says for each state what `h` holds (`Says`), which
  text may be under way (`During`, so that at most one mark is set), and that `nread` is 0 where the head of a chunk
  begins (`FromZero`). The limit needs `Budget`: between the beginning of a message and the end of its headers, the
  bytes of the texts told so far, together with those behind a mark and the byte that is seen again, are no
  more than `nread` has counted. A pause stores an older `nread` and breaks this, so
  `Budget` and the limit are stated for parsers that were never paused; the assertions hold for all. `Matched` and `Scanned` follow a header's name and value byte by byte.
  `LinesAssumption` and `BoundAssumption` are about the streams and limits, `TextAssumption` says that digits
  have values and that the name of a refusal is neither OK nor PAUSED.
- `ValueProofs`, in two parts. The reading table: `HoldsTheLatest` for every size of table (`TableInv`).
  It speaks of the first entry with an id, and needs `Single`: there is never a second, whatever was emptied before it.
  Times: every operator computes on the numbers that times stand for, for all integers and units
  (`Units`: a second is a number of milliseconds, and of microseconds). Through a double of any grid a time comes back
  in normal form, less than a nanosecond from the double, and unchanged if the double can hold it (`DoublesAreClose`,
  from `Rounding`). For `timespec_mod`, the invariant of
  its two loops (`ModInv`: the doubled divisor can be halved back, what is left differs from the
  dividend by a multiple of the divisor), the remainder it returns, and that no `tv_nsec` leaves a long
  on the way. `Longs` says that a long holds two seconds of nanoseconds; `Calls` keeps the dividend away from
  the end of a long and, for a negative divisor, the quotient below about 2^32 (see Times, below).
- `DesProofs`: `GoesBack`, for every number of rounds, choice of tables, S boxes, key and text.
  `Tables` says what the tables of `des.c` satisfy: the two permutations of a block undo each other, the others
  point into what they are applied to. The core is `TurnedBack`: a round the other way with the same subkey undoes
  a round, whatever the S boxes do. The invariant says what the trail of a block's encryption holds
  (`Trails`, value by value), which of these values `M` is on the way back (`Mirrors`), and what
  has been written and is read (`Written`). `MCValues` checks `Tables` and `Inputs` on its instance.

Two invariants could not be proved as they stood, because the model said too much. `EzLog!TypeOK`
bounded the index of the rotation (`ii`) by the number of files; after a kill and a restart with fewer of them the index is
stale until it is set again. And `Calls` is what is left of "for all times" after the boundary case
under Times.

Induction: the induction theorems of the library take an operator as a parameter, but that the natural numbers are
well-founded does not. `LeastNatural` derives from it that a set of numbers has a least element, and an
induction is then a proof about a least counterexample. `Loops` of `Des`, a recursive function, is shown
to exist and to be natural in this way; so are the count of the bytes of a header and the readings of a name and a
value in `HttpParser`, the recursion inside the community modules' `FlattenSeq` and, on the length of texts, what the
HDLC codec does to them.

What stays with TLC:

- Liveness, and with it the other parts of `KeepsPromise`, `OfferedInTime` and `ReconnectsAsTold`; `HoldsBackOnlyHead`,
  `CallsReturn`, `EverybodyIsServed`.
- `DamageDetected` of `HdlcLink`, which is about damage that keeps the length and the escapes of a packet: it rests on which errors a CRC detects, which is arithmetic on its table.
- `IsChannel` of `HdlcLink`: it is liveness, and its `Received` is a `SelectSeq`, about which the library has no theorem.
- `ToldTheMessages` of the HTTP parser: what a client is due is written with each message in `MCHttpParser`, not a property
  of every stream.
- `ReportsTheStream` and the properties of `MCTexts`: agreement with grammars and references that are
  recursive operators.
- In `TimesAreNumbers`, that the doubled divisor is the divisor times `2 ^ i`: the provers know nothing of exponents.
  The theorems say instead that halving it `i` times gives the divisor back.
- Text encodings, checksums, digests, files and the modes of ciphers.

## Observations

What the models make visible and no run is about. Where a property needs one of these excluded, the
module says so.

**WebSocket.** Empty frames are reported complete, although `doc/RFC6455_TEST_COVERAGE.md:193`
says they are not.

**HDLC.** An HDLC packet of 3 bytes (`EZ_HDLC_MODE_NOT_VERIFY`) is delivered only when another
byte follows: the scan asks for four (`ez_hdlc.c:103`). In that mode a buffer of the length
`ez_hdlc_get_dst_buf_len` announces is one byte too small, since `Encode` leaves a byte free;
`BufLenSuffices` holds with a checksum. The mode "with crc16" (`ez_hdlc.h:32-34`) never compares the
checksum (`ez_hdlc.c:490`). With a CRC8 damage to one byte may give other data: where an ESC appears or
goes, several bytes of what is decoded differ. 145 65 with its checksum 103, the first byte damaged to 125, is
decoded to 97, with a checksum that fits. A damaged length may do the same.

**TCP programs.** The server does not ignore SIGPIPE, so an echo to a client that has gone may end
it (`Stop`). After `accept` fails for want of a descriptor (`hdlc_tcp_server.c:329-336`), connections that wait are accepted only when
another client connects: `Overlooked` is what `EverybodyIsServed` leaves open.
A client that never connected closes descriptor 0 at its end. Without auto-reconnect the client
waits for ever after a disconnect. A timer event during the wait for a connect counts as a failed
attempt. A `hdlc_new` that fails after a disconnect leaves a connected client that refuses every
piece. A `send` that takes only a part is not continued.

**Logger.** Level NONE (8) logs everything (`ez_log.c:269`, `ez_log.h:32`). A log file is
rotated only after it has outgrown its maximal length (`ez_log.h:48`): files hold
`LogSize + 1` lines. An `fprintf` that fails has failed to write out what is buffered: lines that earlier calls logged
with success go with it, and the results of `fclose` (`ez_log.c:150`, `158`, `230`) are not looked at. In the CLASSIC and FILENAME builds a message is two calls (`ez_log.h:98`), and
nothing promises that they stay together.

**HTTP.** `nread` is not reset behind a chunked message's trailers, so they count towards the next header. A
pause stores an older `nread`. A header value is reported before the check of the limit when a CR
ends it. Each call with length 0 at the end of a body notifies `on_message_complete` again. With
lenient headers a request may be read until the end of the stream, and is reported kept alive.
`http_parser_parse_url` refuses a fragment right behind the host, skips any number of `#` in front of a
fragment, and accepts a `?` behind host and port in a CONNECT request.

**JSON.** Depth 20 admits 19 nested brackets. The early return of -100 leaks the checker. A byte above 0x7F at
the beginning ends the loop, not the text. `jsmn` may not be cut inside a primitive.

**INI.** A continuation line indented with blanks or tabs is never recognised, because `trim_blank`
(`ini.c:158`) runs before the test `start > line` (`ini.c:174`); one that begins with a form feed or a
vertical tab is, since `trim_blank` leaves these alone. `ToldTheFile` holds of the lines as the code takes
them; `texts_continuations` shows the difference.

**URL and query.** `ez_parse_url` accepts an empty scheme, against the comment at line 70; a `?` without a path belongs
to the host. A query name is found as the suffix of another name, and only at its first
occurrence; a lower-case hexadecimal escape is misread; a `%` near the end reads past the NUL.

**Strings.** `src_len` below the leading run of blanks makes a difference wrap; `l_trim_c` cuts to `src_len` only
if something was trimmed; `split_str` copies everything if the separator is absent;
`replace_c` ignores `src_len`; `replace_chars_with_char` does not end when the replacement is
in the set; `m_split_str` writes no NUL; the search for `:` in an HTTP URL runs beyond the host, and an
RTSP URL without `/` dereferences NULL; a dump into 0 bytes has no limit; `isPrivateIPAddress` calls all
of class A but 58 private.

**Base58.** `b58tobin` counts leading ones beyond the buffer.

**Digests.** `count[0]` of MD5 is a 64-bit `long` (`md5.h:57`), so the carry out of 32 bits is lost.
`ez_md5_calc_8ascii_digit` hashes a 9-byte buffer with the length of its input.
`SHA1Input` returns success on overflow; only `SHA1Result` tells, and it never says `shaInputTooLong` (`sha1.h:37`).
`ez_md5_calc_hexstr` appends its digits to whatever its output holds (`md5.c:405`); `OneCall` is given an empty one.

**Ciphers.** `RotateL` copies between places that overlap with `memcpy` (`des.c:339`); the model has what it is meant
to do. `DesEncrypt` reads up to 7 bytes behind its input; its tables, and the key register of `d3des.c`, are
shared by threads. An AES counter call cut off a block boundary restarts the key stream with the
next block. `ez_aes_cbc` in place would clear its input.

**Times.** A time may change on its way through a double: 4.35 s come back as 4 s and 349999999 ns, and a time
of today, for which doubles are some 200 ns apart, is off by up to that. The doubling stops at `LONG_MAX >> 1` seconds
(`timespec.c:141`), which met the proof: for a dividend of `LONG_MAX` and a divisor of `LONG_MAX >> 1` seconds
it stops at once, the divisor is taken once and 4611686018427387904 s is returned, where "the remainder left over"
(`timespec.c:102`) is 1 s. With a negative divisor `tv_nsec` is doubled without a carry, and leaves a long when
the quotient is large.

**Files.** The result of `fclose` is ignored (`ez_fs.c:228`, `260`, `315`), so a length is returned for a file the disk
did not take: `AnswersAreTrue` holds a length for what was handed to the stream, and the file for that only while the
system fails nothing. Two
callers that make the same directory: one may be told -3 though it exists. With a trailing
separator 100, "exists", is returned for a directory the call itself made. Loading an
empty file returns 0 without setting the result. A reader beside a writer may get nothing or the beginning
of the file.

## Not modelled

- Arguments that are NULL and callbacks that are not set; text, dates and formatting;
  allocation failures where the code asserts.
- The compression functions of the hashes, the block ciphers and key schedules of `aes.c` and
  `d3des.c`, `crc16.c`, `crc32.c` and the other checksums: arithmetic on tables without control, for which
  test vectors say more than a model. `ez_md5_calc_8ascii_digit` and the codes made with it,
  because what it hashes is undefined.
- Date strings and character sets (calls of libc), `ez_uuid` and `ez_rand_buf` (random).
- `ez_system_api.c` and `ez_c_printf.c` wrap libc; `ez_bit.c` and `ez_appkey.c` are empty.
- `ez_log_destructor` while another thread is inside a call: the mutex is destroyed under it, which
  has no defined outcome to choose from.
- Unit tests and tools under `tutorial_libezutil` other than the two TCP programs.

## Plan

The components worth a model have one. What is left is to prove more:

1. `EzFs` and `Digests`: the invariant of two callers of the file helpers, and of the block buffer.
2. `HdlcLink` on a quiet line: the safety part of `IsChannel`, once a line that never overloads the receiver is stated as an
   assumption on the pieces.
