--------------------------- MODULE HttpConnection ---------------------------
(***************************************************************************)
(* How one worker thread of the embedded HTTP server reads one request     *)
(* after the other: read_message, get_request, mg_read and its chunked     *)
(* form, request_handler, and the discarding of what the handler left.     *)
(*                                                                         *)
(* A message is a sequence of units: those of the head, then those of the  *)
(* body.  A chunk's size line, the CRLF after its data, and the trailer    *)
(* are one unit each.  What a copy yields is the sequence of the positions *)
(* in the message of what was copied, so that a wrong offset shows.        *)
(* Polling a socket and receiving from it are two steps: stop_flag is read *)
(* between and after them.  enable_keep_alive is "no": one request each.   *)
(***************************************************************************)
EXTENDS Integers, Sequences, FiniteSets

CONSTANTS
    Requests,       \* the messages clients send: see Request
    BufSize,        \* conn->buf_size (max_request_size)
    HandlerBuf,     \* what request_handler asks for: sizeof(buffer) - 1
    DiscardBuf      \* what discard_unread_request_data asks for: MG_BUF_LEN

(* What is wrong with a message; "chunk": only its chunks are malformed. *)
Flaws == {"none", "malformed", "unparsable", "coding", "length", "version", "uri",
          "asterisk", "chunk"}

Unit == [kind : {"data", "size", "crlf", "end"}, size : Nat]

Request == [flaw : Flaws,
            head : Nat \ {0},                     \* units up to the empty line
            trusted : BOOLEAN,                    \* the peer is Config::LoxoneIP
            method : {"GET", "POST", "preflight",     \* OPTIONS, as CORS asks
                      "write",                \* PUT, DELETE, WebDAV: would change files
                      "other"},
            uri : {"set", "below", "other"},      \* /set, a longer one, no match
            query : {"none", "one", "else"},      \* after the "?" of the URI
            chunked : BOOLEAN,
            length : Nat,                         \* Content-Length, 0 without one
            body : Seq(Unit),
            one : SUBSET Nat]                     \* prefixes that read as value=1

(* What follows a size line is data, as much of it as the line says; a body  *)
(* not in chunks is all data.                                               *)
Framed(r) == IF r.chunked
    THEN \A i \in 1..Len(r.body) : r.body[i].kind = "size" =>
           \A j \in 1..Len(r.body) :
             i < j /\ j <= i + r.body[i].size => r.body[j].kind = "data"
    ELSE \A i \in 1..Len(r.body) : r.body[i].kind = "data"

(* What a client sends that means well: chunks of a size line, so much data   *)
(* and a CRLF; after the size line of none, the trailer ends the message.   *)
Chunks(r) ==
    /\ r.body # <<>> /\ r.body[1].kind = "size"
    /\ \A i \in 1..Len(r.body) :
         /\ r.body[i].kind = "size" /\ r.body[i].size = 0 =>
               i + 1 = Len(r.body) /\ r.body[i + 1].kind = "end"
         /\ r.body[i].kind = "size" /\ r.body[i].size > 0 =>
               /\ i + r.body[i].size + 2 <= Len(r.body)
               /\ r.body[i + r.body[i].size + 1].kind = "crlf"
               /\ r.body[i + r.body[i].size + 2].kind = "size"

ASSUME RequestsAssumption ==
    \A r \in Requests : /\ r \in Request /\ Framed(r)
                        /\ r.chunked /\ r.flaw = "none" => Chunks(r)
ASSUME BufSizeAssumption == BufSize \in Nat \ {0}
ASSUME HandlerBufAssumption == HandlerBuf \in Nat \ {0}
ASSUME DiscardBufAssumption == DiscardBuf \in Nat \ {0}

VARIABLES
    request,            \* the message of the connection, or of the last one
    arrived,            \* how much of it has reached the socket
    received,           \* how much of that has been taken off the socket
    clientOpen,         \* the client may still send
    stop_flag, registered,
    pc,
    data_len, request_len, content_len, consumed_content, is_chunked, must_close,
    reader,             \* who calls mg_read: "handler", then "discard"
    len, all_read,      \* mg_read: what it still wants, what it has copied
    purpose,            \* what the current read is for
    left, read,         \* mg_read_inner: what it still wants, what it has copied
    taken,              \* what the handler got of the body
    status, checked,    \* the answer; the handler called CheckLoxoneValues
    cut                 \* history: not all of the message could be read

socket == <<request, arrived, received, clientOpen>>
server == <<stop_flag, registered>>
message == <<data_len, request_len, content_len, consumed_content, is_chunked, must_close>>
call == <<reader, len, all_read, purpose, left, read>>
outcome == <<taken, status, checked>>
vars == <<socket, server, pc, message, call, outcome, cut>>

Pcs == {"idle", "read_message", "poll", "recv", "get_message", "get_request",
        "request_handler", "mg_read", "pull_all", "mg_read_inner", "answer", "close"}

Purposes == {"head", "plain", "data", "crlf", "size", "trailer"}

NoAnswer == 0

Total(r) == r.head + Len(r.body)

Position == 1..Total(request)

TypeOK ==
    /\ request \in Requests
    /\ arrived \in 0..Total(request)
    /\ received \in 0..arrived
    /\ clientOpen \in BOOLEAN /\ stop_flag \in BOOLEAN /\ registered \in BOOLEAN
    /\ must_close \in BOOLEAN /\ checked \in BOOLEAN /\ cut \in BOOLEAN
    /\ pc \in Pcs
    /\ data_len \in 0..BufSize
    /\ request_len \in Int
    /\ content_len \in Nat \cup {-1}
    /\ consumed_content \in Nat
    /\ is_chunked \in 0..4
    /\ reader \in {"none", "handler", "discard"}
    /\ purpose \in Purposes
    /\ len \in Nat /\ left \in Nat
    /\ all_read \in Seq(Position) /\ read \in Seq(Position) /\ taken \in Seq(Position)
    /\ status \in {NoAnswer, 200, 400, 403, 404, 405, 411, 505}

-----------------------------------------------------------------------------
(* Helpers *)

Least(a, b) == IF a < b THEN a ELSE b

(* The positions from a + 1 to a + n, in order. *)
Run(a, n) == [i \in 1..n |-> a + i]

UnitAt(p) == request.body[p - request.head]

(* What was read is one unit, of that kind. *)
ReadOne(kind) == Len(read) = 1 /\ read[1] > request.head /\ UnitAt(read[1]).kind = kind

(* Of a buffer that holds the first n units: the length of a complete head, *)
(* 0 if there is none yet, -1 if it cannot be one.                          *)
get_http_header_len(n) ==
    IF request.flaw = "malformed" /\ n > 0 THEN -1
    ELSE IF n >= request.head THEN request.head ELSE 0

-----------------------------------------------------------------------------
(* The client *)

Send == /\ pc # "idle" /\ clientOpen
        /\ arrived < Total(request)
        /\ arrived' = arrived + 1
        /\ UNCHANGED <<request, received, clientOpen, server, pc, message, call, outcome, cut>>

(* The client ends its side of the connection; what it sent can be read. *)
ClientCloses == /\ pc # "idle" /\ clientOpen
                /\ clientOpen' = FALSE
                /\ cut' = (cut \/ arrived < Total(request))
                /\ UNCHANGED <<request, arrived, received, server, pc, message, call, outcome>>

(* The connection is reset: what was not received yet is lost. *)
ClientResets == /\ pc # "idle" /\ clientOpen
                /\ clientOpen' = FALSE
                /\ arrived' = received
                /\ cut' = (cut \/ received < Total(request))
                /\ UNCHANGED <<request, received, server, pc, message, call, outcome>>

-----------------------------------------------------------------------------
(* The program: StopHttpServer, and StartHttpServer, whose handler is known *)
(* to a server only some time after it began to serve.                      *)

Stop == /\ ~stop_flag
        /\ stop_flag' = TRUE
        /\ cut' = TRUE
        /\ UNCHANGED <<socket, registered, pc, message, call, outcome>>

Start == /\ stop_flag /\ pc = "idle"
         /\ stop_flag' = FALSE
         /\ registered' = FALSE
         /\ UNCHANGED <<socket, pc, message, call, outcome, cut>>

mg_set_request_handler ==
         /\ ~stop_flag /\ ~registered
         /\ registered' = TRUE
         /\ UNCHANGED <<socket, stop_flag, pc, message, call, outcome, cut>>

-----------------------------------------------------------------------------
(* A connection begins. *)

init_connection == data_len' = 0

(* Mutant: the count of the last connection's body goes on. *)
reset_all_but_consumed ==
    /\ consumed_content' = consumed_content
    /\ content_len' = -1
    /\ is_chunked' = 0
    /\ must_close' = FALSE
    /\ request_len' = 0

reset_per_request_attributes ==
    /\ consumed_content' = 0
    /\ content_len' = -1
    /\ is_chunked' = 0
    /\ must_close' = FALSE
    /\ request_len' = 0

Connect(r) ==
    /\ pc = "idle" /\ ~stop_flag
    /\ request' = r
    /\ arrived' = 0 /\ received' = 0 /\ clientOpen' = TRUE
    /\ cut' = FALSE
    /\ init_connection
    /\ reset_per_request_attributes
    /\ reader' = "none"
    /\ taken' = <<>> /\ status' = NoAnswer /\ checked' = FALSE
    /\ all_read' = <<>> /\ read' = <<>>
    /\ pc' = "read_message"
    /\ UNCHANGED <<server, len, purpose, left>>

-----------------------------------------------------------------------------
(* Receiving: pull_inner, for the head and for the body *)

(* Mutant: the room is not reduced by what the buffer already holds. *)
HeadRoomWhole == BufSize

HeadRoom == BufSize - data_len

(* The loop of read_message while the head is not complete. *)
ReadMessage ==
    /\ pc = "read_message"
    /\ \/ /\ stop_flag \/ data_len >= BufSize
          /\ request_len' = IF stop_flag THEN -1 ELSE -2
          /\ pc' = "get_message"
          /\ UNCHANGED call
       \/ /\ ~stop_flag /\ data_len < BufSize
          /\ purpose' = "head"
          /\ left' = HeadRoom
          /\ pc' = "poll"
          /\ UNCHANGED <<request_len, reader, len, all_read, read>>
    /\ UNCHANGED <<socket, server, data_len, content_len, consumed_content, is_chunked,
                   must_close, outcome, cut>>

(* pull_inner yields nothing: read_message gives up, pull_all breaks. *)
PullFails(code) ==
    /\ request_len' = IF purpose = "head" THEN code ELSE request_len
    /\ pc' = IF purpose = "head" THEN "get_message" ELSE "mg_read_inner"
    /\ UNCHANGED <<data_len, content_len, consumed_content, is_chunked, must_close, call>>

PollStopped == /\ pc = "poll" /\ stop_flag
               /\ PullFails(-1)
               /\ UNCHANGED <<socket, server, outcome, cut>>

(* Mutant: only a connection that never sent anything is given up. *)
SilentAtAll == received = arrived /\ clientOpen /\ data_len = 0

Silent == received = arrived /\ clientOpen

(* A wait that ends the request: request_timeout has passed. *)
PollTimesOut == /\ pc = "poll" /\ ~stop_flag
                /\ Silent
                /\ PullFails(-3)
                /\ cut' = TRUE
                /\ UNCHANGED <<socket, server, outcome>>

PollReady == /\ pc = "poll" /\ ~stop_flag
             /\ received < arrived \/ ~clientOpen
             /\ pc' = "recv"
             /\ UNCHANGED <<socket, server, message, call, outcome, cut>>

(* What recv took when the server was stopped meanwhile is not used. *)
RecvFails ==
    /\ pc = "recv"
    /\ stop_flag \/ received = arrived
    /\ received' = received + Least(left, arrived - received)
    /\ PullFails(-1)
    /\ UNCHANGED <<request, arrived, clientOpen, server, outcome, cut>>

RecvHead ==
    /\ pc = "recv" /\ purpose = "head"
    /\ ~stop_flag /\ received < arrived
    /\ LET n == Least(left, arrived - received) IN
         /\ received' = received + n
         /\ data_len' = data_len + n
         /\ request_len' = get_http_header_len(data_len + n)
    /\ pc' = IF request_len' = 0 THEN "read_message"
             ELSE IF request_len' < 0 THEN "get_message" ELSE "get_request"
    /\ UNCHANGED <<request, arrived, clientOpen, server, content_len, consumed_content,
                   is_chunked, must_close, call, outcome, cut>>

(* consumed_content is advanced with each piece, not when pull_all is done. *)
RecvBody ==
    /\ pc = "recv" /\ purpose # "head"
    /\ ~stop_flag /\ received < arrived
    /\ LET n == Least(left, arrived - received) IN
         /\ received' = received + n
         /\ read' = read \o Run(received, n)
         /\ left' = left - n
         /\ consumed_content' = consumed_content + n
    /\ pc' = "pull_all"
    /\ UNCHANGED <<request, arrived, clientOpen, server, data_len, request_len, content_len,
                   is_chunked, must_close, reader, len, all_read, purpose, outcome, cut>>

(* Mutant: one piece is enough. *)
PullOnce == left > 0 /\ ~stop_flag /\ read = <<>>

PullMore == left > 0 /\ ~stop_flag

PullAll ==
    /\ pc = "pull_all"
    /\ pc' = IF PullMore THEN "poll" ELSE "mg_read_inner"
    /\ UNCHANGED <<socket, server, message, call, outcome, cut>>

-----------------------------------------------------------------------------
(* Refusing a message, or giving it to a handler *)

GetMessageFails ==
    /\ pc = "get_message"
    /\ status' = IF data_len > 0 THEN 400 ELSE NoAnswer
    /\ must_close' = TRUE
    /\ pc' = "close"
    /\ UNCHANGED <<socket, server, data_len, request_len, content_len, consumed_content,
                   is_chunked, call, taken, checked, cut>>

Refusals == {"unparsable", "coding", "length", "version", "uri", "asterisk"}

Refuse ==
    /\ pc = "get_request" /\ request.flaw \in Refusals
    /\ status' = CASE request.flaw = "length" -> 411
                   [] request.flaw = "version" -> 505
                   [] request.flaw = "asterisk" -> NoAnswer
                   [] OTHER -> 400
    /\ must_close' = TRUE
    /\ pc' = "close"
    /\ UNCHANGED <<socket, server, data_len, request_len, content_len, consumed_content,
                   is_chunked, call, taken, checked, cut>>

(* The prefix of the URI is all a handler is found by. *)
get_request_handler == registered /\ request.uri \in {"set", "below"}

(* A preflight is answered before any handler is looked for.  Without a      *)
(* handler the answer is 405 or 404: there is no document root.              *)
GetRequest ==
    /\ pc = "get_request" /\ request.flaw \notin Refusals
    /\ is_chunked' = IF request.chunked THEN 1 ELSE 0
    /\ content_len' = IF request.chunked THEN 0 ELSE request.length
    /\ \/ /\ request.method = "preflight"
          /\ status' = 200
          /\ pc' = "close"
       \/ /\ request.method # "preflight" /\ get_request_handler
          /\ pc' = "request_handler"
          /\ UNCHANGED status
       \/ /\ request.method # "preflight" /\ ~get_request_handler
          /\ status' = IF request.method = "write" THEN 405 ELSE 404
          /\ pc' = "close"
    /\ UNCHANGED <<socket, server, data_len, request_len, consumed_content, must_close, call,
                   taken, checked, cut>>

-----------------------------------------------------------------------------
(* Reading a body *)

(* The beginning of mg_read_inner: what lies in conn->buf is copied first. *)
mg_read_inner(want, why, content) ==
    LET some == IF consumed_content < content
                THEN Least(want, content - consumed_content) ELSE 0
        buffered_len == data_len - request_len - consumed_content
        copied == IF buffered_len > 0 THEN Least(some, buffered_len) ELSE 0
    IN /\ purpose' = why
       /\ read' = Run(request_len + consumed_content, copied)
       /\ left' = some - copied
       /\ consumed_content' = consumed_content + copied
       /\ content_len' = content
       /\ pc' = "pull_all"

CallMgRead(who, want) ==
    /\ reader' = who
    /\ len' = want
    /\ all_read' = <<>>
    /\ pc' = "mg_read"

(* Mutant: one read is enough to discard what is left. *)
DiscardOnce(copied) == FALSE

(* discard_unread_request_data reads until there is nothing more. *)
DiscardMore(copied) == copied # <<>>

(* For both callers 0 and an error are the same. *)
MgReadReturns(copied) ==
    \/ /\ reader = "handler"
       /\ taken' = copied
       /\ pc' = "answer"
       /\ UNCHANGED <<reader, len, all_read>>
    \/ /\ reader = "discard" /\ DiscardMore(copied)
       /\ CallMgRead("discard", DiscardBuf)
       /\ UNCHANGED taken
    \/ /\ reader = "discard" /\ ~DiscardMore(copied)
       /\ pc' = "close"
       /\ UNCHANGED <<reader, len, all_read, taken>>

(* The head of the loop of mg_read, or all of it for a body not in chunks. *)
MgRead ==
    /\ pc = "mg_read"
    /\ \/ /\ is_chunked = 0
          /\ mg_read_inner(len, "plain", content_len)
          /\ UNCHANGED <<reader, len, all_read, taken>>
       \/ /\ is_chunked = 1 /\ len > 0
          /\ IF consumed_content # content_len
               THEN mg_read_inner(len, "data", content_len)
               ELSE mg_read_inner(1, "size", content_len + 1)
          /\ UNCHANGED <<reader, len, all_read, taken>>
       \/ /\ is_chunked # 0
          /\ len = 0 \/ is_chunked # 1
          /\ MgReadReturns(IF len = 0 THEN all_read ELSE <<>>)
          /\ UNCHANGED <<purpose, left, read, content_len, consumed_content>>
    /\ UNCHANGED <<socket, server, data_len, request_len, is_chunked, must_close, status,
                   checked, cut>>

(* mg_read_inner has returned. *)

PlainRead ==
    /\ pc = "mg_read_inner" /\ purpose = "plain"
    /\ MgReadReturns(read)
    /\ UNCHANGED <<socket, server, message, purpose, left, read, status, checked, cut>>

ChunkBroken ==
    /\ pc = "mg_read_inner"
    /\ \/ purpose = "data" /\ read = <<>>
       \/ purpose = "crlf" /\ ~ReadOne("crlf")
       \/ purpose = "size" /\ ~ReadOne("size")
       \/ purpose = "trailer" /\ ~ReadOne("end")
    /\ is_chunked' = 2
    /\ MgReadReturns(<<>>)
    /\ UNCHANGED <<socket, server, data_len, request_len, content_len, consumed_content,
                   must_close, purpose, left, read, status, checked, cut>>

(* After the last data of a chunk its CRLF is read, before mg_read returns. *)
ChunkData ==
    /\ pc = "mg_read_inner" /\ purpose = "data" /\ read # <<>>
    /\ all_read' = all_read \o read
    /\ len' = len - Len(read)
    /\ IF consumed_content = content_len
         THEN mg_read_inner(1, "crlf", content_len + 1)
         ELSE /\ pc' = "mg_read"
              /\ UNCHANGED <<purpose, left, read, content_len, consumed_content>>
    /\ UNCHANGED <<socket, server, data_len, request_len, is_chunked, must_close, reader,
                   outcome, cut>>

ChunkEnd ==
    /\ pc = "mg_read_inner" /\ purpose = "crlf" /\ ReadOne("crlf")
    /\ pc' = "mg_read"
    /\ UNCHANGED <<socket, server, message, call, outcome, cut>>

ChunkSize ==
    /\ pc = "mg_read_inner" /\ purpose = "size" /\ ReadOne("size")
    /\ LET chunkSize == UnitAt(read[1]).size IN
         \/ /\ chunkSize > 0
            /\ content_len' = content_len + chunkSize
            /\ pc' = "mg_read"
            /\ UNCHANGED <<is_chunked, consumed_content, purpose, left, read>>
         \/ /\ chunkSize = 0
            /\ is_chunked' = 3
            /\ mg_read_inner(1, "trailer", content_len + 1)
    /\ UNCHANGED <<socket, server, data_len, request_len, must_close, reader, len, all_read,
                   outcome, cut>>

Trailer ==
    /\ pc = "mg_read_inner" /\ purpose = "trailer" /\ ReadOne("end")
    /\ is_chunked' = 4
    /\ MgReadReturns(all_read)
    /\ UNCHANGED <<socket, server, data_len, request_len, content_len, consumed_content,
                   must_close, purpose, left, read, status, checked, cut>>

-----------------------------------------------------------------------------
(* The program's handler, and what handle_request does after it *)

(* What the handler did not read is read and thrown away. *)
discard_unread_request_data ==
    IF must_close THEN pc' = "close" /\ UNCHANGED <<reader, len, all_read>>
                  ELSE CallMgRead("discard", DiscardBuf)

request_handler ==
    /\ pc = "request_handler"
    /\ \/ /\ ~request.trusted
          /\ status' = 403
          /\ discard_unread_request_data
       \/ /\ request.trusted /\ request.method = "POST"
          /\ CallMgRead("handler", HandlerBuf)
          /\ UNCHANGED status
       \/ /\ request.trusted /\ request.method # "POST"
          /\ pc' = "answer"
          /\ UNCHANGED <<status, reader, len, all_read>>
    /\ UNCHANGED <<socket, server, message, purpose, left, read, taken, checked, cut>>

(* The form data of the request, as far as the handler has it, and the value *)
(* that mg_get_var finds in it.                                              *)
Query == CASE request.method = "GET" -> request.query
           [] request.method = "POST" /\ taken # <<>> ->
                IF Len(taken) \in request.one THEN "one" ELSE "else"
           [] OTHER -> "none"

Answer ==
    /\ pc = "answer"
    /\ \/ /\ request.uri = "set" /\ Query = "none"
          /\ status' = 400 /\ UNCHANGED checked
       \/ /\ request.uri = "set" /\ Query # "none"
          /\ status' = 200 /\ checked' = (Query = "one")
       \/ /\ request.uri # "set"
          /\ status' = 404 /\ UNCHANGED checked
    /\ discard_unread_request_data
    /\ UNCHANGED <<socket, server, message, purpose, left, read, taken, cut>>

close_connection ==
    /\ pc = "close"
    /\ pc' = "idle"
    /\ must_close' = TRUE
    /\ UNCHANGED <<socket, server, data_len, request_len, content_len, consumed_content,
                   is_chunked, call, outcome, cut>>

-----------------------------------------------------------------------------

Init ==
    /\ request \in Requests
    /\ arrived = 0 /\ received = 0 /\ clientOpen = FALSE
    /\ stop_flag = FALSE /\ registered = FALSE
    /\ pc = "idle"
    /\ data_len = 0 /\ request_len = 0 /\ content_len = 0 /\ consumed_content = 0
    /\ is_chunked = 0 /\ must_close = FALSE
    /\ reader = "none" /\ len = 0 /\ all_read = <<>>
    /\ purpose = "head" /\ left = 0 /\ read = <<>>
    /\ taken = <<>> /\ status = NoAnswer /\ checked = FALSE
    /\ cut = FALSE

Client == Send \/ ClientCloses \/ ClientResets \/ \E r \in Requests : Connect(r)

Program == Stop \/ Start \/ mg_set_request_handler

Worker == \/ ReadMessage \/ PollStopped \/ PollTimesOut \/ PollReady
          \/ RecvFails \/ RecvHead \/ RecvBody \/ PullAll
          \/ GetMessageFails \/ Refuse \/ GetRequest
          \/ MgRead \/ PlainRead \/ ChunkBroken \/ ChunkData \/ ChunkEnd \/ ChunkSize \/ Trailer
          \/ request_handler \/ Answer \/ close_connection

Next == Client \/ Program \/ Worker

Spec == Init /\ [][Next]_vars /\ WF_vars(Worker)

-----------------------------------------------------------------------------
(* Properties *)

(* The units that are data of the body. *)
IsData(p) == UnitAt(p).kind = "data"

(* s lists the data up to position p, each unit once and in order. *)
Lists(s, p) ==
    /\ \A i \in 1..Len(s) : s[i] \in (request.head + 1)..p /\ IsData(s[i])
    /\ \A i, j \in 1..Len(s) : i < j => s[i] < s[j]
    /\ \A q \in (request.head + 1)..p : IsData(q) => \E i \in 1..Len(s) : s[i] = q

(* Where the message ends, as its framing says. *)
End(r) == r.head + (IF r.chunked THEN Len(r.body) ELSE Least(r.length, Len(r.body)))

(* How much data the message holds. *)
DataLen == Cardinality({p \in (request.head + 1)..End(request) : IsData(p)})

(* What the handler has of the body are its first units, each once and in    *)
(* order, wherever the head ended in the buffer and however the rest came:   *)
(* mg_read_inner takes up in the socket exactly where the buffer ends.       *)
TakenInOrder == \E p \in request.head..End(request) : Lists(taken, p)

(* A body that comes in pieces is not taken for a shorter one: unless the    *)
(* connection is cut short (a timeout, a close, a stop), the one mg_read of  *)
(* request_handler gets all of it, or as much as its buffer holds.           *)
BodyTakenWhole ==
    /\ pc = "answer" /\ request.method = "POST"
    /\ request.flaw = "none" /\ ~cut
    => Len(taken) = Least(HandlerBuf, DataLen)

(* When a connection is closed after the handler has answered, no unit of    *)
(* its message is unread: a socket closed with unread data resets the        *)
(* connection, and the client may lose the answer.                           *)
NothingLeftUnread ==
    /\ pc = "close" /\ reader # "none"
    /\ request.flaw = "none" /\ ~cut
    => received >= End(request)

(* Whatever a client does or does not send, and whenever the server is       *)
(* stopped, the worker thread gets away from every connection: mg_stop waits *)
(* for it.                                                                   *)
Released == pc # "idle" ~> pc = "idle"

=============================================================================
