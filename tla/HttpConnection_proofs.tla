----------------------- MODULE HttpConnection_proofs -----------------------
(***************************************************************************)
(* Proofs about HttpConnection, for any requests, any sizes of the         *)
(* buffers, and any interleaving with the client and with a stop.          *)
(***************************************************************************)
EXTENDS HttpConnection, SequenceTheorems, FiniteSetTheorems, TLAPS

(* How much of the message was copied, or is the head. *)
At == request_len + consumed_content

Pulling == pc \in {"poll", "recv"}

ReadingHead == pc = "read_message" \/ (Pulling /\ purpose = "head")

(* Inside mg_read_inner, and after it. *)
Reading == pc \in {"pull_all", "mg_read_inner"} \/ (Pulling /\ purpose # "head")

ReadingBody == pc = "mg_read" \/ Reading

Beginning == pc \in {"get_request", "request_handler"}

HeadInv ==
    /\ ReadingHead => data_len = received /\ consumed_content = 0
    /\ Pulling /\ purpose = "head" => left = BufSize - data_len /\ left > 0
    /\ Beginning => /\ request_len = request.head /\ request_len <= data_len
                    /\ data_len = received /\ consumed_content = 0
    /\ ReadingHead \/ Beginning => taken = <<>> /\ reader = "none"

(* The units up to the end of the chunk. *)
InChunk == \A q \in (At + 1)..(request_len + content_len) : q \in Position => IsData(q)

(* The socket is read where the buffer ends, and copying goes on from there. *)
InSync == /\ request_len = request.head
          /\ data_len <= received
          /\ consumed_content <= content_len
          /\ At <= Total(request)
          /\ ~stop_flag => received = IF At > data_len THEN At ELSE data_len

MgReadInv ==
    pc = "mg_read" =>
        /\ is_chunked = 0 => (reader = "handler" => consumed_content = 0)
        /\ is_chunked = 1 => InChunk /\ (reader = "handler" => Lists(all_read, At))
        /\ reader = "handler" => is_chunked \in {0, 1}

ReadInv ==
    Reading =>
        /\ Len(read) <= consumed_content
        /\ read = Run(At - Len(read), Len(read))
        /\ consumed_content + left <= content_len
        /\ left > 0 => At >= data_len
        /\ Pulling => left > 0 /\ purpose # "head"
        /\ purpose = "plain" <=> is_chunked = 0
        /\ purpose = "plain" => (reader = "handler" => Lists(read, At))
        /\ purpose = "data" => /\ is_chunked = 1 /\ InChunk
                               /\ Len(read) + left <= len
                               /\ reader = "handler" => Lists(all_read \o read, At)
        /\ purpose \in {"crlf", "size", "trailer"} =>
                /\ consumed_content + 1 = content_len + Len(read)
                /\ is_chunked = IF purpose = "trailer" THEN 3 ELSE 1
                /\ reader = "handler" => Lists(all_read, At - Len(read))
        /\ purpose # "head"

BodyInv ==
    ReadingBody =>
        /\ InSync
        /\ is_chunked = 0 <=> ~request.chunked
        /\ is_chunked = 0 => content_len = request.length
        /\ reader # "none"
        /\ reader = "handler" => taken = <<>>

AnswerInv == pc = "answer" => /\ InSync
                              /\ is_chunked = 0 <=> ~request.chunked
                              /\ is_chunked = 0 => content_len = request.length
                              /\ is_chunked = 1 => InChunk

HandlerInv == pc = "request_handler" => /\ is_chunked = IF request.chunked THEN 1 ELSE 0
                                        /\ content_len = IF request.chunked THEN 0 ELSE request.length

IInv == /\ TypeOK /\ HeadInv /\ HandlerInv /\ BodyInv /\ MgReadInv /\ ReadInv /\ AnswerInv
        /\ TakenInOrder


-----------------------------------------------------------------------------
(* Facts about the data *)

LEMMA RunFacts ==
    ASSUME NEW a \in Int, NEW n \in Nat
    PROVE  /\ Run(a, n) \in Seq(Int) /\ Len(Run(a, n)) = n
           /\ \A i \in 1..n : Run(a, n)[i] = a + i
BY DEF Run

LEMMA RequestFacts ==
    ASSUME TypeOK
    PROVE  /\ request.head \in Nat \ {0} /\ Len(request.body) \in Nat
           /\ request.length \in Nat /\ request.chunked \in BOOLEAN
           /\ Total(request) \in Nat /\ Total(request) = request.head + Len(request.body)
           /\ Framed(request)
           /\ \A i \in 1..Len(request.body) : request.body[i] \in Unit
<1>1. request \in Request /\ Framed(request)
  BY RequestsAssumption DEF TypeOK
<1>2. request.body \in Seq(Unit) /\ request.head \in Nat \ {0} /\ request.length \in Nat
      /\ request.chunked \in BOOLEAN
  BY <1>1 DEF Request
<1>3. QED
  BY <1>1, <1>2 DEF Total

(* What the handler has stays in order while the request is the same. *)
LEMMA TakenStays ==
    ASSUME TakenInOrder, UNCHANGED <<request, taken>>
    PROVE  TakenInOrder'
BY DEF TakenInOrder, Lists, IsData, UnitAt, End

LEMMA NothingIsInOrder ==
    ASSUME TypeOK, taken' = <<>>, request' \in Requests
    PROVE  TakenInOrder'
<1>1. request'.head \in Nat /\ Len(request'.body) \in Nat /\ request'.length \in Nat
  BY RequestsAssumption DEF Request
<1>2. End(request)' \in Nat /\ request'.head <= End(request)'
  BY <1>1 DEF End, Least
<1>3. Lists(taken, request.head)'
  BY <1>1 DEF Lists
<1>4. QED
  BY <1>1, <1>2, <1>3 DEF TakenInOrder

(* Invariants that a step leaves alone when it changes none of their state. *)
Control == <<pc, purpose, left, reader, is_chunked, content_len, consumed_content, len, all_read,
             read, taken, request, request_len, data_len>>

LEMMA StopIsSafe ==
    ASSUME IInv, UNCHANGED <<Control, received>>, stop_flag' \in BOOLEAN,
           ~stop_flag' => ~stop_flag \/ pc = "idle"
    PROVE  /\ HeadInv' /\ HandlerInv' /\ BodyInv' /\ MgReadInv' /\ ReadInv' /\ AnswerInv'
           /\ TakenInOrder'
<1> USE DEF IInv, Control, At, Total, Position, Pulling
<1>1. HeadInv'
  BY DEF HeadInv, ReadingHead, Beginning
<1>2. HandlerInv'
  BY DEF HandlerInv
<1>3. InChunk' = InChunk
  BY DEF InChunk, IsData, UnitAt
<1>4. ASSUME InSync, pc # "idle" PROVE InSync'
  BY <1>4 DEF InSync
<1>5. BodyInv'
  BY <1>4 DEF BodyInv, ReadingBody, Reading
<1>6. \A s, p : Lists(s, p) => Lists(s, p)'
  BY DEF Lists, IsData, UnitAt
<1>7. MgReadInv'
  BY <1>3, <1>6 DEF MgReadInv
<1>8. ReadInv'
  BY <1>3, <1>6 DEF ReadInv, Reading, Run
<1>9. AnswerInv'
  BY <1>3, <1>4 DEF AnswerInv
<1>10. QED
  BY <1>1, <1>2, <1>5, <1>7, <1>8, <1>9, TakenStays

(* The typing of what refers to the request. *)
LEMMA SamePositions ==
    ASSUME request' = request
    PROVE  Position' = Position /\ Total(request)' = Total(request)
BY DEF Position, Total

(* TypeOK in parts, each of which few steps change. *)
SocketOK == /\ request \in Requests /\ arrived \in 0..Total(request)
            /\ received \in 0..arrived /\ clientOpen \in BOOLEAN
FlagsOK == /\ stop_flag \in BOOLEAN /\ registered \in BOOLEAN
           /\ must_close \in BOOLEAN /\ checked \in BOOLEAN /\ cut \in BOOLEAN
MessageOK == /\ data_len \in 0..BufSize /\ request_len \in Int /\ content_len \in Nat \cup {-1}
             /\ consumed_content \in Nat /\ is_chunked \in 0..4
CallOK == /\ reader \in {"none", "handler", "discard"} /\ purpose \in Purposes
          /\ len \in Nat /\ left \in Nat
AnswerOK == pc \in Pcs /\ status \in {NoAnswer, 200, 400, 403, 404, 405, 411, 505}
CopiesOK == all_read \in Seq(Position) /\ read \in Seq(Position) /\ taken \in Seq(Position)

LEMMA TypeParts ==
    /\ TypeOK <=> SocketOK /\ FlagsOK /\ MessageOK /\ CallOK /\ AnswerOK /\ CopiesOK
    /\ TypeOK' <=> SocketOK' /\ FlagsOK' /\ MessageOK' /\ CallOK' /\ AnswerOK' /\ CopiesOK'
<1>1. TypeOK <=> SocketOK /\ FlagsOK /\ MessageOK /\ CallOK /\ AnswerOK /\ CopiesOK
  BY ZenonT(60) DEF TypeOK, SocketOK, FlagsOK, MessageOK, CallOK, AnswerOK, CopiesOK
<1>2. TypeOK' <=> SocketOK' /\ FlagsOK' /\ MessageOK' /\ CallOK' /\ AnswerOK' /\ CopiesOK'
  BY ZenonT(60) DEF TypeOK, SocketOK, FlagsOK, MessageOK, CallOK, AnswerOK, CopiesOK
<1>3. QED
  BY <1>1, <1>2

LEMMA SocketStays == ASSUME SocketOK, UNCHANGED socket PROVE SocketOK'
BY DEF SocketOK, socket, Total
LEMMA CopiesStay == ASSUME CopiesOK, UNCHANGED <<request, all_read, read, taken>> PROVE CopiesOK'
<1>1. Position' = Position
  BY SamePositions
<1>2. QED
  BY <1>1 DEF CopiesOK

LEMMA ClientStep ==
    ASSUME IInv, Send \/ ClientCloses \/ ClientResets
    PROVE  IInv'
<1>1. UNCHANGED <<Control, received>> /\ stop_flag' = stop_flag
  BY DEF Send, ClientCloses, ClientResets, Control, server, message, call, outcome
<1>2. TypeOK'
  <2> USE DEF Send, ClientCloses, ClientResets, server, message, call, outcome
  <2>1. SocketOK /\ FlagsOK /\ MessageOK /\ CallOK /\ AnswerOK /\ CopiesOK
    BY TypeParts DEF IInv
  <2>2. SocketOK'
    <3>1. Total(request) \in Nat /\ Total(request)' = Total(request)
      BY <1>1, RequestFacts, SamePositions DEF IInv, Control
    <3>2. arrived' \in 0..Total(request) /\ received' \in 0..arrived'
      BY <2>1, <3>1 DEF SocketOK
    <3>3. request' = request /\ clientOpen' \in BOOLEAN
      BY <2>1 DEF SocketOK
    <3>4. QED
      BY <2>1, <3>1, <3>2, <3>3 DEF SocketOK
  <2>3. FlagsOK'
    <3>1. cut' \in BOOLEAN
      BY <2>1 DEF FlagsOK
    <3>2. QED
      BY <2>1, <3>1 DEF FlagsOK
  <2>4. MessageOK' /\ CallOK' /\ AnswerOK'
    BY <2>1 DEF MessageOK, CallOK, AnswerOK
  <2>5. CopiesOK'
    BY <2>1, CopiesStay
  <2>6. QED
    BY <2>2, <2>3, <2>4, <2>5, TypeParts
<1>3. QED
  BY <1>1, <1>2, StopIsSafe DEF IInv, TypeOK

LEMMA ProgramStep ==
    ASSUME IInv, Stop \/ Start \/ mg_set_request_handler
    PROVE  IInv'
<1>1. UNCHANGED <<Control, received>> /\ stop_flag' \in BOOLEAN
      /\ (~stop_flag' => ~stop_flag \/ pc = "idle")
  BY ZenonT(60) DEF IInv, TypeOK, Stop, Start, mg_set_request_handler, Control, socket, message, call, outcome
<1>2. TypeOK'
  <2> USE DEF Stop, Start, mg_set_request_handler, message, call, outcome
  <2>1. SocketOK /\ FlagsOK /\ MessageOK /\ CallOK /\ AnswerOK /\ CopiesOK
    BY TypeParts DEF IInv
  <2>2. SocketOK'
    BY <2>1, SocketStays
  <2>3. FlagsOK'
    BY <2>1 DEF FlagsOK
  <2>4. MessageOK' /\ CallOK' /\ AnswerOK'
    BY <2>1 DEF MessageOK, CallOK, AnswerOK
  <2>5. CopiesOK'
    BY <2>1, CopiesStay DEF socket
  <2>6. QED
    BY <2>2, <2>3, <2>4, <2>5, TypeParts
<1>3. QED
  BY <1>1, <1>2, StopIsSafe DEF IInv, TypeOK

-----------------------------------------------------------------------------
(* The worker, before the body *)

LEMMA ConnectStep ==
    ASSUME IInv, NEW r \in Requests, Connect(r)
    PROVE  IInv'
<1> USE DEF Connect, init_connection, reset_per_request_attributes, server
<1>1. SocketOK /\ FlagsOK /\ MessageOK /\ CallOK /\ AnswerOK /\ CopiesOK /\ TypeOK
  BY TypeParts DEF IInv
<1>2. SocketOK'
  <2>1. Total(r) \in Nat
    BY RequestsAssumption DEF Request, Total
  <2>2. QED
    BY <2>1 DEF SocketOK
<1>3. FlagsOK' /\ MessageOK' /\ CallOK' /\ AnswerOK' /\ CopiesOK'
  <2>1. FlagsOK'
    BY <1>1 DEF FlagsOK
  <2>2. MessageOK' /\ CallOK'
    BY <1>1, BufSizeAssumption DEF MessageOK, CallOK
  <2>3. AnswerOK' /\ CopiesOK'
    BY <1>1 DEF AnswerOK, CopiesOK, Pcs
  <2>4. QED
    BY <2>1, <2>2, <2>3
<1>4. HeadInv' /\ HandlerInv' /\ BodyInv' /\ MgReadInv' /\ ReadInv' /\ AnswerInv'
  BY DEF HeadInv, HandlerInv, BodyInv, MgReadInv, ReadInv, AnswerInv, ReadingHead, ReadingBody,
         Reading, Beginning, Pulling
<1>5. TakenInOrder'
  BY <1>1, NothingIsInOrder
<1>6. QED
  BY <1>2, <1>3, <1>4, <1>5, TypeParts DEF IInv

LEMMA ReadMessageStep ==
    ASSUME IInv, ReadMessage
    PROVE  IInv'
<1> USE DEF ReadMessage, HeadRoom
<1>1. SocketOK /\ FlagsOK /\ MessageOK /\ CallOK /\ AnswerOK /\ CopiesOK
  BY TypeParts DEF IInv
<1>2. SocketOK' /\ CopiesOK'
  BY <1>1, SocketStays, CopiesStay DEF socket, call, outcome
<1>3. FlagsOK' /\ MessageOK' /\ CallOK' /\ AnswerOK'
  BY <1>1, BufSizeAssumption DEF FlagsOK, MessageOK, CallOK, AnswerOK, server, outcome, call, Pcs, Purposes
<1>4. HeadInv' /\ HandlerInv' /\ BodyInv' /\ MgReadInv' /\ ReadInv' /\ AnswerInv'
  <2>1. pc' = "poll" => left' = BufSize - data_len' /\ left' > 0
    BY <1>1, BufSizeAssumption DEF MessageOK
  <2>2. QED
    BY <2>1 DEF HeadInv, HandlerInv, BodyInv, MgReadInv, ReadInv, AnswerInv, ReadingHead,
                ReadingBody, Reading, Beginning, Pulling, IInv, socket, outcome, call
<1>5. TakenInOrder'
  BY TakenStays DEF IInv, socket, outcome
<1>6. QED
  BY <1>2, <1>3, <1>4, <1>5, TypeParts DEF IInv

(* Whatever ends a connection, or leaves it, needs only its types. *)
LEMMA Closing ==
    ASSUME IInv, pc' \in {"get_message", "close", "idle"}, TypeOK', UNCHANGED <<request, taken>>
    PROVE  IInv'
<1>1. HeadInv' /\ HandlerInv' /\ BodyInv' /\ MgReadInv' /\ ReadInv' /\ AnswerInv'
  BY DEF HeadInv, HandlerInv, BodyInv, MgReadInv, ReadInv, AnswerInv, ReadingHead, ReadingBody,
         Reading, Beginning, Pulling
<1>2. TakenInOrder'
  BY TakenStays DEF IInv
<1>3. QED
  BY <1>1, <1>2 DEF IInv

LEMMA RefusalStep ==
    ASSUME IInv, GetMessageFails \/ Refuse \/ close_connection
    PROVE  IInv'
<1> USE DEF GetMessageFails, Refuse, close_connection, socket, server, call, outcome
<1>1. SocketOK /\ FlagsOK /\ MessageOK /\ CallOK /\ AnswerOK /\ CopiesOK
  BY TypeParts DEF IInv
<1>2. SocketOK' /\ CopiesOK'
  BY <1>1, SocketStays, CopiesStay
<1>3. FlagsOK' /\ MessageOK' /\ CallOK'
  BY <1>1 DEF FlagsOK, MessageOK, CallOK
<1>4. AnswerOK'
  BY <1>1 DEF AnswerOK, Pcs, NoAnswer
<1>5. QED
  BY <1>2, <1>3, <1>4, TypeParts, Closing

LEMMA GetRequestStep ==
    ASSUME IInv, GetRequest
    PROVE  IInv'
<1> USE DEF GetRequest, socket, server, call
<1>1. SocketOK /\ FlagsOK /\ MessageOK /\ CallOK /\ AnswerOK /\ CopiesOK /\ TypeOK
  BY TypeParts DEF IInv
<1>2. SocketOK' /\ CopiesOK'
  BY <1>1, SocketStays, CopiesStay
<1>3. FlagsOK' /\ MessageOK' /\ CallOK' /\ AnswerOK'
  BY <1>1, RequestFacts DEF FlagsOK, MessageOK, CallOK, AnswerOK, Pcs
<1>4. HeadInv' /\ HandlerInv' /\ BodyInv' /\ MgReadInv' /\ ReadInv' /\ AnswerInv'
  BY DEF HeadInv, HandlerInv, BodyInv, MgReadInv, ReadInv, AnswerInv, ReadingHead, ReadingBody,
         Reading, Beginning, Pulling, IInv
<1>5. TakenInOrder'
  BY TakenStays DEF IInv
<1>6. QED
  BY <1>2, <1>3, <1>4, <1>5, TypeParts DEF IInv

LEMMA RecvHeadStep ==
    ASSUME IInv, RecvHead
    PROVE  IInv'
<1> USE DEF RecvHead, server, call, outcome
<1>1. SocketOK /\ FlagsOK /\ MessageOK /\ CallOK /\ AnswerOK /\ CopiesOK /\ TypeOK
  BY TypeParts DEF IInv
<1>2. Total(request) \in Nat /\ Total(request)' = Total(request) /\ request.head \in Nat \ {0}
  BY <1>1, RequestFacts, SamePositions
<1>3. left = BufSize - data_len /\ data_len = received /\ consumed_content = 0
      /\ taken = <<>> /\ reader = "none"
  BY DEF IInv, HeadInv, Pulling, ReadingHead
<1>4. SocketOK' /\ MessageOK' /\ CopiesOK'
  <2>1. SocketOK'
    BY <1>1, <1>2 DEF SocketOK, Least, CallOK
  <2>2. MessageOK'
    BY <1>1, <1>2, <1>3, BufSizeAssumption DEF MessageOK, SocketOK, Least, get_http_header_len
  <2>3. QED
    BY <1>1, <2>1, <2>2, CopiesStay
<1>5. FlagsOK' /\ CallOK' /\ AnswerOK'
  BY <1>1 DEF FlagsOK, CallOK, AnswerOK, Pcs
<1>6. HeadInv' /\ HandlerInv' /\ BodyInv' /\ MgReadInv' /\ ReadInv' /\ AnswerInv'
  BY <1>2, <1>3 DEF HeadInv, HandlerInv, BodyInv, MgReadInv, ReadInv, AnswerInv, ReadingHead,
         ReadingBody, Reading, Beginning, Pulling, get_http_header_len
<1>7. TakenInOrder'
  BY TakenStays DEF IInv
<1>8. QED
  BY <1>4, <1>5, <1>6, <1>7, TypeParts DEF IInv

LEMMA PollStep ==
    ASSUME IInv, PollStopped \/ PollTimesOut \/ PollReady
    PROVE  IInv'
<1> USE DEF PollStopped, PollTimesOut, PollReady, PullFails, socket, server, outcome, message, call
<1>1. SocketOK /\ FlagsOK /\ MessageOK /\ CallOK /\ AnswerOK /\ CopiesOK
  BY TypeParts DEF IInv
<1>2. SocketOK' /\ CopiesOK'
  BY <1>1, SocketStays, CopiesStay
<1>3. FlagsOK'
  BY <1>1 DEF FlagsOK
<1>4. MessageOK' /\ CallOK'
  BY <1>1 DEF MessageOK, CallOK
<1>5. AnswerOK'
  BY <1>1 DEF AnswerOK, Pcs
<1>6. TypeOK'
  BY <1>2, <1>3, <1>4, <1>5, TypeParts
<1>7. CASE pc' = "get_message"
  BY <1>6, <1>7, Closing
<1>8. CASE pc' # "get_message"
  <2>1. HeadInv' /\ HandlerInv' /\ AnswerInv' /\ MgReadInv'
    BY <1>8 DEF IInv, HeadInv, HandlerInv, AnswerInv, MgReadInv, ReadingHead, Beginning, Pulling
  <2>2. InSync => InSync'
    BY <1>8 DEF InSync, At, Total
  <2>3. BodyInv'
    BY <1>8, <2>2 DEF IInv, BodyInv, ReadingBody, Reading, Pulling
  <2>4. InChunk => InChunk'
    BY <1>8 DEF InChunk, At, Total, Position, IsData, UnitAt
  <2>5. ReadInv'
    <3>1. \A t, p : Lists(t, p) => Lists(t, p)'
      BY DEF Lists, IsData, UnitAt
    <3>2. UNCHANGED <<purpose, left, read, is_chunked, reader, len, all_read, content_len,
                      consumed_content, request_len, data_len, request>>
      BY <1>8
    <3>3. Reading' => Reading
      BY <1>8, <3>2 DEF Reading, Pulling, IInv, ReadInv
    <3>4. Reading' /\ Pulling' => Pulling
      BY <1>8, <3>2 DEF Pulling
    <3>5. QED
      BY <2>4, <3>1, <3>2, <3>3, <3>4 DEF IInv, ReadInv, At, Run
  <2>6. TakenInOrder'
    BY TakenStays DEF IInv
  <2>7. QED
    BY <1>6, <2>1, <2>3, <2>5, <2>6 DEF IInv
<1>9. QED
  BY <1>7, <1>8

-----------------------------------------------------------------------------
(* Copying *)

LEMMA RunsJoin ==
    ASSUME NEW a \in Int, NEW m \in Nat, NEW n \in Nat
    PROVE  Run(a, m) \o Run(a + m, n) = Run(a, m + n)
BY DEF Run

LEMMA Beyond ==
    ASSUME NEW a \in Nat, NEW k \in Nat, NEW c, c = a + k, NEW b \in Int
    PROVE  \A q \in (c + 1)..b : q \in (a + 1)..b
OBVIOUS

LEMMA UpTo ==
    ASSUME NEW a \in Nat, NEW k \in Nat, NEW b \in Int, a + k <= b
    PROVE  \A q \in (a + 1)..(a + k) : q \in (a + 1)..b
OBVIOUS

(* More data is listed when a run of data is appended. *)
LEMMA ListsMore ==
    ASSUME TypeOK, NEW t \in Seq(Position), NEW p \in Nat, NEW n \in Nat, Lists(t, p),
           request.head <= p, \A q \in (p + 1)..(p + n) : IsData(q)
    PROVE  Lists(t \o Run(p, n), p + n)
<1> DEFINE u == t \o Run(p, n)
<1>1. /\ Len(t) \in Nat /\ Len(u) = Len(t) + n
      /\ \A i \in 1..Len(t) : u[i] = t[i]
      /\ \A i \in (Len(t) + 1)..Len(u) : u[i] = p + (i - Len(t))
  BY RunFacts DEF Run
<1>2. request.head \in Nat
  BY RequestFacts
<1>3. \A i \in 1..Len(t) : t[i] \in (request.head + 1)..p /\ IsData(t[i])
  BY DEF Lists
<1>4. ASSUME NEW i \in 1..Len(u) PROVE u[i] \in (request.head + 1)..(p + n) /\ IsData(u[i])
  <2>1. CASE i <= Len(t)
    BY <1>1, <1>2, <1>3, <2>1
  <2>2. CASE i > Len(t)
    <3>1. u[i] = p + (i - Len(t)) /\ u[i] \in (p + 1)..(p + n)
      BY <1>1, <2>2
    <3>2. QED
      BY <1>2, <3>1, SMTT(30)
  <2>3. QED
    BY <1>1, <2>1, <2>2
<1>5. ASSUME NEW i \in 1..Len(u), NEW j \in 1..Len(u), i < j PROVE u[i] < u[j]
  <2>1. CASE j <= Len(t)
    BY <1>1, <1>5, <2>1 DEF Lists
  <2>2. CASE j > Len(t) /\ i <= Len(t)
    BY <1>1, <1>2, <1>3, <2>2, SMTT(30)
  <2>3. CASE i > Len(t)
    BY <1>1, <1>5, <2>3
  <2>4. QED
    BY <1>1, <2>1, <2>2, <2>3
<1>6. ASSUME NEW q \in (request.head + 1)..(p + n), IsData(q) PROVE \E i \in 1..Len(u) : u[i] = q
  <2>1. CASE q <= p
    <3>1. PICK i \in 1..Len(t) : t[i] = q
      BY <1>2, <1>6, <2>1 DEF Lists
    <3>2. QED
      BY <1>1, <3>1
  <2>2. CASE q > p
    <3>1. Len(t) + (q - p) \in (Len(t) + 1)..Len(u)
      BY <1>1, <1>2, <2>2
    <3>2. u[Len(t) + (q - p)] = p + ((Len(t) + (q - p)) - Len(t))
      BY <1>1, <3>1
    <3>3. u[Len(t) + (q - p)] = q /\ Len(t) + (q - p) \in 1..Len(u)
      BY <1>1, <1>2, <3>1, <3>2
    <3>4. QED
      BY <3>3
  <2>3. QED
    BY <1>2, <2>1, <2>2
<1>7. QED
  BY <1>4, <1>5, <1>6 DEF Lists

LEMMA ListsNothing ==
    ASSUME TypeOK
    PROVE  Lists(<<>>, request.head)
BY RequestFacts DEF Lists

(* A unit that is no data may be passed over. *)
LEMMA ListsPast ==
    ASSUME TypeOK, NEW t \in Seq(Position), NEW p \in Nat, Lists(t, p), ~IsData(p + 1)
    PROVE  Lists(t, p + 1)
BY RequestFacts, SMTT(30) DEF Lists

(* In a body without chunks every unit is data. *)
LEMMA PlainIsData ==
    ASSUME TypeOK, ~request.chunked, NEW q \in (request.head + 1)..Total(request)
    PROVE  IsData(q)
<1>1. q - request.head \in 1..Len(request.body)
  BY RequestFacts
<1>2. QED
  BY <1>1, RequestFacts DEF Framed, IsData, UnitAt

(* mg_read_inner copies on from where the last copy ended. *)
LEMMA InnerReads ==
    ASSUME TypeOK, InSync, NEW want \in Nat, NEW why \in Purposes, NEW content \in Nat,
           consumed_content <= content, mg_read_inner(want, why, content),
           UNCHANGED <<socket, stop_flag, request_len, data_len>>
    PROVE  /\ InSync'
           /\ consumed_content' \in Nat /\ content_len' = content
           /\ read' \in Seq(Position) /\ left' \in Nat
           /\ pc' = "pull_all" /\ purpose' = why
           /\ consumed_content' = consumed_content + Len(read')
           /\ read' = Run(At, Len(read'))
           /\ Len(read') + left' = Least(want, content - consumed_content)
           /\ left' > 0 => At' >= data_len
<1> DEFINE some == IF consumed_content < content
                   THEN Least(want, content - consumed_content) ELSE 0
           buffered == data_len - request_len - consumed_content
           copied == IF buffered > 0 THEN Least(some, buffered) ELSE 0
<1>1. /\ Total(request) \in Nat /\ request.head \in Nat \ {0} /\ request_len = request.head
      /\ data_len \in Nat /\ consumed_content \in Nat /\ data_len <= Total(request)
      /\ At = request_len + consumed_content
  <2>1. Total(request) \in Nat /\ request.head \in Nat \ {0} /\ arrived \in 0..Total(request)
        /\ received \in 0..arrived /\ BufSize \in Nat
    BY RequestFacts, BufSizeAssumption DEF TypeOK
  <2>2. QED
    BY <2>1 DEF TypeOK, InSync, At
<1>2. /\ some \in Nat /\ some = Least(want, content - consumed_content)
      /\ copied \in 0..some /\ consumed_content + some <= content
      /\ copied > 0 => At + copied <= data_len
      /\ some - copied > 0 => At + copied >= data_len
  BY <1>1 DEF Least
<1>3. /\ purpose' = why /\ read' = Run(At, copied) /\ left' = some - copied
      /\ consumed_content' = consumed_content + copied /\ content_len' = content
      /\ pc' = "pull_all"
  BY DEF mg_read_inner, At
<1> HIDE DEF some, buffered, copied
<1>4. Len(read') = copied /\ copied \in Nat /\ At \in Int
  <2>1. copied \in Nat /\ At \in Int
    BY <1>1, <1>2
  <2>2. Len(Run(At, copied)) = copied
    BY <2>1, RunFacts
  <2>3. QED
    BY <1>3, <2>1, <2>2
<1>5. read' \in Seq(Position)
  <2>1. \A i \in 1..copied : At + i \in 1..Total(request)
    BY <1>1, <1>2
  <2>2. QED
    BY <1>2, <1>3, <2>1 DEF Run, Position
<1>6. At' = At + copied
  BY <1>1, <1>2, <1>3 DEF At
<1>7. InSync'
  <2>1. Total(request)' = Total(request) /\ request' = request /\ received' = received
    BY SamePositions DEF socket
  <2>2. At + copied <= Total(request)
    BY <1>1, <1>2 DEF InSync
  <2>3. ~stop_flag => received = IF At + copied > data_len THEN At + copied ELSE data_len
    BY <1>1, <1>2 DEF InSync
  <2>4. QED
    BY <1>1, <1>2, <1>3, <1>6, <2>1, <2>2, <2>3 DEF InSync
<1>8. read' = Run(At, Len(read'))
  BY <1>3, <1>4
<1>9. /\ consumed_content' \in Nat /\ left' \in Nat
      /\ consumed_content' = consumed_content + Len(read')
      /\ Len(read') + left' = Least(want, content - consumed_content)
      /\ left' > 0 => At' >= data_len
  <2>1. some \in Nat /\ copied \in Nat /\ copied <= some
    BY <1>2
  <2>2. consumed_content' \in Nat /\ consumed_content' = consumed_content + Len(read')
    BY <1>1, <1>3, <1>4, <2>1
  <2>3. left' \in Nat /\ Len(read') + left' = some
    BY <1>3, <1>4, <2>1
  <2>4. left' > 0 => At' >= data_len
    BY <1>2, <1>3, <1>6
  <2>5. QED
    BY <1>2, <2>2, <2>3, <2>4
<1>10. QED
  BY <1>3, <1>5, <1>7, <1>8, <1>9

-----------------------------------------------------------------------------
(* The worker, in the body *)

LEMMA Bounds ==
    ASSUME TypeOK, InSync
    PROVE  /\ request_len \in Nat /\ consumed_content \in Nat /\ data_len \in Nat
           /\ content_len \in Nat /\ received \in Nat /\ request.head \in Nat
           /\ At = request.head + consumed_content /\ At \in Nat
           /\ Total(request) \in Nat /\ At <= Total(request)
           /\ received <= arrived /\ arrived <= Total(request) /\ arrived \in Nat
<1>1. Total(request) \in Nat /\ request.head \in Nat \ {0} /\ BufSize \in Nat
  BY RequestFacts, BufSizeAssumption
<1>2. QED
  BY <1>1 DEF TypeOK, InSync, At

(* What lies at the place of copying never is beyond the message's end. *)
LEMMA AtEnd ==
    ASSUME TypeOK, InSync, is_chunked = 0 <=> ~request.chunked,
           is_chunked = 0 => content_len = request.length
    PROVE  At \in request.head..End(request)
BY Bounds, RequestFacts, SMTT(30) DEF End, Least, InSync

(* mg_read returns to the handler, which has nothing yet, or to the         *)
(* discarding, which reads again or is done.                                *)
LEMMA Returns ==
    ASSUME IInv, ReadingBody, NEW copied \in Seq(Position), MgReadReturns(copied),
           UNCHANGED <<socket, server, must_close, status, checked, cut>>,
           MessageOK', purpose' \in Purposes, left' \in Nat, read' \in Seq(Position),
           InSync', is_chunked' = 0 <=> ~request.chunked,
           is_chunked' = 0 => content_len' = request.length,
           is_chunked' = 1 => InChunk',
           reader = "handler" => \E p \in request.head..End(request) : Lists(copied, p)
    PROVE  IInv'
<1> USE DEF MgReadReturns, CallMgRead, server
<1>1. SocketOK /\ FlagsOK /\ MessageOK /\ CallOK /\ AnswerOK /\ CopiesOK /\ TypeOK
  BY TypeParts DEF IInv
<1>2. TypeOK'
  <2>1. SocketOK'
    BY <1>1, SocketStays
  <2>2. FlagsOK'
    BY <1>1 DEF FlagsOK
  <2>3. CallOK' /\ AnswerOK'
    BY <1>1, DiscardBufAssumption DEF CallOK, AnswerOK, Pcs
  <2>4. CopiesOK'
    <3>1. Position' = Position
      BY SamePositions DEF socket
    <3>2. all_read' \in {all_read, <<>>} /\ taken' \in {taken, copied}
      OBVIOUS
    <3>3. all_read' \in Seq(Position) /\ taken' \in Seq(Position)
      <4>1. <<>> \in Seq(Position)
        OBVIOUS
      <4>2. QED
        BY Zenon, <1>1, <3>2, <4>1 DEF CopiesOK
    <3>4. QED
      BY <3>1, <3>3 DEF CopiesOK
  <2>5. QED
    BY <2>1, <2>2, <2>3, <2>4, TypeParts
<1>3. request' = request
  BY DEF socket
<1>4. \/ reader = "handler" /\ pc' = "answer" /\ taken' = copied
      \/ reader = "discard" /\ pc' = "mg_read" /\ taken' = taken /\ reader' = "discard"
      \/ reader = "discard" /\ pc' = "close" /\ taken' = taken
  OBVIOUS
<1>5. TakenInOrder'
  <2>1. CASE taken' = taken
    BY <1>3, <2>1, TakenStays DEF IInv
  <2>2. CASE reader = "handler" /\ taken' = copied
    <3>1. PICK p \in request.head..End(request) : Lists(copied, p)
      BY <2>2
    <3>2. Lists(taken, p)'
      BY <1>3, <2>2, <3>1 DEF Lists, IsData, UnitAt
    <3>3. End(request)' = End(request)
      BY <1>3 DEF End
    <3>4. QED
      BY <1>3, <3>2, <3>3 DEF TakenInOrder
  <2>3. QED
    BY <1>4, <2>1, <2>2
<1>6. HeadInv' /\ HandlerInv' /\ ReadInv'
  BY <1>4 DEF HeadInv, HandlerInv, ReadInv, ReadingHead, Reading, Beginning, Pulling
<1>7. BodyInv'
  BY <1>3, <1>4 DEF BodyInv, ReadingBody, Reading, Pulling
<1>8. MgReadInv'
  BY <1>4 DEF MgReadInv
<1>9. AnswerInv'
  BY <1>3, <1>4 DEF AnswerInv
<1>10. QED
  BY <1>2, <1>5, <1>6, <1>7, <1>8, <1>9 DEF IInv

LEMMA PullAllStep ==
    ASSUME IInv, PullAll
    PROVE  IInv'
<1> USE DEF PullAll, PullMore, socket, server, message, call, outcome
<1>1. SocketOK /\ FlagsOK /\ MessageOK /\ CallOK /\ AnswerOK /\ CopiesOK
  BY TypeParts DEF IInv
<1>2. SocketOK' /\ FlagsOK' /\ MessageOK' /\ CallOK' /\ AnswerOK' /\ CopiesOK'
  <2>1. SocketOK' /\ CopiesOK'
    BY <1>1, SocketStays, CopiesStay
  <2>2. FlagsOK'
    BY <1>1 DEF FlagsOK
  <2>3. MessageOK' /\ CallOK' /\ AnswerOK'
    BY <1>1 DEF MessageOK, CallOK, AnswerOK, Pcs
  <2>4. QED
    BY <2>1, <2>2, <2>3
<1>3. HeadInv' /\ HandlerInv' /\ AnswerInv' /\ MgReadInv'
  BY DEF IInv, HeadInv, HandlerInv, AnswerInv, MgReadInv, ReadInv, Reading, ReadingHead,
         Beginning, Pulling
<1>4. InSync => InSync'
  BY DEF InSync, At, Total
<1>5. BodyInv'
  BY <1>4 DEF IInv, BodyInv, ReadingBody, Reading, Pulling
<1>6. InChunk => InChunk'
  BY DEF InChunk, At, Total, Position, IsData, UnitAt
<1>7. ReadInv'
  <2>1. \A t, p : Lists(t, p) => Lists(t, p)'
    BY DEF Lists, IsData, UnitAt
  <2>2. UNCHANGED <<purpose, left, read, is_chunked, reader, len, all_read, content_len,
                    consumed_content, request_len, data_len, request>>
    OBVIOUS
  <2>3. Reading /\ (Pulling' => left > 0)
    BY DEF Reading, Pulling
  <2>4. QED
    BY <1>6, <2>1, <2>2, <2>3 DEF IInv, ReadInv, At, Run
<1>8. TakenInOrder'
  BY TakenStays DEF IInv
<1>9. QED
  BY <1>2, <1>3, <1>5, <1>7, <1>8, TypeParts DEF IInv

LEMMA RecvFailsStep ==
    ASSUME IInv, RecvFails
    PROVE  IInv'
<1> USE DEF RecvFails, PullFails, server, outcome, call
<1>1. SocketOK /\ FlagsOK /\ MessageOK /\ CallOK /\ AnswerOK /\ CopiesOK /\ TypeOK
  BY TypeParts DEF IInv
<1>2. /\ Total(request) \in Nat /\ Total(request)' = Total(request) /\ left \in Nat
      /\ received' \in Nat /\ received <= received' /\ received' <= arrived
      /\ stop_flag \/ received' = received
  BY <1>1, RequestFacts, SamePositions DEF SocketOK, CallOK, Least
<1>3. TypeOK'
  <2>1. SocketOK'
    BY <1>1, <1>2 DEF SocketOK
  <2>2. CopiesOK'
    BY <1>1, CopiesStay
  <2>3. FlagsOK'
    BY <1>1 DEF FlagsOK
  <2>4. MessageOK' /\ CallOK' /\ AnswerOK'
    BY <1>1 DEF MessageOK, CallOK, AnswerOK, Pcs
  <2>5. QED
    BY <2>1, <2>2, <2>3, <2>4, TypeParts
<1>4. CASE pc' = "get_message"
  BY <1>3, <1>4, Closing
<1>5. CASE pc' # "get_message"
  <2>1. Reading /\ pc' = "mg_read_inner"
    BY <1>5 DEF Reading, Pulling
  <2>2. HeadInv' /\ HandlerInv' /\ AnswerInv' /\ MgReadInv'
    BY <2>1 DEF HeadInv, HandlerInv, AnswerInv, MgReadInv, ReadingHead, Beginning, Pulling
  <2>3. InSync /\ UNCHANGED <<request_len, consumed_content, data_len, content_len, stop_flag,
                              request, is_chunked, reader, taken>>
    BY <1>5, <2>1 DEF IInv, BodyInv, ReadingBody
  <2>4. InSync'
    BY <1>1, <1>2, <2>3, Bounds DEF InSync, At
  <2>5. BodyInv'
    BY <2>1, <2>3, <2>4 DEF IInv, BodyInv, ReadingBody
  <2>6. InChunk => InChunk'
    BY <2>3 DEF InChunk, At, Total, Position, IsData, UnitAt
  <2>7. ReadInv'
    <3>1. \A t, p : Lists(t, p) => Lists(t, p)'
      BY DEF Lists, IsData, UnitAt
    <3>2. UNCHANGED <<purpose, left, read, len, all_read>>
      BY <1>5
    <3>3. ~Pulling'
      BY <2>1 DEF Pulling
    <3>4. QED
      BY <2>1, <2>3, <2>6, <3>1, <3>2, <3>3 DEF IInv, ReadInv, At, Run
  <2>8. TakenInOrder'
    BY TakenStays DEF IInv
  <2>9. QED
    BY <1>3, <2>2, <2>5, <2>7, <2>8 DEF IInv
<1>6. QED
  BY <1>4, <1>5

(* What holds whenever mg_read_inner begins. *)
LEMMA InnerBegins ==
    ASSUME IInv, ReadingBody, NEW want \in Nat, NEW why \in Purposes \ {"head"}, NEW content \in Nat,
           content_len <= content, mg_read_inner(want, why, content),
           UNCHANGED <<socket, server, request_len, data_len, must_close, reader, taken, status,
                       checked, cut>>,
           len' \in Nat, all_read' \in Seq(Position), is_chunked' \in 0..4,
           is_chunked' = 0 <=> ~request.chunked, is_chunked' = 0 => content = request.length
    PROVE  /\ TypeOK' /\ HeadInv' /\ HandlerInv' /\ BodyInv' /\ MgReadInv' /\ AnswerInv'
           /\ TakenInOrder'
           /\ pc' = "pull_all" /\ purpose' = why /\ content_len' = content
           /\ Len(read') \in Nat /\ left' \in Nat /\ read' \in Seq(Position)
           /\ Len(read') + left' = Least(want, content - consumed_content)
           /\ read' = Run(At, Len(read')) /\ At' = At + Len(read')
           /\ Len(read') <= consumed_content'
           /\ consumed_content' = consumed_content + Len(read')
           /\ read' = Run(At' - Len(read'), Len(read'))
           /\ consumed_content' + left' <= content_len'
           /\ left' > 0 => At' >= data_len'
<1> USE DEF server
<1>1. SocketOK /\ FlagsOK /\ MessageOK /\ CallOK /\ AnswerOK /\ CopiesOK /\ TypeOK
  BY TypeParts DEF IInv
<1>2. InSync
  BY DEF IInv, BodyInv
<1>3. consumed_content <= content
  BY <1>1, <1>2, Bounds DEF InSync
<1>4. /\ InSync' /\ consumed_content' \in Nat /\ content_len' = content
      /\ read' \in Seq(Position) /\ left' \in Nat /\ pc' = "pull_all" /\ purpose' = why
      /\ consumed_content' = consumed_content + Len(read')
      /\ read' = Run(At, Len(read'))
      /\ Len(read') + left' = Least(want, content - consumed_content)
      /\ left' > 0 => At' >= data_len
  BY <1>1, <1>2, <1>3, InnerReads
<1>5. Len(read') \in Nat /\ At' = At + Len(read') /\ At \in Nat
  <2>1. Len(read') \in Nat
    BY <1>4
  <2>2. At \in Nat /\ request_len \in Nat /\ consumed_content \in Nat
    BY <1>1, <1>2, Bounds
  <2>3. QED
    BY <1>4, <2>1, <2>2 DEF At
<1>6. /\ read' = Run(At' - Len(read'), Len(read')) /\ Len(read') <= consumed_content'
      /\ consumed_content' + left' <= content_len'
  <2>1. At' - Len(read') = At
    BY <1>5
  <2>2. consumed_content \in Nat
    BY <1>1, <1>2, Bounds
  <2>3. QED
    BY <1>3, <1>4, <1>5, <2>1, <2>2, SMTT(30) DEF Least
<1>7. TypeOK'
  <2>1. SocketOK'
    BY <1>1, SocketStays
  <2>2. FlagsOK'
    BY <1>1 DEF FlagsOK
  <2>3. MessageOK' /\ CallOK' /\ AnswerOK'
    BY <1>1, <1>4 DEF MessageOK, CallOK, AnswerOK, Pcs
  <2>4. CopiesOK'
    <3>1. Position' = Position
      BY SamePositions DEF socket
    <3>2. QED
      BY <1>1, <1>4, <3>1 DEF CopiesOK
  <2>5. QED
    BY <2>1, <2>2, <2>3, <2>4, TypeParts
<1>8. HeadInv' /\ HandlerInv' /\ MgReadInv' /\ AnswerInv'
  BY <1>4 DEF HeadInv, HandlerInv, MgReadInv, AnswerInv, ReadingHead, Beginning, Pulling
<1>9. BodyInv'
  BY <1>4 DEF IInv, BodyInv, socket
<1>10. TakenInOrder'
  BY TakenStays DEF IInv, socket
<1>11. QED
  BY <1>4, <1>5, <1>6, <1>7, <1>8, <1>9, <1>10

LEMMA MgReadStep ==
    ASSUME IInv, MgRead
    PROVE  IInv'
<1>1. /\ TypeOK /\ InSync /\ ReadingBody /\ MgReadInv /\ request' = request /\ data_len' = data_len
      /\ request_len' = request_len /\ is_chunked' = is_chunked
      /\ UNCHANGED <<socket, server, must_close, status, checked, cut>>
      /\ (is_chunked = 0 <=> ~request.chunked) /\ (is_chunked = 0 => content_len = request.length)
      /\ pc = "mg_read"
  BY DEF IInv, BodyInv, ReadingBody, MgRead, socket
<1>2. /\ At \in Nat /\ At = request.head + consumed_content /\ consumed_content <= content_len
      /\ content_len \in Nat /\ consumed_content \in Nat /\ request.head \in Nat
      /\ request_len = request.head /\ Total(request) \in Nat
      /\ len \in Nat
  BY <1>1, Bounds DEF InSync, TypeOK
<1>2a. all_read \in Seq(Position) /\ is_chunked' \in 0..4
  BY <1>1 DEF TypeOK
<1>3. CASE is_chunked = 0
  <2>1. mg_read_inner(len, "plain", content_len) /\ UNCHANGED <<reader, len, all_read, taken>>
    BY <1>3 DEF MgRead
  <2>2. /\ TypeOK' /\ HeadInv' /\ HandlerInv' /\ BodyInv' /\ MgReadInv' /\ AnswerInv'
        /\ TakenInOrder'
        /\ pc' = "pull_all" /\ purpose' = "plain" /\ content_len' = content_len
        /\ Len(read') \in Nat /\ left' \in Nat /\ read' \in Seq(Position)
        /\ read' = Run(At, Len(read')) /\ At' = At + Len(read')
        /\ Len(read') <= consumed_content'
        /\ read' = Run(At' - Len(read'), Len(read'))
        /\ consumed_content' + left' <= content_len'
        /\ left' > 0 => At' >= data_len'
    BY <1>1, <1>2, <1>2a, <1>3, <2>1, InnerBegins DEF Purposes
  <2>2a. /\ Len(read') \in Nat /\ left' \in Nat /\ At' = At + Len(read')
    BY <2>2
  <2>3. reader = "handler" => Lists(read', At')
    <3>1. HAVE reader = "handler"
    <3>2. At = request.head
      BY <1>1, <1>2, <1>3, <3>1 DEF MgReadInv
    <3>3. \A q \in (At + 1)..(At + Len(read')) : IsData(q)
      <4>1. At + Len(read') <= Total(request)
        <5>1. Total(request)' = Total(request) /\ InSync'
          BY <1>1, <2>2, SamePositions DEF BodyInv, ReadingBody, Reading
        <5>2. QED
          BY <2>2, <5>1 DEF InSync
      <4>2. \A q \in (At + 1)..(At + Len(read')) : q \in (request.head + 1)..Total(request)
        BY <1>2, <2>2a, <3>2, <4>1, SMTT(30)
      <4>3. QED
        BY <1>1, <1>3, <4>2, PlainIsData
    <3>4. Lists(<<>> \o Run(At, Len(read')), At + Len(read'))
      <4>1. Lists(<<>>, At) /\ <<>> \in Seq(Position)
        BY <1>1, <3>2, ListsNothing
      <4>2. At \in Nat /\ Len(read') \in Nat /\ request.head <= At
        BY <1>2, <2>2, <3>2
      <4>3. QED
        BY <1>1, <3>3, <4>1, <4>2, ListsMore
    <3>5. <<>> \o Run(At, Len(read')) = Run(At, Len(read'))
      BY <1>2, <2>2, RunFacts, ConcatEmptySeq
    <3>6. QED
      BY <2>2, <3>4, <3>5
  <2>4. ReadInv'
    <3>1. reader' = "handler" => Lists(read, At)'
      BY <1>1, <2>1, <2>3 DEF Lists, IsData, UnitAt
    <3>2. QED
      BY <1>1, <1>3, <2>2, <3>1 DEF ReadInv, Pulling
  <2>5. QED
    BY <2>2, <2>4 DEF IInv
<1>4. CASE is_chunked = 1 /\ len > 0 /\ consumed_content # content_len
  <2>1. mg_read_inner(len, "data", content_len) /\ UNCHANGED <<reader, len, all_read, taken>>
    BY <1>4 DEF MgRead
  <2>2. /\ TypeOK' /\ HeadInv' /\ HandlerInv' /\ BodyInv' /\ MgReadInv' /\ AnswerInv'
        /\ TakenInOrder'
        /\ pc' = "pull_all" /\ purpose' = "data" /\ content_len' = content_len
        /\ Len(read') \in Nat /\ left' \in Nat /\ read' \in Seq(Position)
        /\ Len(read') + left' = Least(len, content_len - consumed_content)
        /\ read' = Run(At, Len(read')) /\ At' = At + Len(read')
        /\ Len(read') <= consumed_content'
        /\ consumed_content' = consumed_content + Len(read')
        /\ read' = Run(At' - Len(read'), Len(read'))
        /\ consumed_content' + left' <= content_len'
        /\ left' > 0 => At' >= data_len'
    BY <1>1, <1>2, <1>2a, <1>4, <2>1, InnerBegins DEF Purposes
  <2>2a. /\ Len(read') \in Nat /\ left' \in Nat /\ At' = At + Len(read')
    BY <2>2
  <2>2b. Len(read') + left' = Least(len, content_len - consumed_content)
    BY <2>2
  <2>3. /\ Len(read') + left' <= len
        /\ At + Len(read') <= request_len + content_len
        /\ At + Len(read') <= Total(request)
    <3>1. Total(request)' = Total(request) /\ InSync'
      BY <1>1, <2>2, SamePositions DEF BodyInv, ReadingBody, Reading
    <3>2. At + Len(read') <= Total(request)
      BY <2>2, <3>1 DEF InSync
    <3>3. Len(read') + left' <= len /\ Len(read') + left' <= content_len - consumed_content
      BY <1>2, <2>2a, <2>2b, SMTT(30) DEF Least
    <3>4. At + Len(read') <= request_len + content_len
      <4>1. consumed_content + Len(read') <= content_len
        BY <1>2, <2>2a, <3>3
      <4>2. At = request_len + consumed_content
        BY <1>2
      <4>3. request_len \in Nat /\ consumed_content \in Nat /\ content_len \in Nat /\ Len(read') \in Nat
        BY <1>2, <2>2a
      <4>4. QED
        BY <4>1, <4>2, <4>3
    <3>5. QED
      BY <3>2, <3>3, <3>4
  <2>4. InChunk
    BY <1>1, <1>4 DEF MgReadInv
  <2>5. reader = "handler" => Lists(all_read \o read', At')
    <3>1. HAVE reader = "handler"
    <3>2. Lists(all_read, At)
      BY <1>1, <1>4, <3>1 DEF MgReadInv
    <3>3. \A q \in (At + 1)..(At + Len(read')) : IsData(q)
      <4>1. \A q \in (At + 1)..(At + Len(read')) :
              q \in (At + 1)..(request_len + content_len) /\ q \in 1..Total(request)
        <5>1. At \in Nat /\ Len(read') \in Nat /\ request_len + content_len \in Nat
              /\ Total(request) \in Nat
          BY <1>2, <2>2a, SMTT(30)
        <5>2. QED
          BY <2>3, <5>1
      <4>2. QED
        BY <2>4, <4>1 DEF InChunk, Position
    <3>4. At \in Nat /\ Len(read') \in Nat /\ request.head <= At
      BY <1>2, <2>2a
    <3>5. Lists(all_read \o Run(At, Len(read')), At + Len(read'))
      BY <1>1, <1>2a, <3>2, <3>3, <3>4, ListsMore
    <3>6. QED
      BY <2>2, <3>5
  <2>6. ReadInv'
    <3>1. reader' = "handler" => Lists(all_read \o read, At)'
      BY <1>1, <2>1, <2>5 DEF Lists, IsData, UnitAt
    <3>2. InChunk'
      <4>1. Position' = Position /\ \A q : IsData(q)' <=> IsData(q)
        BY <1>1, SamePositions DEF IsData, UnitAt
      <4>2. \A q \in (At' + 1)..(request_len + content_len) : q \in (At + 1)..(request_len + content_len)
        <5>1. request_len + content_len \in Int
          BY <1>2
        <5>2. QED
          BY <1>2, <2>2a, <5>1, Beyond
      <4>3. QED
        BY <1>1, <2>2, <2>4, <4>1, <4>2 DEF InChunk
    <3>3. QED
      BY <1>1, <1>4, <2>1, <2>2, <2>3, <3>1, <3>2 DEF ReadInv, Pulling
  <2>7. QED
    BY <2>2, <2>6 DEF IInv
<1>5. CASE is_chunked = 1 /\ len > 0 /\ consumed_content = content_len
  <2>1. mg_read_inner(1, "size", content_len + 1) /\ UNCHANGED <<reader, len, all_read, taken>>
    BY <1>5 DEF MgRead
  <2>2. /\ TypeOK' /\ HeadInv' /\ HandlerInv' /\ BodyInv' /\ MgReadInv' /\ AnswerInv'
        /\ TakenInOrder'
        /\ pc' = "pull_all" /\ purpose' = "size" /\ content_len' = content_len + 1
        /\ Len(read') \in Nat /\ left' \in Nat /\ read' \in Seq(Position)
        /\ Len(read') + left' = Least(1, (content_len + 1) - consumed_content)
        /\ At' = At + Len(read')
        /\ Len(read') <= consumed_content'
        /\ consumed_content' = consumed_content + Len(read')
        /\ read' = Run(At' - Len(read'), Len(read'))
        /\ consumed_content' + left' <= content_len'
        /\ left' > 0 => At' >= data_len'
    <3>1. content_len <= content_len + 1 /\ content_len + 1 \in Nat /\ 1 \in Nat
          /\ "size" \in Purposes \ {"head"} /\ is_chunked # 0
      BY <1>2, <1>5 DEF Purposes
    <3>2. len' \in Nat /\ all_read' \in Seq(Position)
      BY <1>2, <1>2a, <2>1
    <3>3. /\ is_chunked' \in 0..4 /\ (is_chunked' = 0 <=> ~request.chunked) /\ is_chunked' # 0
          /\ UNCHANGED <<reader, taken>>
      BY <1>1, <1>2a, <2>1, <3>1
    <3>4. QED
      BY <1>1, <2>1, <3>1, <3>2, <3>3, InnerBegins
  <2>3. ReadInv'
    <3>1. reader = "handler" => Lists(all_read, At)
      BY <1>1, <1>5 DEF MgReadInv
    <3>2. At' - Len(read') = At /\ all_read' = all_read
      <4>1. Len(read') \in Nat /\ At' = At + Len(read')
        BY <2>2
      <4>2. QED
        BY <1>2, <2>1, <4>1
    <3>3. reader' = "handler" => Lists(all_read, At - Len(read))'
      BY <1>1, <2>1, <3>1, <3>2 DEF Lists, IsData, UnitAt
    <3>4. consumed_content' + 1 = content_len' + Len(read')
      BY <1>2, <1>5, <2>2
    <3>5. QED
      BY <1>1, <1>5, <2>2, <3>3, <3>4 DEF ReadInv, Pulling
  <2>4. QED
    BY <2>2, <2>3 DEF IInv
<1>6. CASE is_chunked # 0 /\ (len = 0 \/ is_chunked # 1)
  <2> DEFINE copied == IF len = 0 THEN all_read ELSE <<>>
  <2>1. MgReadReturns(copied) /\ UNCHANGED <<purpose, left, read, content_len, consumed_content>>
    BY <1>6 DEF MgRead
  <2>2. InSync' /\ (InChunk => InChunk')
    BY <1>1, <2>1 DEF InSync, InChunk, At, Position, Total, IsData, UnitAt, socket, server
  <2>3. MessageOK'
    BY <1>1, <2>1, TypeParts DEF MessageOK
  <2>4. copied \in Seq(Position) /\ purpose' \in Purposes /\ left' \in Nat /\ read' \in Seq(Position)
    BY <1>1, <2>1 DEF TypeOK
  <2>5. reader = "handler" => \E p \in request.head..End(request) : Lists(copied, p)
    <3>1. HAVE reader = "handler"
    <3>2. is_chunked = 1 /\ len = 0 /\ Lists(copied, At)
      BY <1>1, <1>6, <3>1 DEF MgReadInv
    <3>3. QED
      BY <1>1, <3>2, AtEnd
  <2>6. is_chunked = 1 => InChunk
    BY <1>1 DEF MgReadInv
  <2> HIDE DEF copied
  <2>7. QED
    BY <1>1, <2>1, <2>2, <2>3, <2>4, <2>5, <2>6, Returns
<1>7. QED
  BY <1>3, <1>4, <1>5, <1>6 DEF MgRead

(* What holds when mg_read_inner has returned, or is pulling. *)
LEMMA ReadFacts ==
    ASSUME IInv, Reading
    PROVE  /\ TypeOK /\ InSync /\ ReadingBody
           /\ request.head \in Nat /\ request_len = request.head /\ Total(request) \in Nat
           /\ consumed_content \in Nat /\ content_len \in Nat /\ data_len \in Nat
           /\ At = request.head + consumed_content /\ At \in Nat /\ At <= Total(request)
           /\ len \in Nat /\ left \in Nat /\ Len(read) \in Nat
           /\ consumed_content <= content_len
           /\ (is_chunked = 0 <=> ~request.chunked) /\ (is_chunked = 0 => content_len = request.length)
<1>1. TypeOK /\ InSync /\ ReadingBody
  BY DEF IInv, BodyInv, ReadingBody
<1>2. len \in Nat /\ left \in Nat /\ read \in Seq(Position)
  BY <1>1 DEF TypeOK
<1>3. QED
  BY <1>1, <1>2, Bounds DEF InSync, IInv, BodyInv

LEMMA Unread ==
    ASSUME UNCHANGED <<request, request_len, data_len, content_len, consumed_content, received, stop_flag>>
    PROVE  (InSync => InSync') /\ (InChunk => InChunk')
BY DEF InSync, InChunk, At, Total, Position, IsData, UnitAt

LEMMA PlainReadStep ==
    ASSUME IInv, PlainRead
    PROVE  IInv'
<1> USE DEF PlainRead, message
<1>1. Reading /\ purpose = "plain" /\ UNCHANGED <<socket, server>>
  BY DEF Reading
<1>2. TypeOK /\ InSync /\ ReadingBody /\ is_chunked = 0
      /\ (is_chunked = 0 <=> ~request.chunked) /\ (is_chunked = 0 => content_len = request.length)
  BY <1>1, ReadFacts DEF IInv, ReadInv
<1>3. InSync'
  BY <1>2, Unread DEF socket, server
<1>4. MessageOK' /\ purpose' \in Purposes /\ left' \in Nat /\ read' \in Seq(Position)
      /\ read \in Seq(Position)
  BY <1>2 DEF TypeOK, MessageOK
<1>5. reader = "handler" => \E p \in request.head..End(request) : Lists(read, p)
  BY <1>1, <1>2, AtEnd DEF IInv, ReadInv
<1>6. QED
  BY <1>2, <1>3, <1>4, <1>5, Returns

LEMMA ChunkBrokenStep ==
    ASSUME IInv, ChunkBroken
    PROVE  IInv'
<1> USE DEF ChunkBroken
<1>1. Reading /\ purpose # "plain"
  BY DEF Reading
<1>2. TypeOK /\ InSync /\ ReadingBody /\ request.chunked
  BY <1>1, ReadFacts, RequestFacts DEF IInv, ReadInv
<1>3. InSync'
  BY <1>2, Unread DEF socket, server
<1>4. MessageOK' /\ purpose' \in Purposes /\ left' \in Nat /\ read' \in Seq(Position)
      /\ <<>> \in Seq(Position)
  BY <1>2 DEF TypeOK, MessageOK
<1>5. \E p \in request.head..End(request) : Lists(<<>>, p)
  <2>1. request.head \in request.head..End(request)
    BY <1>2, RequestFacts DEF End, Least
  <2>2. QED
    BY <1>2, <2>1, ListsNothing
<1>6. /\ MgReadReturns(<<>>) /\ UNCHANGED <<socket, server, must_close, status, checked, cut>>
      /\ (is_chunked' = 0 <=> ~request.chunked) /\ is_chunked' # 0 /\ is_chunked' # 1
  BY <1>2
<1>7. <<>> \in Seq(Position)
  OBVIOUS
<1> HIDE DEF ChunkBroken
<1>8. QED
  BY <1>2, <1>3, <1>4, <1>5, <1>6, <1>7, Returns

(* A unit of framing was read: all data up to it is listed. *)
LEMMA FrameRead ==
    ASSUME IInv, Reading, purpose \in {"crlf", "size", "trailer"}, NEW kind, ReadOne(kind),
           kind # "data", reader = "handler"
    PROVE  Lists(all_read, At)
<1>1. /\ Len(read) = 1 /\ Lists(all_read, At - 1) /\ read = Run(At - 1, 1)
      /\ UnitAt(read[1]).kind = kind /\ TypeOK /\ At \in Nat /\ consumed_content >= 1
      /\ request.head \in Nat /\ At = request.head + consumed_content /\ consumed_content \in Nat
  BY ReadFacts DEF IInv, ReadInv, ReadOne
<1>2. At - 1 \in Nat
  BY <1>1
<1>3. read[1] = At
  <2>1. Run(At - 1, 1)[1] = (At - 1) + 1
    BY <1>2 DEF Run
  <2>2. QED
    BY <1>1, <2>1
<1>4. ~IsData((At - 1) + 1)
  BY <1>1, <1>3 DEF IsData
<1>5. Lists(all_read, (At - 1) + 1)
  BY <1>1, <1>2, <1>4, ListsPast, SMTT(30) DEF TypeOK
<1>6. QED
  BY <1>1, <1>5

LEMMA TrailerStep ==
    ASSUME IInv, Trailer
    PROVE  IInv'
<1> USE DEF Trailer
<1>1. Reading /\ purpose = "trailer"
  BY DEF Reading
<1>2. TypeOK /\ InSync /\ ReadingBody /\ request.chunked
      /\ (is_chunked = 0 <=> ~request.chunked) /\ (is_chunked = 0 => content_len = request.length)
  BY <1>1, ReadFacts, RequestFacts DEF IInv, ReadInv
<1>3. InSync'
  BY <1>2, Unread DEF socket, server
<1>4. MessageOK' /\ purpose' \in Purposes /\ left' \in Nat /\ read' \in Seq(Position)
      /\ all_read \in Seq(Position)
  BY <1>2 DEF TypeOK, MessageOK
<1>5. reader = "handler" => \E p \in request.head..End(request) : Lists(all_read, p)
  BY <1>1, <1>2, FrameRead, AtEnd
<1>6. QED
  BY <1>2, <1>3, <1>4, <1>5, Returns

(* Back to the head of the loop of mg_read. *)
LEMMA LoopStep ==
    ASSUME IInv, Reading, TypeOK', pc' = "mg_read", is_chunked = 1,
           UNCHANGED <<socket, server, request_len, data_len, consumed_content, is_chunked, reader, taken>>,
           content_len' >= consumed_content, InChunk',
           reader = "handler" => Lists(all_read', At)
    PROVE  IInv'
<1>1. InSync' /\ request' = request
  <2>1. InSync
    BY ReadFacts
  <2>2. QED
    BY <2>1, Bounds DEF InSync, At, socket, server, Total, IInv
<1>2. BodyInv' /\ HeadInv' /\ HandlerInv' /\ AnswerInv' /\ ReadInv'
  BY <1>1 DEF IInv, BodyInv, HeadInv, HandlerInv, AnswerInv, ReadInv, ReadingBody, Reading,
          ReadingHead, Beginning, Pulling
<1>3. reader' = "handler" => Lists(all_read, At)'
  BY <1>1 DEF Lists, IsData, UnitAt, At
<1>4. MgReadInv'
  BY <1>3 DEF MgReadInv
<1>5. TakenInOrder'
  BY <1>1, TakenStays DEF IInv
<1>6. QED
  BY <1>2, <1>4, <1>5 DEF IInv

LEMMA ChunkEndStep ==
    ASSUME IInv, ChunkEnd
    PROVE  IInv'
<1> USE DEF ChunkEnd, socket, server, message, call, outcome
<1>1. Reading /\ purpose = "crlf" /\ Len(read) = 1
  BY DEF Reading, ReadOne
<1>2. is_chunked = 1 /\ consumed_content = content_len /\ TypeOK
  BY <1>1, ReadFacts DEF IInv, ReadInv
<1>3. TypeOK'
  <2>1. SocketOK /\ FlagsOK /\ MessageOK /\ CallOK /\ AnswerOK /\ CopiesOK
    BY TypeParts DEF IInv
  <2>2. SocketOK' /\ CopiesOK'
    BY <2>1, SocketStays, CopiesStay
  <2>3. FlagsOK'
    BY <2>1 DEF FlagsOK
  <2>4. MessageOK' /\ CallOK' /\ AnswerOK'
    BY <2>1 DEF MessageOK, CallOK, AnswerOK, Pcs
  <2>5. QED
    BY <2>2, <2>3, <2>4, TypeParts
<1>4. InChunk'
  BY <1>1, <1>2, ReadFacts DEF InChunk, At
<1>5. reader = "handler" => Lists(all_read', At)
  BY <1>1, FrameRead
<1>6. content_len' >= consumed_content
  BY <1>1, <1>2, ReadFacts
<1>7. QED
  BY <1>1, <1>2, <1>3, <1>4, <1>5, <1>6, LoopStep

LEMMA ChunkSizeStep ==
    ASSUME IInv, ChunkSize
    PROVE  IInv'
<1>1. Reading /\ purpose = "size" /\ ReadOne("size") /\ Len(read) = 1
  BY DEF ChunkSize, Reading, ReadOne
<1>2. /\ is_chunked = 1 /\ consumed_content = content_len /\ TypeOK /\ InSync /\ ReadingBody
      /\ request.chunked /\ read = Run(At - 1, 1)
  BY <1>1, ReadFacts, RequestFacts DEF IInv, ReadInv
<1>3. /\ At \in Nat /\ At = request.head + consumed_content /\ request.head \in Nat
      /\ request_len = request.head /\ consumed_content \in Nat /\ content_len \in Nat
      /\ Total(request) = request.head + Len(request.body) /\ Len(request.body) \in Nat
      /\ At <= Total(request)
  BY <1>1, <1>2, ReadFacts, RequestFacts
<1>4. read[1] = At /\ At > request.head /\ UnitAt(At).kind = "size"
  <2>1. Run(At - 1, 1)[1] = (At - 1) + 1
    BY <1>3 DEF Run
  <2>2. QED
    BY <1>1, <1>2, <1>3, <2>1 DEF ReadOne
<1>5. reader = "handler" => Lists(all_read, At)
  BY <1>1, FrameRead
<1> DEFINE i == At - request.head
           size == UnitAt(At).size
<1>6. /\ i \in 1..Len(request.body) /\ i \in Nat /\ i = At - request.head
      /\ size = request.body[i].size /\ request.body[i].kind = "size"
      /\ size = UnitAt(read[1]).size
  <2>1. i \in 1..Len(request.body) /\ i \in Nat
    BY <1>3, <1>4
  <2>2. UnitAt(At) = request.body[i]
    BY DEF UnitAt
  <2>3. QED
    BY <1>4, <2>1, <2>2
<1>6a. size \in Nat
  <2>1. request.body[i] \in Unit
    BY <1>2, <1>6, RequestFacts
  <2>2. QED
    BY <1>6, <2>1 DEF Unit
<1> HIDE DEF i, size
<1>7. CASE size > 0
  <2>1. /\ content_len' = content_len + size /\ pc' = "mg_read"
        /\ UNCHANGED <<is_chunked, consumed_content, purpose, left, read, socket, server, data_len,
                       request_len, must_close, reader, len, all_read, outcome, cut>>
    BY <1>6, <1>6a, <1>7 DEF ChunkSize
  <2>2. TypeOK'
    <3>1. SocketOK /\ FlagsOK /\ MessageOK /\ CallOK /\ AnswerOK /\ CopiesOK
      BY TypeParts DEF IInv
    <3>2. SocketOK' /\ CopiesOK'
      BY <2>1, <3>1, SocketStays, CopiesStay DEF socket, outcome
    <3>3. FlagsOK'
      BY <2>1, <3>1 DEF FlagsOK, server, outcome
    <3>4. content_len' \in Nat
      BY <1>3, <1>6a, <2>1
    <3>5. MessageOK' /\ CallOK' /\ AnswerOK'
      BY <2>1, <3>1, <3>4 DEF MessageOK, CallOK, AnswerOK, Pcs, outcome
    <3>6. QED
      BY <3>2, <3>3, <3>5, TypeParts
  <2>3. InChunk'
    <3>1. /\ At' = At /\ request_len' = request_len /\ Position' = Position
          /\ \A q : IsData(q)' <=> IsData(q)
      BY <2>1, SamePositions DEF At, IsData, UnitAt, socket
    <3>2. ASSUME NEW q \in (At + 1)..(At + size), q \in Position PROVE IsData(q)
      <4>1. q - request.head \in 1..Len(request.body)
        <5>1. q \in Int /\ At < q /\ q <= Total(request)
          BY <1>3, <1>6a, <3>2 DEF Position
        <5>2. QED
          BY <1>3, <5>1
      <4>2. i < q - request.head /\ q - request.head <= i + size
        <5>1. i = At - request.head
          BY <1>6
        <5>2. q \in Int /\ At < q /\ q <= At + size
          BY <1>3, <1>6a, <3>2
        <5>3. At \in Nat /\ request.head \in Nat /\ size \in Nat
          BY <1>3, <1>6a
        <5>4. QED
          BY <5>1, <5>2, <5>3
      <4>3. request.body[q - request.head].kind = "data"
        BY <1>2, <1>6, <4>1, <4>2, RequestFacts DEF Framed
      <4>4. QED
        BY <4>3 DEF IsData, UnitAt
    <3>3. request_len + content_len' = At + size
      <4>1. content_len' = content_len + size /\ consumed_content = content_len
        BY <1>2, <2>1
      <4>2. QED
        BY <1>3, <1>6a, <4>1
    <3>4. QED
      BY <3>1, <3>2, <3>3 DEF InChunk
  <2>4. content_len' >= consumed_content
    <3>1. content_len' = content_len + size /\ consumed_content = content_len
      BY <1>2, <2>1
    <3>2. QED
      BY <1>3, <1>6a, <3>1
  <2>5. QED
    BY <1>1, <1>2, <1>5, <2>1, <2>2, <2>3, <2>4, LoopStep DEF outcome
<1>8. CASE size = 0
  <2>1. /\ is_chunked' = 3 /\ mg_read_inner(1, "trailer", content_len + 1)
        /\ UNCHANGED <<socket, server, data_len, request_len, must_close, reader, len, all_read,
                       outcome, cut>>
    BY <1>6, <1>8 DEF ChunkSize
  <2>2. /\ TypeOK' /\ HeadInv' /\ HandlerInv' /\ BodyInv' /\ MgReadInv' /\ AnswerInv'
        /\ TakenInOrder'
        /\ pc' = "pull_all" /\ purpose' = "trailer" /\ content_len' = content_len + 1
        /\ Len(read') \in Nat /\ left' \in Nat /\ read' \in Seq(Position)
        /\ At' = At + Len(read')
        /\ Len(read') <= consumed_content'
        /\ consumed_content' = consumed_content + Len(read')
        /\ read' = Run(At' - Len(read'), Len(read'))
        /\ consumed_content' + left' <= content_len'
        /\ left' > 0 => At' >= data_len'
    <3>1. content_len <= content_len + 1 /\ content_len + 1 \in Nat /\ 1 \in Nat
          /\ "trailer" \in Purposes \ {"head"}
      BY <1>3 DEF Purposes
    <3>2. /\ len' \in Nat /\ all_read' \in Seq(Position) /\ is_chunked' \in 0..4
          /\ (is_chunked' = 0 <=> ~request.chunked) /\ is_chunked' # 0
      BY <1>2, <2>1 DEF TypeOK
    <3>3. QED
      BY <1>2, <2>1, <3>1, <3>2, InnerBegins DEF outcome
  <2>3. ReadInv'
    <3>1. At' - Len(read') = At /\ consumed_content' + 1 = content_len' + Len(read')
      <4>1. /\ Len(read') \in Nat /\ At' = At + Len(read') /\ content_len' = content_len + 1
            /\ consumed_content' = consumed_content + Len(read') /\ consumed_content = content_len
        BY <1>2, <2>2
      <4>2. QED
        BY <1>3, <4>1
    <3>2. reader' = "handler" => Lists(all_read, At - Len(read))'
      BY <1>5, <2>1, <3>1 DEF Lists, IsData, UnitAt, socket
    <3>3. QED
      BY <2>1, <2>2, <3>1, <3>2 DEF ReadInv, Pulling
  <2>4. QED
    BY <2>2, <2>3 DEF IInv
<1>9. QED
  BY <1>6a, <1>7, <1>8

LEMMA ChunkDataStep ==
    ASSUME IInv, ChunkData
    PROVE  IInv'
<1>1. /\ Reading /\ purpose = "data" /\ read # <<>>
      /\ all_read' = all_read \o read /\ len' = len - Len(read)
      /\ UNCHANGED <<socket, server, data_len, request_len, is_chunked, must_close, reader, outcome, cut>>
  BY DEF ChunkData, Reading
<1>2. /\ TypeOK /\ InSync /\ ReadingBody /\ is_chunked = 1 /\ InChunk /\ request.chunked
      /\ Len(read) + left <= len /\ (reader = "handler" => Lists(all_read \o read, At))
  BY <1>1, ReadFacts, RequestFacts DEF IInv, ReadInv
<1>3. /\ request.head \in Nat /\ request_len = request.head /\ consumed_content \in Nat
      /\ content_len \in Nat /\ At = request.head + consumed_content /\ At \in Nat
      /\ len \in Nat /\ left \in Nat /\ Len(read) \in Nat /\ consumed_content <= content_len
  BY <1>1, ReadFacts
<1>4. len' \in Nat /\ all_read' \in Seq(Position)
  <2>1. len' \in Nat
    <3>1. len' = len - Len(read) /\ Len(read) + left <= len
      BY <1>1, <1>2
    <3>2. QED
      BY <1>3, <3>1
  <2>2. all_read \in Seq(Position) /\ read \in Seq(Position)
    BY <1>2 DEF TypeOK
  <2>3. all_read \o read \in Seq(Position)
    BY <2>2, ConcatProperties
  <2>4. QED
    BY <1>1, <2>1, <2>3
<1>5. CASE consumed_content = content_len
  <2>1. mg_read_inner(1, "crlf", content_len + 1)
    BY <1>5 DEF ChunkData
  <2>2. /\ TypeOK' /\ HeadInv' /\ HandlerInv' /\ BodyInv' /\ MgReadInv' /\ AnswerInv'
        /\ TakenInOrder'
        /\ pc' = "pull_all" /\ purpose' = "crlf" /\ content_len' = content_len + 1
        /\ Len(read') \in Nat /\ left' \in Nat /\ read' \in Seq(Position)
        /\ At' = At + Len(read')
        /\ Len(read') <= consumed_content'
        /\ consumed_content' = consumed_content + Len(read')
        /\ read' = Run(At' - Len(read'), Len(read'))
        /\ consumed_content' + left' <= content_len'
        /\ left' > 0 => At' >= data_len'
    <3>1. content_len <= content_len + 1 /\ content_len + 1 \in Nat /\ 1 \in Nat
          /\ "crlf" \in Purposes \ {"head"}
      BY <1>3 DEF Purposes
    <3>2. is_chunked' \in 0..4 /\ (is_chunked' = 0 <=> ~request.chunked) /\ is_chunked' # 0
      BY <1>1, <1>2
    <3>3. UNCHANGED <<taken, status, checked>>
      BY <1>1 DEF outcome
    <3>4. QED
      BY <1>1, <1>2, <1>4, <2>1, <3>1, <3>2, <3>3, InnerBegins
  <2>3. ReadInv'
    <3>1. At' - Len(read') = At /\ consumed_content' + 1 = content_len' + Len(read')
      <4>1. /\ Len(read') \in Nat /\ At' = At + Len(read') /\ content_len' = content_len + 1
            /\ consumed_content' = consumed_content + Len(read')
        BY <2>2
      <4>2. QED
        BY <1>3, <1>5, <4>1
    <3>2. reader' = "handler" => Lists(all_read, At - Len(read))'
      BY <1>1, <1>2, <3>1 DEF Lists, IsData, UnitAt, socket
    <3>3. is_chunked' = 1
      BY <1>1, <1>2
    <3>4. QED
      BY <2>2, <3>1, <3>2, <3>3 DEF ReadInv, Pulling
  <2>4. QED
    BY <2>2, <2>3 DEF IInv
<1>6. CASE consumed_content # content_len
  <2>1. pc' = "mg_read" /\ UNCHANGED <<purpose, left, read, content_len, consumed_content>>
    BY <1>6 DEF ChunkData
  <2>2. TypeOK'
    <3>1. SocketOK /\ FlagsOK /\ MessageOK /\ CallOK /\ AnswerOK /\ CopiesOK
      BY TypeParts DEF IInv
    <3>2. SocketOK'
      BY <1>1, <3>1, SocketStays
    <3>3. FlagsOK'
      BY <1>1, <3>1 DEF FlagsOK, server, outcome
    <3>4. MessageOK' /\ CallOK' /\ AnswerOK'
      BY <1>1, <1>4, <2>1, <3>1 DEF MessageOK, CallOK, AnswerOK, Pcs, outcome
    <3>5. CopiesOK'
      <4>1. Position' = Position
        BY <1>1, SamePositions DEF socket
      <4>2. QED
        BY <1>1, <1>4, <2>1, <3>1, <4>1 DEF CopiesOK, outcome
    <3>6. QED
      BY <3>2, <3>3, <3>4, <3>5, TypeParts
  <2>3. InChunk'
    BY <1>1, <1>2, <2>1, Unread DEF socket, server
  <2>4. content_len' >= consumed_content
    BY <1>3, <2>1
  <2>5. reader = "handler" => Lists(all_read', At)
    BY <1>1, <1>2
  <2>6. QED
    BY <1>1, <1>2, <2>1, <2>2, <2>3, <2>4, <2>5, LoopStep DEF outcome
<1>7. QED
  BY <1>5, <1>6

(* A piece of the body is appended to what was copied before. *)
LEMMA RecvBodyStep ==
    ASSUME IInv, RecvBody
    PROVE  IInv'
<1> DEFINE n == Least(left, arrived - received)
<1>1. /\ Pulling /\ Reading /\ purpose # "head" /\ pc' = "pull_all" /\ ~stop_flag
      /\ received' = received + n /\ read' = read \o Run(received, n)
      /\ left' = left - n /\ consumed_content' = consumed_content + n /\ received < arrived
      /\ UNCHANGED <<request, arrived, clientOpen, server, data_len, request_len, content_len,
                     is_chunked, must_close, reader, len, all_read, purpose, outcome, cut>>
  BY DEF RecvBody, Reading, Pulling
<1>2. /\ TypeOK /\ InSync /\ ReadInv /\ BodyInv /\ left > 0
  BY <1>1, ReadFacts DEF IInv, ReadInv
<1>3. /\ request.head \in Nat /\ request_len = request.head /\ consumed_content \in Nat
      /\ content_len \in Nat /\ At = request.head + consumed_content /\ At \in Nat
      /\ left \in Nat /\ Len(read) \in Nat /\ consumed_content <= content_len
      /\ data_len \in Nat /\ received \in Nat /\ arrived \in Nat /\ arrived <= Total(request)
      /\ Total(request) \in Nat /\ len \in Nat
  BY <1>1, <1>2, ReadFacts, Bounds
<1>4. n \in Nat /\ n > 0 /\ n <= left /\ received + n <= arrived
  BY <1>1, <1>2, <1>3 DEF Least
<1>5. received = At /\ At >= data_len
  BY <1>1, <1>2, <1>3 DEF InSync, ReadInv
<1> HIDE DEF n
<1>6. At' = At + n
  BY <1>1, <1>3, <1>4 DEF At
<1>6a. /\ At \in Nat /\ n \in Nat /\ Total(request) \in Nat /\ request.head \in Nat /\ request.head <= At
       /\ At + n <= Total(request)
  BY <1>3, <1>4, <1>5, SMTT(30)
<1>6b. \A q \in (At + 1)..(At + n) : q \in (request.head + 1)..Total(request) /\ q \in 1..Total(request)
  BY <1>6a
<1>7. /\ read = Run(At - Len(read), Len(read)) /\ Len(read) <= consumed_content
      /\ consumed_content + left <= content_len
  BY <1>1, <1>2 DEF ReadInv
<1>8. Run(At, n) \in Seq(Position) /\ Len(Run(At, n)) = n
  <2>1. \A i \in 1..n : At + i \in 1..Total(request)
    BY <1>6a
  <2>2. QED
    BY <1>4, <2>1 DEF Run, Position
<1>9. /\ read' = read \o Run(At, n) /\ read' \in Seq(Position) /\ Len(read') = Len(read) + n
  <2>1. read \in Seq(Position)
    BY <1>2 DEF TypeOK
  <2>2. QED
    BY <1>1, <1>5, <1>8, <2>1, ConcatProperties
<1>10. read' = Run(At' - Len(read'), Len(read'))
  <2>1. At - Len(read) \in Int /\ (At - Len(read)) + Len(read) = At /\ At' - Len(read') = At - Len(read)
    <3>1. Len(read) \in Nat /\ At' = At + n /\ Len(read') = Len(read) + n
      BY <1>3, <1>6, <1>9
    <3>2. QED
      BY <1>6a, <3>1
  <2>2. Run(At - Len(read), Len(read)) \o Run((At - Len(read)) + Len(read), n)
          = Run(At - Len(read), Len(read) + n)
    BY <1>3, <1>4, <2>1, RunsJoin, ZenonT(60)
  <2>3. read \o Run(At, n) = Run(At - Len(read), Len(read) + n)
    BY <1>7, <2>1, <2>2
  <2>4. QED
    BY <1>9, <2>1, <2>3
<1>11. TypeOK'
  <2>1. SocketOK /\ FlagsOK /\ MessageOK /\ CallOK /\ AnswerOK /\ CopiesOK
    BY TypeParts DEF IInv
  <2>2. SocketOK'
    <3>1. Total(request)' = Total(request)
      BY <1>1, SamePositions
    <3>2. received' \in 0..arrived
      BY <1>1, <1>3, <1>4
    <3>3. QED
      BY <1>1, <2>1, <3>1, <3>2 DEF SocketOK
  <2>3. FlagsOK'
    BY <1>1, <2>1 DEF FlagsOK, server, outcome
  <2>4. MessageOK' /\ CallOK' /\ AnswerOK'
    <3>1. consumed_content' \in Nat /\ left' \in Nat
      BY <1>1, <1>3, <1>4
    <3>2. QED
      BY <1>1, <2>1, <3>1 DEF MessageOK, CallOK, AnswerOK, Pcs, outcome
  <2>5. CopiesOK'
    <3>1. Position' = Position
      BY <1>1, SamePositions
    <3>2. QED
      BY <1>1, <1>9, <2>1, <3>1 DEF CopiesOK, outcome
  <2>6. QED
    BY <2>2, <2>3, <2>4, <2>5, TypeParts
<1>12. HeadInv' /\ HandlerInv' /\ MgReadInv' /\ AnswerInv'
  BY <1>1 DEF HeadInv, HandlerInv, MgReadInv, AnswerInv, ReadingHead, Beginning, Pulling
<1>13. consumed_content' + left' <= content_len /\ consumed_content' <= content_len
      /\ Len(read') <= consumed_content'
  BY <1>1, <1>3, <1>4, <1>7, <1>9
<1>14. InSync'
  <2>1. Total(request)' = Total(request) /\ At' <= Total(request)
    BY <1>1, <1>3, <1>4, <1>5, <1>6, SamePositions
  <2>2. data_len <= received' /\ At' > data_len /\ received' = At'
    BY <1>1, <1>3, <1>4, <1>5, <1>6, SMTT(30)
  <2>3. QED
    BY <1>1, <1>3, <1>13, <2>1, <2>2 DEF InSync
<1>15. BodyInv'
  BY <1>1, <1>2, <1>14 DEF BodyInv, ReadingBody, outcome
<1>16. TakenInOrder'
  BY <1>1, TakenStays DEF IInv, outcome
<1>17. \A t, p : Lists(t, p)' <=> Lists(t, p)
  BY <1>1 DEF Lists, IsData, UnitAt
<1>18. purpose = "plain" => (reader = "handler" => Lists(read', At'))
  <2>1. HAVE purpose = "plain"
  <2>2. HAVE reader = "handler"
  <2>3. Lists(read, At) /\ read \in Seq(Position) /\ ~request.chunked
    BY <1>1, <1>2, <2>1, <2>2, ReadFacts DEF ReadInv, TypeOK
  <2>4. \A q \in (At + 1)..(At + n) : IsData(q)
    <3>1. QED
      BY <1>2, <2>3, <1>6b, PlainIsData
  <2>5. request.head <= At
    BY <1>3
  <2>6. QED
    BY <1>2, <1>3, <1>4, <1>6, <1>9, <2>3, <2>4, <2>5, ListsMore
<1>19. purpose = "data" => /\ is_chunked = 1 /\ InChunk' /\ Len(read') + left' <= len
                           /\ reader = "handler" => Lists(all_read \o read', At')
  <2>1. HAVE purpose = "data"
  <2>2. is_chunked = 1 /\ InChunk /\ Len(read) + left <= len
        /\ (reader = "handler" => Lists(all_read \o read, At))
    BY <1>1, <1>2, <2>1 DEF ReadInv
  <2>3. Len(read') + left' <= len
    <3>1. left' = left - n /\ Len(read') = Len(read) + n /\ Len(read) + left <= len
      BY <1>1, <1>9, <2>2
    <3>2. QED
      BY <1>3, <1>4, <3>1
  <2>4. \A q : IsData(q)' <=> IsData(q)
    BY <1>1 DEF IsData, UnitAt
  <2>5. InChunk'
    <3>1. Position' = Position
      BY <1>1, SamePositions
    <3>2. \A q \in (At' + 1)..(request_len + content_len) : q \in (At + 1)..(request_len + content_len)
      <4>1. At' = At + n /\ request_len + content_len \in Int
        BY <1>3, <1>6
      <4>2. QED
        BY <1>6a, <4>1, Beyond
    <3>3. QED
      BY <1>1, <2>2, <2>4, <3>1, <3>2 DEF InChunk
  <2>6. ASSUME reader = "handler" PROVE Lists(all_read \o read', At')
    <3>1. all_read \in Seq(Position) /\ read \in Seq(Position)
      BY <1>2 DEF TypeOK
    <3>2. all_read \o read \in Seq(Position)
      BY <3>1, ConcatProperties
    <3>3. \A q \in (At + 1)..(At + n) : IsData(q)
      <4>1. At + n <= request_len + content_len
        BY <1>3, <1>4, <1>7, SMTT(30)
      <4>2. \A q \in (At + 1)..(At + n) : q \in (At + 1)..(request_len + content_len)
        <5>1. request_len + content_len \in Int
          BY <1>3
        <5>2. QED
          BY <1>6a, <4>1, <5>1, UpTo
      <4>3. QED
        BY <1>6b, <2>2, <4>2 DEF InChunk, Position
    <3>4. Lists(all_read \o read, At) /\ request.head <= At
      BY <1>3, <2>2, <2>6
    <3>5. Lists((all_read \o read) \o Run(At, n), At + n)
      BY <1>2, <1>3, <1>4, <3>2, <3>3, <3>4, ListsMore
    <3>6. (all_read \o read) \o Run(At, n) = all_read \o (read \o Run(At, n))
      BY <1>8, <3>1, ConcatAssociative, SMTT(30)
    <3>7. QED
      BY <1>6, <1>9, <3>5, <3>6
  <2>7. QED
    BY <2>2, <2>3, <2>5, <2>6
<1>20. purpose \in {"crlf", "size", "trailer"} =>
          /\ consumed_content' + 1 = content_len + Len(read')
          /\ is_chunked = IF purpose = "trailer" THEN 3 ELSE 1
          /\ reader = "handler" => Lists(all_read, At' - Len(read'))
  <2>1. HAVE purpose \in {"crlf", "size", "trailer"}
  <2>2. /\ consumed_content + 1 = content_len + Len(read)
        /\ is_chunked = IF purpose = "trailer" THEN 3 ELSE 1
        /\ reader = "handler" => Lists(all_read, At - Len(read))
    BY <1>1, <1>2, <2>1 DEF ReadInv
  <2>3. At' - Len(read') = At - Len(read)
    BY <1>3, <1>4, <1>6, <1>9
  <2>4. consumed_content' + 1 = content_len + Len(read')
    <3>1. /\ consumed_content' = consumed_content + n /\ Len(read') = Len(read) + n
          /\ consumed_content + 1 = content_len + Len(read)
      BY <1>1, <1>9, <2>2
    <3>2. QED
      BY <1>3, <1>4, <3>1
  <2>5. QED
    BY <2>2, <2>3, <2>4
<1>21. ReadInv'
  <2>1. ~Pulling' /\ (purpose = "plain" <=> is_chunked = 0)
    BY <1>1, <1>2 DEF Pulling, ReadInv
  <2>2. UNCHANGED <<purpose, reader, is_chunked, len, all_read, content_len, data_len>>
        /\ (left' > 0 => At' >= data_len)
    BY <1>1, <1>3, <1>4, <1>5, <1>6, SMTT(30)
  <2>3. QED
    BY <1>1, <1>10, <1>13, <1>17, <1>18, <1>19, <1>20, <2>1, <2>2 DEF ReadInv
<1>22. QED
  BY <1>11, <1>12, <1>15, <1>16, <1>21 DEF IInv

-----------------------------------------------------------------------------
(* The handler *)

(* mg_read begins, for the handler or for the discarding. *)
LEMMA CallStep ==
    ASSUME IInv, NEW who \in {"handler", "discard"}, NEW want \in Nat, CallMgRead(who, want),
           UNCHANGED <<socket, server, message, purpose, left, read, taken, cut>>,
           status' \in {NoAnswer, 200, 400, 403, 404, 405, 411, 505}, checked' \in BOOLEAN,
           InSync, is_chunked = 0 <=> ~request.chunked, is_chunked = 0 => content_len = request.length,
           is_chunked = 1 => InChunk,
           who = "handler" => consumed_content = 0 /\ is_chunked \in {0, 1} /\ taken = <<>>
    PROVE  IInv'
<1> USE DEF CallMgRead
<1>1. SocketOK /\ FlagsOK /\ MessageOK /\ CallOK /\ AnswerOK /\ CopiesOK /\ TypeOK
  BY TypeParts DEF IInv
<1>2. TypeOK'
  <2>1. SocketOK' /\ FlagsOK'
    BY <1>1, SocketStays DEF FlagsOK, server, message
  <2>2. MessageOK' /\ CallOK' /\ AnswerOK'
    BY <1>1 DEF MessageOK, CallOK, AnswerOK, Pcs, message
  <2>3. CopiesOK'
    <3>1. Position' = Position
      BY SamePositions DEF socket
    <3>2. <<>> \in Seq(Position)
      OBVIOUS
    <3>3. QED
      BY <1>1, <3>1, <3>2 DEF CopiesOK
  <2>4. QED
    BY <2>1, <2>2, <2>3, TypeParts
<1>3. InSync' /\ (InChunk => InChunk') /\ request' = request
  BY Unread DEF socket, server, message
<1>4. HeadInv' /\ HandlerInv' /\ ReadInv' /\ AnswerInv'
  BY DEF HeadInv, HandlerInv, ReadInv, AnswerInv, ReadingHead, Reading, Beginning, Pulling
<1>5. BodyInv'
  BY <1>3 DEF BodyInv, ReadingBody, message
<1>6. MgReadInv'
  <2>1. who = "handler" => Lists(<<>>, At) /\ At' = At
    <3>1. HAVE who = "handler"
    <3>2. At = request.head
      BY <1>1, <3>1, Bounds
    <3>3. QED
      BY <1>1, <3>2, ListsNothing DEF At, message
  <2>2. who = "handler" => Lists(all_read, At)'
    BY <1>3, <2>1 DEF Lists, IsData, UnitAt
  <2>3. QED
    BY <1>3, <2>2 DEF MgReadInv, message
<1>7. TakenInOrder'
  BY <1>3, TakenStays DEF IInv
<1>8. QED
  BY <1>2, <1>4, <1>5, <1>6, <1>7 DEF IInv

LEMMA DiscardStep ==
    ASSUME IInv, discard_unread_request_data,
           UNCHANGED <<socket, server, message, purpose, left, read, taken, cut>>,
           status' \in {NoAnswer, 200, 400, 403, 404, 405, 411, 505}, checked' \in BOOLEAN,
           InSync, is_chunked = 0 <=> ~request.chunked, is_chunked = 0 => content_len = request.length,
           is_chunked = 1 => InChunk
    PROVE  IInv'
<1>1. CASE must_close
  <2>1. SocketOK /\ FlagsOK /\ MessageOK /\ CallOK /\ AnswerOK /\ CopiesOK
    BY TypeParts DEF IInv
  <2>2. pc' = "close" /\ UNCHANGED <<reader, len, all_read>>
    BY <1>1 DEF discard_unread_request_data
  <2>3. SocketOK' /\ FlagsOK'
    BY <2>1, SocketStays DEF FlagsOK, server, message
  <2>4. MessageOK' /\ CallOK' /\ AnswerOK'
    BY <2>1, <2>2 DEF MessageOK, CallOK, AnswerOK, Pcs, message
  <2>5. CopiesOK'
    BY <2>1, <2>2, CopiesStay DEF socket
  <2>6. QED
    BY <2>2, <2>3, <2>4, <2>5, TypeParts, Closing DEF socket
<1>2. CASE ~must_close
  <2>1. CallMgRead("discard", DiscardBuf)
    BY <1>2 DEF discard_unread_request_data
  <2>2. QED
    BY <2>1, CallStep, DiscardBufAssumption
<1>3. QED
  BY <1>1, <1>2

LEMMA HandlerStarts ==
    ASSUME IInv, pc = "request_handler"
    PROVE  /\ TypeOK /\ InSync /\ InChunk /\ taken = <<>> /\ consumed_content = 0
           /\ is_chunked \in {0, 1}
           /\ (is_chunked = 0 <=> ~request.chunked) /\ (is_chunked = 0 => content_len = request.length)
<1>1. /\ TypeOK /\ request_len = request.head /\ request_len <= data_len /\ data_len = received
      /\ consumed_content = 0 /\ taken = <<>>
      /\ is_chunked = IF request.chunked THEN 1 ELSE 0
      /\ content_len = IF request.chunked THEN 0 ELSE request.length
  BY DEF IInv, HeadInv, Beginning, HandlerInv
<1>2. /\ request.head \in Nat /\ data_len \in Nat /\ received <= Total(request) /\ received \in Nat
      /\ Total(request) \in Nat /\ request.length \in Nat /\ BufSize \in Nat
      /\ request.chunked \in BOOLEAN
  <2>1. /\ request.head \in Nat /\ Total(request) \in Nat /\ request.length \in Nat /\ BufSize \in Nat
        /\ request.chunked \in BOOLEAN
    BY <1>1, RequestFacts, BufSizeAssumption
  <2>2. arrived \in 0..Total(request) /\ received \in 0..arrived /\ data_len \in 0..BufSize
    BY <1>1 DEF TypeOK
  <2>3. QED
    BY <2>1, <2>2
<1>3. At = request.head
  BY <1>1, <1>2 DEF At
<1>4. content_len \in Nat /\ (request.chunked => content_len = 0)
  BY <1>1, <1>2
<1>5. InSync
  BY <1>1, <1>2, <1>3, <1>4 DEF InSync
<1>6. InChunk
  <2>1. CASE request.chunked
    <3>1. request_len + content_len = At
      BY <1>1, <1>2, <1>3, <1>4, <2>1
    <3>2. QED
      BY <1>2, <1>3, <3>1 DEF InChunk
  <2>2. CASE ~request.chunked
    <3>1. ASSUME NEW q \in (At + 1)..(request_len + content_len), q \in Position PROVE IsData(q)
      <4>1. q \in (request.head + 1)..Total(request)
        BY <1>2, <1>3, <3>1 DEF Position
      <4>2. QED
        BY <1>1, <2>2, <4>1, PlainIsData
    <3>2. QED
      BY <3>1 DEF InChunk
  <2>3. QED
    BY <2>1, <2>2
<1>7. QED
  BY <1>1, <1>2, <1>5, <1>6

LEMMA HandlerStep ==
    ASSUME IInv, request_handler
    PROVE  IInv'
<1>1. /\ pc = "request_handler" /\ UNCHANGED <<socket, server, message, purpose, left, read, taken, checked, cut>>
  BY DEF request_handler
<1>2. /\ TypeOK /\ InSync /\ InChunk /\ taken = <<>> /\ consumed_content = 0
      /\ is_chunked \in {0, 1}
      /\ (is_chunked = 0 <=> ~request.chunked) /\ (is_chunked = 0 => content_len = request.length)
  BY <1>1, HandlerStarts
<1>3. checked' \in BOOLEAN
  BY <1>1, <1>2 DEF TypeOK
<1>4. CASE ~request.trusted /\ status' = 403 /\ discard_unread_request_data
  BY <1>1, <1>2, <1>3, <1>4, DiscardStep
<1>5. CASE CallMgRead("handler", HandlerBuf) /\ UNCHANGED status
  <2>1. status' \in {NoAnswer, 200, 400, 403, 404, 405, 411, 505}
    BY <1>2, <1>5 DEF TypeOK
  <2>2. QED
    BY <1>1, <1>2, <1>3, <1>5, <2>1, CallStep, HandlerBufAssumption
<1>6. CASE pc' = "answer" /\ UNCHANGED <<status, reader, len, all_read>>
  <2>1. SocketOK /\ FlagsOK /\ MessageOK /\ CallOK /\ AnswerOK /\ CopiesOK
    BY TypeParts DEF IInv
  <2>2. SocketOK' /\ FlagsOK'
    BY <1>1, <1>3, <2>1, SocketStays DEF FlagsOK, server, message
  <2>3. MessageOK' /\ CallOK' /\ AnswerOK'
    BY <1>1, <1>6, <2>1 DEF MessageOK, CallOK, AnswerOK, Pcs, message
  <2>4. CopiesOK'
    BY <1>1, <1>6, <2>1, CopiesStay DEF socket
  <2>5. InSync' /\ InChunk' /\ request' = request
    BY <1>1, <1>2, Unread DEF socket, server, message
  <2>6. AnswerInv'
    BY <1>1, <1>2, <2>5 DEF AnswerInv, message
  <2>7. HeadInv' /\ HandlerInv' /\ ReadInv' /\ BodyInv' /\ MgReadInv'
    BY <1>6 DEF HeadInv, HandlerInv, ReadInv, BodyInv, MgReadInv, ReadingHead, ReadingBody,
                Reading, Beginning, Pulling
  <2>8. TakenInOrder'
    BY <1>1, <2>5, TakenStays DEF IInv
  <2>9. QED
    BY <2>2, <2>3, <2>4, <2>6, <2>7, <2>8, TypeParts DEF IInv
<1>7. QED
  BY <1>4, <1>5, <1>6 DEF request_handler

LEMMA AnswerStep ==
    ASSUME IInv, Answer
    PROVE  IInv'
<1>1. /\ discard_unread_request_data
      /\ UNCHANGED <<socket, server, message, purpose, left, read, taken, cut>>
      /\ status' \in {200, 400, 404} /\ pc = "answer"
  BY DEF Answer
<1>2. checked' \in BOOLEAN
  BY ZenonT(60) DEF IInv, TypeOK, Answer
<1>3. /\ InSync /\ (is_chunked = 0 <=> ~request.chunked)
      /\ (is_chunked = 0 => content_len = request.length) /\ (is_chunked = 1 => InChunk)
  BY <1>1 DEF IInv, AnswerInv
<1>4. status' \in {NoAnswer, 200, 400, 403, 404, 405, 411, 505}
  BY <1>1
<1>5. QED
  BY <1>1, <1>2, <1>3, <1>4, DiscardStep

-----------------------------------------------------------------------------
(* The invariant *)

LEMMA InitStep == Init => IInv
<1> SUFFICES ASSUME Init PROVE IInv
  OBVIOUS
<1> USE DEF Init
<1>1. TypeOK
  <2>1. Total(request) \in Nat
    BY RequestsAssumption DEF Request, Total
  <2>2. SocketOK
    <3>1. 0 \in 0..Total(request) /\ 0 \in 0..0
      BY <2>1
    <3>2. request \in Requests /\ arrived = 0 /\ received = 0 /\ clientOpen = FALSE
      OBVIOUS
    <3>3. QED
      BY <3>1, <3>2 DEF SocketOK
  <2>2a. FlagsOK
    BY DEF FlagsOK
  <2>3. MessageOK /\ CallOK /\ AnswerOK
    BY BufSizeAssumption DEF MessageOK, CallOK, AnswerOK, Pcs, Purposes
  <2>4. CopiesOK
    <3>1. <<>> \in Seq(Position)
      OBVIOUS
    <3>2. QED
      BY <3>1 DEF CopiesOK
  <2>5. QED
    BY <2>2, <2>2a, <2>3, <2>4, TypeParts
<1>2. HeadInv /\ HandlerInv /\ BodyInv /\ MgReadInv /\ ReadInv /\ AnswerInv
  BY DEF HeadInv, HandlerInv, BodyInv, MgReadInv, ReadInv, AnswerInv, ReadingHead, ReadingBody,
         Reading, Beginning, Pulling
<1>3. TakenInOrder
  <2>1. request.head \in request.head..End(request)
    BY <1>1, RequestFacts DEF End, Least
  <2>2. QED
    BY <1>1, <2>1, ListsNothing DEF TakenInOrder
<1>4. QED
  BY <1>1, <1>2, <1>3 DEF IInv

LEMMA Stutters == ASSUME IInv, UNCHANGED vars PROVE IInv'
<1>1. UNCHANGED <<Control, received>> /\ stop_flag' = stop_flag
  BY DEF vars, Control, socket, server, message, call, outcome
<1>2. TypeOK'
  <2> USE DEF vars, server, message, call, outcome
  <2>1. SocketOK /\ FlagsOK /\ MessageOK /\ CallOK /\ AnswerOK /\ CopiesOK
    BY TypeParts DEF IInv
  <2>2. SocketOK' /\ CopiesOK'
    BY <2>1, SocketStays, CopiesStay DEF socket
  <2>3. FlagsOK' /\ MessageOK' /\ CallOK' /\ AnswerOK'
    BY <2>1 DEF FlagsOK, MessageOK, CallOK, AnswerOK
  <2>4. QED
    BY <2>2, <2>3, TypeParts
<1>3. QED
  BY <1>1, <1>2, StopIsSafe DEF IInv, TypeOK

LEMMA NextStep == IInv /\ [Next]_vars => IInv'
<1> SUFFICES ASSUME IInv, [Next]_vars PROVE IInv'
  OBVIOUS
<1>1. CASE Client
  BY <1>1, ClientStep, ConnectStep DEF Client
<1>2. CASE Program
  BY <1>2, ProgramStep DEF Program
<1>3. CASE Worker
  BY <1>3, ReadMessageStep, PollStep, RecvFailsStep, RecvHeadStep, RecvBodyStep, PullAllStep,
     RefusalStep, GetRequestStep, MgReadStep, PlainReadStep, ChunkBrokenStep, ChunkDataStep,
     ChunkEndStep, ChunkSizeStep, TrailerStep, HandlerStep, AnswerStep DEF Worker
<1>4. CASE UNCHANGED vars
  BY <1>4, Stutters
<1>5. QED
  BY <1>1, <1>2, <1>3, <1>4 DEF Next

LEMMA Inductive == Spec => []IInv
<1>1. QED
  BY InitStep, NextStep, PTL DEF Spec

(* The variables keep their types whatever clients send: the buffer never   *)
(* holds more than its size, and no count of the body falls below zero.     *)
THEOREM TypeCorrect == Spec => []TypeOK
<1>1. IInv => TypeOK
  BY DEF IInv
<1>2. QED
  BY <1>1, Inductive, PTL

(* For every message, however it is framed and split, and for every size of *)
(* the buffers: what request_handler gets of a body are its first units,    *)
(* each once and in order.  mg_read_inner goes on in the socket where the   *)
(* buffer ended, and the framing of chunks never gets into the data.        *)
THEOREM BodyInOrder == Spec => []TakenInOrder
<1>1. IInv => TakenInOrder
  BY DEF IInv
<1>2. QED
  BY <1>1, Inductive, PTL

-----------------------------------------------------------------------------
(***************************************************************************)
(* That nothing is missed: of a message without a flaw that was not cut    *)
(* short the handler gets all it can hold, and nothing is left unread.     *)
(***************************************************************************)

(* A message without a flaw, all of which could be read so far. *)
Whole == request.flaw = "none" /\ ~cut

(* What comes next in the message, after position p. *)
UnitIs(p, kind) == p \in (request.head + 1)..Total(request) /\ UnitAt(p).kind = kind
SizeNext(p) == UnitIs(p + 1, "size")
CrlfNext(p) == UnitIs(p + 1, "crlf") /\ UnitIs(p + 2, "size")
EndNext(p) == UnitIs(p + 1, "end") /\ p + 1 = Total(request)

(* Where the current read began, and how much mg_read was asked for. *)
Before == At - Len(read)
Asked == IF reader = "handler" THEN HandlerBuf ELSE DiscardBuf

(* Unless it was cut short, the connection can still bring all of the message. *)
OpenInv ==
    ~cut /\ pc # "idle" =>
        /\ ~stop_flag
        /\ clientOpen \/ arrived = Total(request)
        /\ pc = "recv" => received < arrived \/ ~clientOpen

OrderInv ==
    /\ pc \notin {"close", "idle"} => ~must_close
    /\ pc = "get_message" => reader = "none"
    /\ pc = "answer" /\ request.method = "POST" => reader = "handler"

(* What mg_read has copied and what it still wants are what it was asked for; *)
(* a read that stops short has come to the end of the message.                *)
AskedInv ==
    /\ ReadingBody => IF is_chunked = 0 THEN len = Asked ELSE Len(all_read) + len = Asked
    /\ Reading =>
        /\ purpose = "plain" => Len(read) + left = Least(len, (content_len - consumed_content) + Len(read))
        /\ purpose = "data" => Len(read) + left > 0
        /\ purpose \in {"crlf", "size", "trailer"} => Len(read) + left = 1
    /\ pc = "mg_read_inner" /\ left > 0 /\ ~cut => At = Total(request)

(* The read that is under way is the one the chunks call for. *)
AtChunk == \/ is_chunked = 1 /\ consumed_content = content_len /\ SizeNext(At)
           \/ is_chunked = 1 /\ consumed_content < content_len /\ CrlfNext(request_len + content_len)
           \/ is_chunked = 4 /\ At = Total(request)

FrameInv ==
    Whole /\ request.chunked =>
        /\ pc \in {"mg_read", "answer"} => AtChunk
        /\ Reading => /\ purpose = "data" => CrlfNext(request_len + content_len)
                      /\ purpose = "crlf" => CrlfNext(Before)
                      /\ purpose = "size" => SizeNext(Before)
                      /\ purpose = "trailer" => EndNext(Before)

(* s is all of the body, or as much of it as request_handler asked for. *)
Enough(s) == \E p \in request.head..End(request) :
                /\ Lists(s, p)
                /\ Len(s) = HandlerBuf \/ (Len(s) <= HandlerBuf /\ p = End(request))

TakenInv == pc = "answer" /\ reader = "handler" /\ Whole => Enough(taken)

WholeInv == OpenInv /\ OrderInv /\ AskedInv /\ FrameInv /\ TakenInv /\ NothingLeftUnread

-----------------------------------------------------------------------------
(* What the steps have in common *)

LEMMA SameUnits ==
    ASSUME UNCHANGED request
    PROVE  /\ Total(request)' = Total(request) /\ End(request)' = End(request)
           /\ \A p, kind : UnitIs(p, kind)' <=> UnitIs(p, kind)
           /\ \A s, p : Lists(s, p)' <=> Lists(s, p)
           /\ \A s : Enough(s)' <=> Enough(s)
<1>1. Total(request)' = Total(request) /\ End(request)' = End(request)
  BY DEF Total, End
<1>2. \A p, kind : UnitIs(p, kind)' <=> UnitIs(p, kind)
  BY <1>1 DEF UnitIs, UnitAt
<1>3. \A s, p : Lists(s, p)' <=> Lists(s, p)
  BY DEF Lists, IsData, UnitAt
<1>4. \A s : Enough(s)' <=> Enough(s)
  BY <1>1, <1>3 DEF Enough
<1>5. QED
  BY <1>1, <1>2, <1>3, <1>4

(* Outside the body, nothing but the order of things is at stake. *)
LEMMA OutOfBody ==
    ASSUME pc' \notin {"mg_read", "answer", "pull_all", "mg_read_inner"},
           pc' \in {"poll", "recv"} => purpose' = "head",
           pc' = "close" => reader' = "none"
    PROVE  AskedInv' /\ FrameInv' /\ TakenInv' /\ NothingLeftUnread'
<1>1. ~ReadingBody' /\ ~Reading'
  BY DEF ReadingBody, Reading, Pulling
<1>2. AskedInv' /\ FrameInv'
  BY <1>1 DEF AskedInv, FrameInv
<1>3. TakenInv' /\ NothingLeftUnread'
  BY DEF TakenInv, NothingLeftUnread
<1>4. QED
  BY <1>2, <1>3

(* The connection stays open to the message through a step of the worker. *)
LEMMA StaysOpen ==
    ASSUME OpenInv, pc # "idle", UNCHANGED <<request, arrived, clientOpen, stop_flag>>,
           cut => cut', pc' # "recv"
    PROVE  OpenInv'
BY DEF OpenInv, Total

(* The worker does nothing; the connection may be cut short. *)
LEMMA NothingMoves ==
    ASSUME OrderInv, AskedInv, FrameInv, TakenInv, NothingLeftUnread,
           UNCHANGED <<Control, received, must_close>>, cut => cut'
    PROVE  OrderInv' /\ AskedInv' /\ FrameInv' /\ TakenInv' /\ NothingLeftUnread'
<1> USE DEF Control
<1>1. OrderInv'
  BY DEF OrderInv
<1>2. /\ At' = At /\ Before' = Before /\ Asked' = Asked
      /\ (ReadingBody' <=> ReadingBody) /\ (Reading' <=> Reading) /\ (Whole' => Whole)
      /\ Total(request)' = Total(request) /\ End(request)' = End(request)
      /\ (CrlfNext(request_len + content_len)' <=> CrlfNext(request_len + content_len))
      /\ (CrlfNext(Before)' <=> CrlfNext(Before)) /\ (SizeNext(Before)' <=> SizeNext(Before))
      /\ (SizeNext(At)' <=> SizeNext(At)) /\ (EndNext(Before)' <=> EndNext(Before))
  <2>1. At' = At /\ Before' = Before /\ Asked' = Asked
    BY DEF At, Before, Asked
  <2>2. (ReadingBody' <=> ReadingBody) /\ (Reading' <=> Reading) /\ (Whole' => Whole)
    BY DEF ReadingBody, Reading, Pulling, Whole
  <2>3. QED
    BY <2>1, <2>2, SameUnits DEF CrlfNext, SizeNext, EndNext
<1>3. AskedInv'
  BY <1>2 DEF AskedInv
<1>4. FrameInv'
  BY <1>2 DEF FrameInv, AtChunk
<1>5. TakenInv' /\ NothingLeftUnread'
  BY <1>2, SameUnits DEF TakenInv, NothingLeftUnread, Whole
<1>6. QED
  BY <1>1, <1>3, <1>4, <1>5

(* The same read goes on, or ends without another piece. *)
LEMMA SameRead ==
    ASSUME WholeInv, Reading, Reading',
           UNCHANGED <<request, request_len, content_len, consumed_content, is_chunked, must_close,
                       reader, len, all_read, purpose, left, read>>,
           cut => cut',
           pc' = "mg_read_inner" => left = 0 \/ cut' \/ At = Total(request)
    PROVE  OrderInv' /\ AskedInv' /\ FrameInv' /\ TakenInv' /\ NothingLeftUnread'
<1>1. ReadingBody /\ ReadingBody' /\ pc' \notin {"mg_read", "answer", "close", "idle", "get_message"}
      /\ pc \notin {"close", "idle"}
  BY DEF Reading, ReadingBody, Pulling
<1>2. OrderInv'
  BY <1>1 DEF WholeInv, OrderInv
<1>3. /\ At' = At /\ Before' = Before /\ Asked' = Asked /\ (Whole' => Whole)
      /\ Total(request)' = Total(request)
      /\ (CrlfNext(request_len + content_len)' <=> CrlfNext(request_len + content_len))
      /\ (CrlfNext(Before)' <=> CrlfNext(Before)) /\ (SizeNext(Before)' <=> SizeNext(Before))
      /\ (EndNext(Before)' <=> EndNext(Before))
  <2>1. At' = At /\ Before' = Before /\ Asked' = Asked /\ (Whole' => Whole)
    BY DEF At, Before, Asked, Whole
  <2>2. QED
    BY <2>1, SameUnits DEF CrlfNext, SizeNext, EndNext
<1>4. AskedInv'
  BY <1>1, <1>3 DEF WholeInv, AskedInv
<1>5. FrameInv'
  BY <1>1, <1>3 DEF WholeInv, FrameInv
<1>6. QED
  BY <1>1, <1>2, <1>4, <1>5 DEF TakenInv, NothingLeftUnread

-----------------------------------------------------------------------------
(* Steps that read no body *)

LEMMA ClientKeepsWhole ==
    ASSUME IInv, WholeInv, Send \/ ClientCloses \/ ClientResets
    PROVE  WholeInv'
<1>1. UNCHANGED <<Control, received, must_close>> /\ stop_flag' = stop_flag /\ (cut => cut')
  <2>1. UNCHANGED <<Control, received, must_close>> /\ stop_flag' = stop_flag
    BY DEF Send, ClientCloses, ClientResets, Control, server, message, call, outcome
  <2>2. cut => cut'
    BY Zenon DEF Send, ClientCloses, ClientResets
  <2>3. QED
    BY <2>1, <2>2
<1>2. OrderInv' /\ AskedInv' /\ FrameInv' /\ TakenInv' /\ NothingLeftUnread'
  BY <1>1, NothingMoves DEF WholeInv
<1>3. OpenInv'
  <2>1. /\ pc' = pc /\ Total(request)' = Total(request) /\ Total(request) \in Nat
        /\ arrived \in 0..Total(request) /\ received \in 0..arrived
    BY <1>1, RequestFacts, SameUnits DEF IInv, TypeOK, Control
  <2>2. CASE Send
    BY <1>1, <2>1, <2>2 DEF Send, WholeInv, OpenInv
  <2>3. CASE ClientCloses
    <3>1. /\ clientOpen' = FALSE /\ arrived' = arrived /\ received' = received
          /\ ~cut' => ~cut /\ ~(arrived < Total(request))
      BY Zenon, <2>3 DEF ClientCloses
    <3>2. QED
      BY <1>1, <2>1, <3>1 DEF WholeInv, OpenInv
  <2>4. CASE ClientResets
    <3>1. /\ clientOpen' = FALSE /\ arrived' = received /\ received' = received
          /\ ~cut' => ~cut /\ ~(received < Total(request))
      BY Zenon, <2>4 DEF ClientResets
    <3>2. QED
      BY <1>1, <2>1, <3>1 DEF WholeInv, OpenInv
  <2>5. QED
    BY <2>2, <2>3, <2>4
<1>4. QED
  BY <1>2, <1>3 DEF WholeInv

LEMMA ProgramKeepsWhole ==
    ASSUME WholeInv, Stop \/ Start \/ mg_set_request_handler
    PROVE  WholeInv'
<1>1. UNCHANGED <<Control, received, must_close>> /\ (cut => cut')
  BY DEF Stop, Start, mg_set_request_handler, Control, socket, message, call, outcome
<1>2. OrderInv' /\ AskedInv' /\ FrameInv' /\ TakenInv' /\ NothingLeftUnread'
  BY <1>1, NothingMoves DEF WholeInv
<1>3. OpenInv'
  BY DEF WholeInv, OpenInv, Stop, Start, mg_set_request_handler, socket, Total
<1>4. QED
  BY <1>2, <1>3 DEF WholeInv

LEMMA ConnectKeepsWhole ==
    ASSUME NEW r \in Requests, Connect(r)
    PROVE  WholeInv'
<1> USE DEF Connect, reset_per_request_attributes, server
<1>1. OpenInv' /\ OrderInv'
  BY DEF OpenInv, OrderInv
<1>2. QED
  BY <1>1, OutOfBody DEF WholeInv

(* The head of the message, and what refuses it. *)
LEMMA HeadKeepsWhole ==
    ASSUME IInv, WholeInv,
           \/ ReadMessage \/ RecvHead \/ GetMessageFails \/ Refuse \/ GetRequest
           \/ close_connection
    PROVE  WholeInv'
<1> USE DEF socket, server, call, outcome
<1>1. pc \in {"read_message", "recv"} /\ (pc = "recv" => purpose = "head") =>
        reader = "none"
  BY DEF IInv, HeadInv, ReadingHead, Pulling
<1>2. pc = "get_request" => reader = "none"
  BY DEF IInv, HeadInv, Beginning
<1>3. CASE ReadMessage
  <2>1. OpenInv'
    BY <1>3, StaysOpen DEF ReadMessage, WholeInv
  <2>2. OrderInv'
    BY <1>1, <1>3 DEF ReadMessage, WholeInv, OrderInv
  <2>3. QED
    BY <1>3, <2>1, <2>2, OutOfBody DEF ReadMessage, WholeInv
<1>4. CASE RecvHead
  <2>1. /\ pc' \in {"read_message", "get_message", "get_request"} /\ pc = "recv"
        /\ UNCHANGED <<request, arrived, clientOpen, stop_flag, must_close, reader, cut>>
    BY <1>4 DEF RecvHead
  <2>2. OpenInv'
    BY <2>1, StaysOpen DEF WholeInv
  <2>3. OrderInv'
    BY <1>1, <1>4, <2>1 DEF RecvHead, WholeInv, OrderInv
  <2>4. QED
    BY <2>1, <2>2, <2>3, OutOfBody DEF WholeInv
<1>5. CASE GetMessageFails \/ Refuse \/ GetRequest
  <2>1. /\ pc' \in {"close", "request_handler"} /\ reader' = "none" /\ pc # "idle"
        /\ pc' = "request_handler" => ~must_close'
        /\ UNCHANGED <<request, arrived, clientOpen, stop_flag, reader, cut>>
    BY <1>2, <1>5 DEF GetMessageFails, Refuse, GetRequest, WholeInv, OrderInv
  <2>2. OpenInv' /\ OrderInv'
    BY <2>1, StaysOpen DEF WholeInv, OrderInv
  <2>3. QED
    BY <2>1, <2>2, OutOfBody DEF WholeInv
<1>6. CASE close_connection
  <2>1. pc' = "idle"
    BY <1>6 DEF close_connection
  <2>2. OpenInv' /\ OrderInv'
    BY <2>1 DEF OpenInv, OrderInv
  <2>3. QED
    BY <2>1, <2>2, OutOfBody DEF WholeInv
<1>7. QED
  BY <1>3, <1>4, <1>5, <1>6

-----------------------------------------------------------------------------
(* Waiting for more, and receiving it *)

(* Where the socket is read when a read wants more than the buffer holds. *)
LEMMA ReadsOn ==
    ASSUME IInv, WholeInv, Reading, left > 0, ~cut
    PROVE  received = At /\ ~stop_flag
<1>1. InSync /\ TypeOK /\ ReadInv /\ pc # "idle"
  BY ReadFacts DEF IInv, Reading, Pulling
<1>2. ~stop_flag /\ At >= data_len
  BY <1>1 DEF WholeInv, OpenInv, ReadInv
<1>3. QED
  BY <1>1, <1>2, Bounds DEF InSync

LEMMA WaitingKeepsWhole ==
    ASSUME IInv, WholeInv, PollStopped \/ PollTimesOut \/ PollReady \/ PullAll \/ RecvFails
    PROVE  WholeInv'
<1> USE DEF socket, server, message, call, outcome
<1>1. /\ pc \in {"poll", "recv", "pull_all"} /\ pc' \in {"recv", "get_message", "mg_read_inner", "poll"}
      /\ UNCHANGED <<request, arrived, clientOpen, stop_flag, data_len, content_len,
                     consumed_content, is_chunked, must_close, call>>
      /\ (cut => cut') /\ (request_len' = request_len \/ purpose = "head")
      /\ (pc' = "get_message" => purpose = "head" /\ pc # "pull_all")
      /\ (pc' = "recv" => received < arrived \/ ~clientOpen) /\ (pc' = "recv" => received' = received)
      /\ (pc' = "mg_read_inner" => purpose # "head" \/ pc = "pull_all")
  BY DEF PollStopped, PollTimesOut, PollReady, PullAll, RecvFails, PullFails
<1>2. OpenInv'
  <2>1. Total(request)' = Total(request)
    BY <1>1, SameUnits
  <2>2. QED
    BY <1>1, <2>1 DEF WholeInv, OpenInv
<1>3. CASE ReadingHead
  <2>1. purpose = "head" /\ reader = "none" /\ pc # "pull_all"
    BY <1>1, <1>3 DEF IInv, HeadInv, ReadingHead, Pulling
  <2>2. OrderInv'
    BY <1>1, <2>1 DEF WholeInv, OrderInv
  <2>3. pc' \in {"recv", "get_message", "poll"}
    BY <1>1, <2>1
  <2>4. QED
    BY <1>1, <1>2, <2>1, <2>2, <2>3, OutOfBody DEF WholeInv
<1>4. CASE ~ReadingHead
  <2>1. Reading /\ purpose # "head"
    BY <1>1, <1>4 DEF Reading, ReadingHead, Pulling, IInv, ReadInv
  <2>2. Reading'
    BY <1>1, <2>1 DEF Reading, Pulling
  <2>3. pc' = "mg_read_inner" => left = 0 \/ cut' \/ At = Total(request)
    <3>1. SUFFICES ASSUME pc' = "mg_read_inner", left # 0, ~cut' PROVE At = Total(request)
      OBVIOUS
    <3>2. left > 0 /\ ~cut
      BY <1>1, <2>1, <3>1, ReadFacts
    <3>3. received = At /\ ~stop_flag
      BY <2>1, <3>2, ReadsOn
    <3>4. received = arrived /\ pc = "recv"
      BY <1>1, <3>1, <3>2, <3>3 DEF PollStopped, PollTimesOut, PollReady, PullAll, PullMore, RecvFails
    <3>5. arrived = Total(request)
      <4>1. ~(received < arrived)
        BY <3>4 DEF IInv, TypeOK
      <4>2. QED
        BY <3>2, <3>4, <4>1 DEF WholeInv, OpenInv
    <3>6. QED
      BY <3>3, <3>4, <3>5
  <2>4. UNCHANGED <<request_len, reader, len, all_read, purpose, left, read>>
    BY <1>1, <2>1
  <2>5. QED
    BY <1>1, <1>2, <2>1, <2>2, <2>3, <2>4, SameRead DEF WholeInv
<1>5. QED
  BY <1>3, <1>4

LEMMA PieceKeepsWhole ==
    ASSUME IInv, WholeInv, RecvBody
    PROVE  WholeInv'
<1> DEFINE n == Least(left, arrived - received)
<1>1. /\ Reading /\ pc = "recv" /\ purpose # "head" /\ pc' = "pull_all"
      /\ read' = read \o Run(received, n) /\ received < arrived
      /\ left' = left - n /\ consumed_content' = consumed_content + n
      /\ UNCHANGED <<request, arrived, clientOpen, stop_flag, request_len, content_len,
                     is_chunked, must_close, reader, len, all_read, purpose, cut>>
  BY DEF RecvBody, Reading, Pulling, server, outcome
<1>2. /\ TypeOK /\ InSync /\ left \in Nat /\ consumed_content \in Nat /\ At \in Nat
      /\ content_len \in Nat /\ received \in Nat /\ arrived \in Nat /\ read \in Seq(Position)
      /\ Len(read) \in Nat /\ At = request_len + consumed_content /\ request_len \in Nat
  BY <1>1, ReadFacts, Bounds, SMTT(30) DEF TypeOK
<1>3. n \in Nat
  BY <1>1, <1>2 DEF Least
<1> HIDE DEF n
<1>4. Len(read') = Len(read) + n
  <2>1. read \in Seq(Int)
    BY <1>2, RequestFacts DEF Position
  <2>2. Run(received, n) \in Seq(Int) /\ Len(Run(received, n)) = n
    <3>1. received \in Int
      BY <1>2
    <3>2. QED
      BY Zenon, <1>3, <3>1, RunFacts
  <2>3. QED
    BY <1>1, <2>1, <2>2, ConcatProperties
<1>5. /\ Before' = Before /\ Asked' = Asked /\ Total(request)' = Total(request) /\ (Whole' => Whole)
      /\ Len(read') + left' = Len(read) + left
      /\ (content_len - consumed_content)' + Len(read') = (content_len - consumed_content) + Len(read)
  <2>1. At' = At + n
    BY <1>1, <1>2, <1>3 DEF At
  <2>2. Before' = Before
    BY <1>2, <1>3, <1>4, <2>1 DEF Before
  <2>3. Asked' = Asked /\ Total(request)' = Total(request) /\ (Whole' => Whole)
    BY <1>1, SameUnits DEF Asked, Whole
  <2>4. QED
    BY <1>1, <1>2, <1>3, <1>4, <2>2, <2>3
<1>6. OpenInv' /\ OrderInv'
  BY <1>1, StaysOpen DEF WholeInv, OrderInv
<1>7. AskedInv'
  <2>1. ReadingBody /\ Reading'
    BY <1>1 DEF ReadingBody, Reading
  <2>2. QED
    BY <1>1, <1>5, <2>1 DEF WholeInv, AskedInv
<1>8. FrameInv'
  <2>1. (CrlfNext(request_len + content_len)' <=> CrlfNext(request_len + content_len))
        /\ (CrlfNext(Before)' <=> CrlfNext(Before)) /\ (SizeNext(Before)' <=> SizeNext(Before))
        /\ (EndNext(Before)' <=> EndNext(Before))
    BY <1>1, <1>5, SameUnits DEF CrlfNext, SizeNext, EndNext
  <2>2. QED
    BY <1>1, <1>5, <2>1 DEF WholeInv, FrameInv
<1>9. QED
  BY <1>1, <1>6, <1>7, <1>8 DEF WholeInv, TakenInv, NothingLeftUnread

-----------------------------------------------------------------------------
(* mg_read and its loops *)

(* What mg_read_inner is asked for, and from where on. *)
LEMMA InnerAsks ==
    ASSUME IInv, ReadingBody, NEW want \in Nat, NEW why \in Purposes, NEW content \in Nat,
           content_len <= content, mg_read_inner(want, why, content),
           UNCHANGED <<socket, server, request_len, data_len>>
    PROVE  /\ pc' = "pull_all" /\ Reading' /\ purpose' = why /\ content_len' = content
           /\ Len(read') \in Nat /\ left' \in Nat
           /\ Len(read') + left' = Least(want, content - consumed_content)
           /\ (content - consumed_content') + Len(read') = content - consumed_content
           /\ Before' = At
           /\ UNCHANGED <<request, arrived, clientOpen, stop_flag>>
<1>1. TypeOK /\ InSync /\ stop_flag' = stop_flag
  BY DEF IInv, BodyInv, server
<1>2. /\ consumed_content \in Nat /\ request_len \in Nat /\ At = request_len + consumed_content
      /\ consumed_content <= content
  BY <1>1, Bounds DEF InSync, At
<1>3. /\ pc' = "pull_all" /\ purpose' = why /\ content_len' = content
      /\ read' \in Seq(Position) /\ left' \in Nat
      /\ consumed_content' = consumed_content + Len(read')
      /\ Len(read') + left' = Least(want, content - consumed_content)
  BY <1>1, <1>2, InnerReads
<1>4. Len(read') \in Nat
  BY <1>3
<1>5. Before' = At
  BY <1>2, <1>3, <1>4 DEF Before, At
<1>6. (content - consumed_content') + Len(read') = content - consumed_content
  BY <1>2, <1>3, <1>4
<1>7. QED
  BY <1>1, <1>3, <1>4, <1>5, <1>6 DEF Reading, socket

(* A read of mg_read_inner begins. *)
LEMMA ReadBegins ==
    ASSUME WholeInv, pc \notin {"close", "idle"}, pc' = "pull_all",
           UNCHANGED <<request, arrived, clientOpen, stop_flag, must_close, cut>>,
           IF is_chunked' = 0 THEN len' = Asked' ELSE Len(all_read') + len' = Asked',
           purpose' = "plain" =>
              Len(read') + left' = Least(len', (content_len' - consumed_content') + Len(read')),
           purpose' = "data" => Len(read') + left' > 0,
           purpose' \in {"crlf", "size", "trailer"} => Len(read') + left' = 1,
           Whole /\ request.chunked =>
              /\ purpose' = "data" => CrlfNext(request_len + content_len)'
              /\ purpose' = "crlf" => CrlfNext(Before)'
              /\ purpose' = "size" => SizeNext(Before)'
              /\ purpose' = "trailer" => EndNext(Before)'
    PROVE  WholeInv'
<1>1. OpenInv' /\ OrderInv'
  BY StaysOpen DEF WholeInv, OrderInv
<1>2. AskedInv' /\ FrameInv'
  BY DEF AskedInv, FrameInv, Whole
<1>3. TakenInv' /\ NothingLeftUnread'
  BY DEF TakenInv, NothingLeftUnread
<1>4. QED
  BY <1>1, <1>2, <1>3 DEF WholeInv

(* Back to the head of the loop of mg_read. *)
LEMMA LoopsWell ==
    ASSUME WholeInv, pc \notin {"close", "idle"}, pc' = "mg_read",
           UNCHANGED <<request, arrived, clientOpen, stop_flag, must_close, cut>>,
           IF is_chunked' = 0 THEN len' = Asked' ELSE Len(all_read') + len' = Asked',
           Whole /\ request.chunked => AtChunk'
    PROVE  WholeInv'
<1>1. OpenInv' /\ OrderInv'
  BY StaysOpen DEF WholeInv, OrderInv
<1>2. ~Reading' /\ (Whole' <=> Whole)
  BY DEF Reading, Pulling, Whole
<1>3. AskedInv' /\ FrameInv'
  BY <1>2 DEF AskedInv, FrameInv
<1>4. TakenInv' /\ NothingLeftUnread'
  BY DEF TakenInv, NothingLeftUnread
<1>5. QED
  BY <1>1, <1>3, <1>4 DEF WholeInv

(* The whole message lies behind: nothing of it is left in the socket. *)
LEMMA AllReceived ==
    ASSUME TypeOK, InSync, ~stop_flag, At >= End(request)
    PROVE  received >= End(request)
<1>1. End(request) \in Nat
  BY RequestFacts DEF End, Least
<1>2. QED
  BY <1>1, Bounds DEF InSync

(* mg_read is done: with all of it, or with as much as it was asked for. *)
LEMMA ReturnsWell ==
    ASSUME IInv, WholeInv, ReadingBody, NEW copied \in Seq(Position), MgReadReturns(copied),
           UNCHANGED <<socket, server, must_close, request_len, consumed_content, cut>>,
           is_chunked' = 0 <=> ~request.chunked,
           Whole /\ request.chunked => AtChunk',
           Whole /\ reader = "handler" => Enough(copied),
           Whole /\ reader = "discard" /\ copied = <<>> => At >= End(request)
    PROVE  WholeInv'
<1> USE DEF MgReadReturns, CallMgRead, DiscardMore, socket, server
<1>1. /\ pc \notin {"close", "idle"} /\ ~must_close /\ pc' # "recv" /\ TypeOK /\ InSync
      /\ reader \in {"handler", "discard"}
  BY DEF IInv, BodyInv, TypeOK, ReadingBody, Reading, Pulling, WholeInv, OrderInv
<1>2. Whole => ~stop_flag
  BY <1>1 DEF Whole, WholeInv, OpenInv
<1>3. /\ (Whole' <=> Whole) /\ End(request)' = End(request) /\ \A s : Enough(s)' <=> Enough(s)
  BY SameUnits DEF Whole
<1>4. OpenInv'
  BY <1>1, StaysOpen DEF WholeInv
<1>5. CASE reader = "handler"
  <2>1. pc' = "answer" /\ taken' = copied /\ reader' = "handler"
    BY <1>5
  <2>2. ~ReadingBody' /\ ~Reading'
    BY <2>1 DEF ReadingBody, Reading, Pulling
  <2>3. OrderInv' /\ AskedInv'
    BY <1>1, <2>1, <2>2 DEF OrderInv, AskedInv
  <2>4. FrameInv'
    BY <1>3, <2>1, <2>2 DEF FrameInv
  <2>5. TakenInv' /\ NothingLeftUnread'
    BY <1>3, <1>5, <2>1 DEF TakenInv, NothingLeftUnread
  <2>6. QED
    BY <1>4, <2>3, <2>4, <2>5 DEF WholeInv
<1>6. CASE reader = "discard" /\ copied # <<>>
  <2>1. pc' = "mg_read" /\ reader' = "discard" /\ len' = DiscardBuf /\ all_read' = <<>>
    BY <1>6
  <2>2. len' = Asked' /\ Len(all_read') + len' = Asked'
    BY <2>1, DiscardBufAssumption DEF Asked
  <2>3. QED
    BY <1>1, <2>1, <2>2, LoopsWell
<1>7. CASE reader = "discard" /\ copied = <<>>
  <2>1. pc' = "close" /\ reader' = "discard"
    BY <1>7
  <2>2. ~ReadingBody' /\ ~Reading'
    BY <2>1 DEF ReadingBody, Reading, Pulling
  <2>3. OrderInv' /\ AskedInv' /\ FrameInv' /\ TakenInv'
    BY <2>1, <2>2 DEF OrderInv, AskedInv, FrameInv, TakenInv
  <2>4. NothingLeftUnread'
    BY <1>1, <1>2, <1>3, <1>7, AllReceived DEF NothingLeftUnread, Whole
  <2>5. QED
    BY <1>4, <2>3, <2>4 DEF WholeInv
<1>8. QED
  BY <1>1, <1>5, <1>6, <1>7

(* A read that has returned is all there is of a message that is whole.      *)
LEMMA ReadIsDone ==
    ASSUME IInv, WholeInv, Whole, pc = "mg_read_inner"
    PROVE  /\ purpose = "data" => request.chunked /\ read # <<>>
           /\ purpose = "crlf" => ReadOne("crlf") /\ SizeNext(At)
           /\ purpose = "size" => ReadOne("size") /\ UnitIs(At, "size")
           /\ purpose = "trailer" => ReadOne("end") /\ At = Total(request)
           /\ purpose \in {"crlf", "size", "trailer"} => request.chunked /\ Before + 1 = At
<1>1. /\ Reading /\ TypeOK /\ InSync /\ At \in Nat /\ Len(read) \in Nat /\ left \in Nat
      /\ consumed_content \in Nat /\ content_len \in Nat /\ request_len \in Nat
      /\ At = request_len + consumed_content /\ Total(request) \in Nat /\ request.head \in Nat
      /\ At <= Total(request) /\ (is_chunked = 0 <=> ~request.chunked) /\ request.chunked \in BOOLEAN
      /\ request_len = request.head
  BY ReadFacts, RequestFacts, Bounds DEF Reading
<1>2. /\ left > 0 => At = Total(request)
      /\ purpose = "data" => Len(read) + left > 0
      /\ purpose \in {"crlf", "size", "trailer"} => Len(read) + left = 1
  BY <1>1 DEF WholeInv, AskedInv, Whole
<1>3. /\ purpose = "data" => is_chunked = 1
      /\ purpose \in {"crlf", "size", "trailer"} => is_chunked # 0
      /\ consumed_content + left <= content_len
      /\ read = Run(Before, Len(read))
  BY <1>1 DEF IInv, ReadInv, Before
<1>4. request.chunked => /\ purpose = "data" => CrlfNext(request_len + content_len)
                         /\ purpose = "crlf" => CrlfNext(Before)
                         /\ purpose = "size" => SizeNext(Before)
                         /\ purpose = "trailer" => EndNext(Before)
  BY <1>1 DEF WholeInv, FrameInv
<1>5. Before = At - Len(read)
  BY DEF Before
<1>6. CASE purpose = "data"
  <2>1. request.chunked /\ UnitIs(request_len + content_len + 1, "crlf")
    BY <1>1, <1>3, <1>4, <1>6 DEF CrlfNext
  <2>2. request_len + content_len + 1 <= Total(request)
    BY <1>1, <2>1 DEF UnitIs
  <2>3. left = 0
    BY <1>1, <1>2, <1>3, <2>2
  <2>4. Len(read) > 0
    BY <1>1, <1>2, <1>6, <2>3
  <2>5. QED
    BY <1>6, <2>1, <2>4
<1>7. CASE purpose \in {"crlf", "size", "trailer"}
  <2>1. request.chunked
    BY <1>1, <1>3, <1>7
  <2>2. UnitIs(Before + 1, IF purpose = "trailer" THEN "end" ELSE purpose)
    BY <1>4, <1>7, <2>1 DEF CrlfNext, SizeNext, EndNext
  <2>3. Before + 1 <= Total(request) /\ Before + 1 > request.head
    BY <1>1, <1>5, <2>2 DEF UnitIs
  <2>4. left = 0 /\ Len(read) = 1
    <3>1. Len(read) + left = 1 /\ (left > 0 => At = Total(request))
      BY <1>2, <1>7
    <3>2. ASSUME left # 0 PROVE FALSE
      <4>1. Len(read) = 0 /\ At = Total(request)
        BY <1>1, <3>1, <3>2
      <4>2. QED
        BY <1>1, <1>5, <2>3, <4>1
    <3>3. left = 0
      BY <3>2
    <3>4. QED
      BY <1>1, <3>1, <3>3
  <2>5. Before + 1 = At
    BY <1>1, <1>5, <2>4
  <2>6. read[1] = At
    <3>1. Before \in Int
      BY <1>1, <1>5
    <3>2. read = Run(Before, 1)
      BY <1>3, <2>4
    <3>3. read[1] = Before + 1
      BY <3>1, <3>2 DEF Run
    <3>4. QED
      BY <2>5, <3>3
  <2>7. ReadOne(IF purpose = "trailer" THEN "end" ELSE purpose)
    BY <2>2, <2>3, <2>4, <2>5, <2>6 DEF ReadOne, UnitIs
  <2>8. (Before + 1) + 1 = Before + 2
    BY <1>1, <1>5
  <2>9. purpose = "crlf" => SizeNext(At)
    BY <1>4, <2>1, <2>5, <2>8 DEF CrlfNext, SizeNext
  <2>10. purpose = "size" => UnitIs(At, "size")
    BY <2>2, <2>5
  <2>11. purpose = "trailer" => At = Total(request)
    BY <1>4, <2>1, <2>5 DEF EndNext
  <2>12. QED
    BY <1>7, <2>1, <2>5, <2>7, <2>9, <2>10, <2>11
<1>8. QED
  BY <1>6, <1>7

(* What the head of the loop of mg_read finds. *)
LEMMA LoopFacts ==
    ASSUME IInv, WholeInv, pc = "mg_read"
    PROVE  /\ TypeOK /\ InSync /\ ReadingBody /\ len \in Nat /\ all_read \in Seq(Position)
           /\ content_len \in Nat /\ consumed_content \in Nat /\ consumed_content <= content_len
           /\ reader \in {"handler", "discard"} /\ (is_chunked = 0 <=> ~request.chunked)
           /\ IF is_chunked = 0 THEN len = Asked ELSE Len(all_read) + len = Asked
           /\ Whole /\ request.chunked => AtChunk
           /\ is_chunked \in 0..4 /\ request.chunked \in BOOLEAN
<1>1. ReadingBody /\ TypeOK
  BY DEF ReadingBody, IInv
<1>2. InSync /\ reader \in {"handler", "discard"} /\ (is_chunked = 0 <=> ~request.chunked)
  BY <1>1 DEF IInv, BodyInv, TypeOK
<1>3. QED
  BY <1>1, <1>2, Bounds, RequestFacts DEF InSync, TypeOK, WholeInv, AskedInv, FrameInv

LEMMA MgReadKeepsWhole ==
    ASSUME IInv, WholeInv, MgRead
    PROVE  WholeInv'
<1>1. /\ pc = "mg_read" /\ UNCHANGED <<socket, server, data_len, request_len, is_chunked, must_close, cut>>
  BY DEF MgRead
<1>2. /\ TypeOK /\ InSync /\ ReadingBody /\ len \in Nat /\ all_read \in Seq(Position)
      /\ content_len \in Nat /\ consumed_content \in Nat /\ consumed_content <= content_len
      /\ reader \in {"handler", "discard"} /\ (is_chunked = 0 <=> ~request.chunked)
      /\ IF is_chunked = 0 THEN len = Asked ELSE Len(all_read) + len = Asked
      /\ Whole /\ request.chunked => AtChunk
      /\ is_chunked \in 0..4 /\ request.chunked \in BOOLEAN
  BY <1>1, LoopFacts
<1>3. CASE is_chunked = 0
  <2>1. mg_read_inner(len, "plain", content_len) /\ UNCHANGED <<reader, len, all_read, taken>>
    BY <1>1, <1>3 DEF MgRead
  <2>2. /\ pc' = "pull_all" /\ purpose' = "plain" /\ content_len' = content_len
        /\ Len(read') + left' = Least(len, content_len - consumed_content)
        /\ (content_len - consumed_content') + Len(read') = content_len - consumed_content
        /\ UNCHANGED <<request, arrived, clientOpen, stop_flag>>
    BY <1>1, <1>2, <2>1, InnerAsks DEF Purposes
  <2>3. Asked' = Asked
    BY <2>1 DEF Asked
  <2>4. QED
    BY <1>1, <1>2, <1>3, <2>1, <2>2, <2>3, ReadBegins
<1>4. CASE is_chunked = 1 /\ len > 0 /\ consumed_content # content_len
  <2>1. mg_read_inner(len, "data", content_len) /\ UNCHANGED <<reader, len, all_read, taken>>
    BY <1>1, <1>4 DEF MgRead
  <2>2. /\ pc' = "pull_all" /\ purpose' = "data" /\ content_len' = content_len
        /\ Len(read') + left' = Least(len, content_len - consumed_content)
        /\ UNCHANGED <<request, arrived, clientOpen, stop_flag>>
    BY <1>1, <1>2, <2>1, InnerAsks DEF Purposes
  <2>3. Asked' = Asked
    BY <2>1 DEF Asked
  <2>4. Len(read') + left' > 0
    BY <1>2, <1>4, <2>2 DEF Least
  <2>5. Whole /\ request.chunked => CrlfNext(request_len + content_len)'
    <3>1. Whole /\ request.chunked => CrlfNext(request_len + content_len)
      BY <1>2, <1>4 DEF AtChunk
    <3>2. QED
      BY <1>1, <2>2, <3>1, SameUnits DEF CrlfNext
  <2>6. QED
    BY <1>1, <1>2, <1>4, <2>1, <2>2, <2>3, <2>4, <2>5, ReadBegins
<1>5. CASE is_chunked = 1 /\ len > 0 /\ consumed_content = content_len
  <2>1. mg_read_inner(1, "size", content_len + 1) /\ UNCHANGED <<reader, len, all_read, taken>>
    BY <1>1, <1>5 DEF MgRead
  <2>2. /\ pc' = "pull_all" /\ purpose' = "size" /\ Before' = At
        /\ Len(read') + left' = Least(1, (content_len + 1) - consumed_content)
        /\ UNCHANGED <<request, arrived, clientOpen, stop_flag>>
    <3>1. content_len + 1 \in Nat /\ content_len <= content_len + 1
      BY <1>2
    <3>2. QED
      BY <1>1, <1>2, <2>1, <3>1, InnerAsks DEF Purposes
  <2>3. Asked' = Asked
    BY <2>1 DEF Asked
  <2>4. Len(read') + left' = 1
    BY <1>2, <1>5, <2>2 DEF Least
  <2>5. Whole /\ request.chunked => SizeNext(Before)'
    <3>1. Whole /\ request.chunked => SizeNext(At)
      BY <1>2, <1>5 DEF AtChunk
    <3>2. QED
      BY <2>2, <3>1, SameUnits DEF SizeNext
  <2>6. QED
    BY <1>1, <1>2, <1>5, <2>1, <2>2, <2>3, <2>4, <2>5, ReadBegins
<1>6. CASE is_chunked # 0 /\ (len = 0 \/ is_chunked # 1)
  <2> DEFINE copied == IF len = 0 THEN all_read ELSE <<>>
  <2>1. MgReadReturns(copied) /\ UNCHANGED <<purpose, left, read, content_len, consumed_content>>
    BY <1>1, <1>6 DEF MgRead
  <2>2. copied \in Seq(Position)
    BY <1>2
  <2>3. request.chunked /\ Len(all_read) + len = Asked
    BY <1>2, <1>6
  <2>4. Whole => AtChunk'
    <3>1. Whole => AtChunk
      BY <1>2, <2>3
    <3>2. At' = At /\ UNCHANGED <<request, request_len, content_len, consumed_content, is_chunked>>
      BY <1>1, <2>1 DEF At, socket
    <3>3. QED
      BY <3>1, <3>2, SameUnits DEF AtChunk, CrlfNext, SizeNext
  <2>5. ASSUME Whole, reader = "handler" PROVE Enough(copied)
    <3>1. is_chunked = 1 /\ len = 0 /\ Lists(all_read, At)
      BY <1>1, <1>6, <2>5 DEF IInv, MgReadInv
    <3>2. At \in request.head..End(request)
      BY <1>2, <3>1, AtEnd
    <3>3. Len(all_read) = HandlerBuf
      BY <1>2, <2>3, <2>5, <3>1 DEF Asked
    <3>4. QED
      BY <3>1, <3>2, <3>3 DEF Enough
  <2>6. ASSUME Whole, reader = "discard", copied = <<>> PROVE At >= End(request)
    <3>1. len # 0
      <4>1. len = 0 => Len(all_read) = 0
        BY <2>6
      <4>2. QED
        BY <1>2, <2>3, <2>6, <4>1, DiscardBufAssumption DEF Asked
    <3>2. is_chunked = 4 /\ At = Total(request)
      BY <1>2, <1>6, <2>3, <2>6, <3>1 DEF AtChunk
    <3>3. Total(request) \in Nat /\ End(request) = Total(request)
      BY <1>2, <2>3, RequestFacts DEF End
    <3>4. QED
      BY <3>2, <3>3
  <2> HIDE DEF copied
  <2>7. QED
    BY <1>1, <1>2, <2>1, <2>2, <2>3, <2>4, <2>5, <2>6, ReturnsWell
<1>7. QED
  BY <1>1, <1>3, <1>4, <1>5, <1>6 DEF MgRead

LEMMA PlainReadKeepsWhole ==
    ASSUME IInv, WholeInv, PlainRead
    PROVE  WholeInv'
<1>1. /\ pc = "mg_read_inner" /\ purpose = "plain" /\ MgReadReturns(read) /\ Reading
      /\ UNCHANGED <<socket, server, message, cut>>
  BY DEF PlainRead, Reading
<1>2. /\ TypeOK /\ InSync /\ ReadingBody /\ is_chunked = 0 /\ ~request.chunked
      /\ content_len = request.length /\ content_len \in Nat /\ consumed_content \in Nat
      /\ consumed_content <= content_len /\ At = request.head + consumed_content /\ request.head \in Nat
      /\ left \in Nat /\ Len(read) \in Nat /\ read \in Seq(Position) /\ At <= Total(request)
      /\ Total(request) \in Nat /\ Total(request) = request.head + Len(request.body)
      /\ Len(request.body) \in Nat
  BY <1>1, ReadFacts, RequestFacts DEF IInv, ReadInv, TypeOK
<1>3. /\ len = Asked /\ Len(read) + left = Least(len, (content_len - consumed_content) + Len(read))
      /\ left > 0 /\ ~cut => At = Total(request)
  BY <1>1, <1>2 DEF WholeInv, AskedInv
<1>4. /\ Asked \in Nat \ {0} /\ (reader = "handler" => Asked = HandlerBuf)
  BY HandlerBufAssumption, DiscardBufAssumption DEF Asked
<1>5. At \in request.head..End(request) /\ End(request) = request.head + Least(content_len, Len(request.body))
  BY <1>2, AtEnd DEF End
<1>6. Len(read) <= Asked /\ (Whole /\ Len(read) # Asked => At = End(request))
  <2>1. Len(read) <= Asked
    BY <1>2, <1>3, <1>4 DEF Least
  <2>2. ASSUME Whole, Len(read) # Asked PROVE At = End(request)
    <3>1. CASE left = 0
      <4>1. consumed_content = content_len
        BY <1>2, <1>3, <1>4, <2>2, <3>1 DEF Least
      <4>2. QED
        BY <1>2, <1>5, <4>1 DEF Least
    <3>2. CASE left # 0
      <4>1. At = Total(request)
        BY <1>2, <1>3, <2>2, <3>2 DEF Whole
      <4>2. QED
        BY <1>2, <1>5, <4>1 DEF Least
    <3>3. QED
      BY <3>1, <3>2
  <2>3. QED
    BY <2>1, <2>2
<1>7. ASSUME Whole, reader = "handler" PROVE Enough(read)
  <2>1. Lists(read, At)
    BY <1>1, <1>7 DEF IInv, ReadInv
  <2>2. QED
    BY <1>4, <1>5, <1>6, <1>7, <2>1 DEF Enough
<1>8. ASSUME Whole, reader = "discard", read = <<>> PROVE At >= End(request)
  <2>1. Len(read) = 0
    BY <1>8
  <2>2. At = End(request)
    BY <1>4, <1>6, <1>8, <2>1
  <2>3. QED
    BY <1>2, <2>2
<1>9. UNCHANGED <<request_len, consumed_content, is_chunked, must_close>>
  BY <1>1 DEF message
<1>10. QED
  BY <1>1, <1>2, <1>7, <1>8, <1>9, ReturnsWell

LEMMA ChunkBrokenKeepsWhole ==
    ASSUME IInv, WholeInv, ChunkBroken
    PROVE  WholeInv'
<1>1. /\ pc = "mg_read_inner" /\ Reading /\ is_chunked' = 2 /\ MgReadReturns(<<>>) /\ purpose # "plain"
      /\ UNCHANGED <<socket, server, request_len, consumed_content, must_close, cut>>
  BY DEF ChunkBroken, Reading
<1>2. ReadingBody /\ request.chunked
  BY <1>1, ReadFacts, RequestFacts DEF IInv, ReadInv
<1>3. ~Whole
  BY <1>1, ReadIsDone DEF ChunkBroken
<1>4. <<>> \in Seq(Position) /\ (is_chunked' = 0 <=> ~request.chunked)
  BY <1>1, <1>2
<1>5. QED
  BY <1>1, <1>2, <1>3, <1>4, ReturnsWell

LEMMA TrailerKeepsWhole ==
    ASSUME IInv, WholeInv, Trailer
    PROVE  WholeInv'
<1>1. /\ pc = "mg_read_inner" /\ Reading /\ purpose = "trailer" /\ is_chunked' = 4
      /\ MgReadReturns(all_read) /\ ReadOne("end")
      /\ UNCHANGED <<socket, server, request_len, consumed_content, must_close, cut>>
  BY DEF Trailer, Reading
<1>2. /\ ReadingBody /\ request.chunked /\ TypeOK /\ InSync /\ is_chunked # 0
      /\ all_read \in Seq(Position) /\ len \in Nat /\ At \in Nat
  BY <1>1, ReadFacts, RequestFacts DEF IInv, ReadInv, TypeOK
<1>3. Whole => At = Total(request) /\ At = End(request)
  BY <1>1, <1>2, ReadIsDone, RequestFacts DEF End
<1>4. Whole => AtChunk'
  <2>1. At' = At /\ Total(request)' = Total(request)
    BY <1>1, SameUnits DEF At, socket
  <2>2. QED
    BY <1>1, <1>3, <2>1 DEF AtChunk
<1>5. ASSUME Whole, reader = "handler" PROVE Enough(all_read)
  <2>1. Lists(all_read, At)
    BY <1>1, <1>5, FrameRead
  <2>2. Len(all_read) + len = HandlerBuf
    BY <1>2, <1>5 DEF WholeInv, AskedInv, Asked
  <2>3. Len(all_read) <= HandlerBuf
    BY <1>2, <2>2, HandlerBufAssumption
  <2>4. At \in request.head..End(request)
    BY <1>1, <1>2, ReadFacts, AtEnd
  <2>5. QED
    BY <1>3, <1>5, <2>1, <2>3, <2>4 DEF Enough
<1>6. Whole => At >= End(request)
  BY <1>2, <1>3
<1>7. QED
  BY <1>1, <1>2, <1>4, <1>5, <1>6, ReturnsWell

LEMMA ChunkEndKeepsWhole ==
    ASSUME IInv, WholeInv, ChunkEnd
    PROVE  WholeInv'
<1> USE DEF ChunkEnd, socket, server, message, call, outcome
<1>1. pc = "mg_read_inner" /\ Reading /\ purpose = "crlf" /\ Len(read) = 1
  BY DEF Reading, ReadOne
<1>2. ReadingBody /\ is_chunked = 1 /\ consumed_content = content_len
  BY <1>1, ReadFacts DEF IInv, ReadInv
<1>3. Len(all_read) + len = Asked
  BY <1>2 DEF WholeInv, AskedInv
<1>4. Whole /\ request.chunked => AtChunk'
  <2>1. Whole => SizeNext(At)
    BY <1>1, ReadIsDone
  <2>2. At' = At
    BY DEF At
  <2>3. QED
    BY <1>2, <2>1, <2>2, SameUnits DEF AtChunk, SizeNext
<1>5. Asked' = Asked
  BY DEF Asked
<1>6. QED
  BY <1>2, <1>3, <1>4, <1>5, LoopsWell

LEMMA ChunkDataKeepsWhole ==
    ASSUME IInv, WholeInv, ChunkData
    PROVE  WholeInv'
<1>1. /\ pc = "mg_read_inner" /\ Reading /\ purpose = "data" /\ pc \notin {"close", "idle"}
      /\ all_read' = all_read \o read /\ len' = len - Len(read)
      /\ UNCHANGED <<socket, server, data_len, request_len, is_chunked, must_close, reader, cut>>
  BY DEF ChunkData, Reading
<1>2. /\ ReadingBody /\ is_chunked = 1 /\ TypeOK /\ len \in Nat /\ Len(read) \in Nat
      /\ content_len \in Nat /\ consumed_content \in Nat /\ consumed_content <= content_len
      /\ request_len \in Nat /\ At = request_len + consumed_content
      /\ all_read \in Seq(Position) /\ read \in Seq(Position)
  <2>1. is_chunked = 1
    BY <1>1 DEF IInv, ReadInv
  <2>2. TypeOK /\ all_read \in Seq(Position) /\ read \in Seq(Position)
    BY DEF IInv, TypeOK
  <2>3. QED
    BY <1>1, <2>1, <2>2, ReadFacts
<1>3. Len(all_read') + len' = Asked' /\ is_chunked' # 0
  <2>1. Len(all_read) + len = Asked
    BY <1>2 DEF WholeInv, AskedInv
  <2>2. Len(all_read \o read) = Len(all_read) + Len(read) /\ Len(all_read) \in Nat
    BY <1>2, ConcatProperties
  <2>3. Asked' = Asked /\ is_chunked' = is_chunked
    BY <1>1 DEF Asked
  <2>4. QED
    BY <1>1, <1>2, <2>1, <2>2, <2>3
<1>4. Whole /\ request.chunked => CrlfNext(request_len + content_len)
  BY <1>1 DEF WholeInv, FrameInv
<1>5. CASE consumed_content = content_len
  <2>1. mg_read_inner(1, "crlf", content_len + 1)
    BY <1>5 DEF ChunkData
  <2>2. /\ pc' = "pull_all" /\ purpose' = "crlf" /\ Before' = At
        /\ Len(read') + left' = Least(1, (content_len + 1) - consumed_content)
        /\ UNCHANGED <<request, arrived, clientOpen, stop_flag>>
    <3>1. content_len + 1 \in Nat /\ content_len <= content_len + 1
      BY <1>2
    <3>2. QED
      BY <1>1, <1>2, <2>1, <3>1, InnerAsks DEF Purposes
  <2>3. Len(read') + left' = 1
    BY <1>2, <1>5, <2>2 DEF Least
  <2>4. Whole /\ request.chunked => CrlfNext(Before)'
    BY <1>2, <1>4, <1>5, <2>2, SameUnits DEF CrlfNext
  <2>5. QED
    BY <1>1, <1>3, <2>2, <2>3, <2>4, ReadBegins
<1>6. CASE consumed_content # content_len
  <2>1. pc' = "mg_read" /\ UNCHANGED <<content_len, consumed_content>>
    BY <1>6 DEF ChunkData
  <2>2. UNCHANGED <<request, arrived, clientOpen, stop_flag>>
    BY <1>1 DEF socket, server
  <2>3. Whole /\ request.chunked => AtChunk'
    BY <1>1, <1>2, <1>4, <1>6, <2>1, <2>2, SameUnits DEF AtChunk, CrlfNext
  <2>4. QED
    BY <1>1, <1>3, <2>1, <2>2, <2>3, LoopsWell
<1>7. QED
  BY <1>5, <1>6

(* After the size line come so much data, a CRLF, and the next size line.    *)
LEMMA AfterSize ==
    ASSUME TypeOK, Chunks(request), NEW p \in Nat, UnitIs(p, "size")
    PROVE  /\ UnitAt(p).size \in Nat
           /\ UnitAt(p).size > 0 => CrlfNext(p + UnitAt(p).size)
           /\ UnitAt(p).size = 0 => EndNext(p)
<1> DEFINE i == p - request.head
           size == UnitAt(p).size
<1>1. /\ request.head \in Nat /\ Len(request.body) \in Nat
      /\ Total(request) = request.head + Len(request.body)
      /\ \A k \in 1..Len(request.body) : request.body[k] \in Unit
  BY RequestFacts
<1>2. /\ i \in 1..Len(request.body) /\ i \in Nat /\ p = request.head + i
      /\ request.body[i].kind = "size" /\ size = request.body[i].size
  BY <1>1 DEF UnitIs, UnitAt
<1>3. size \in Nat
  <2>1. request.body[i] \in Unit
    BY <1>1, <1>2
  <2>2. QED
    BY <1>2, <2>1 DEF Unit
<1>4. \A k \in 1..Len(request.body) : UnitIs(request.head + k, request.body[k].kind)
  <2>1. ASSUME NEW k \in 1..Len(request.body) PROVE
          /\ request.head + k \in (request.head + 1)..Total(request)
          /\ UnitAt(request.head + k) = request.body[k]
    <3>1. (request.head + k) - request.head = k
      BY <1>1
    <3>2. QED
      BY <1>1, <3>1 DEF UnitAt
  <2>2. QED
    BY <2>1 DEF UnitIs
<1> HIDE DEF i, size
<1>5. CASE size > 0
  <2>1. /\ i + size + 2 <= Len(request.body) /\ request.body[i + size + 1].kind = "crlf"
        /\ request.body[i + size + 2].kind = "size"
    BY <1>2, <1>5 DEF Chunks
  <2>2. UnitIs(request.head + (i + size + 1), "crlf") /\ UnitIs(request.head + (i + size + 2), "size")
    <3>1. i + size + 1 \in 1..Len(request.body) /\ i + size + 2 \in 1..Len(request.body)
      <4>1. /\ i \in Nat /\ size \in Nat /\ Len(request.body) \in Nat
            /\ i + size + 2 <= Len(request.body)
        BY <1>1, <1>2, <1>3, <2>1
      <4>2. QED
        BY <4>1
    <3>2. QED
      BY <1>4, <2>1, <3>1
  <2>3. /\ (p + size) + 1 = request.head + (i + size + 1) /\ (p + size) + 2 = request.head + (i + size + 2)
    <3>1. i \in Nat /\ size \in Nat /\ request.head \in Nat /\ p = request.head + i
      BY <1>1, <1>2, <1>3
    <3>2. QED
      BY <3>1
  <2>4. CrlfNext(p + size)
    BY <2>2, <2>3 DEF CrlfNext
  <2>5. QED
    BY <1>3, <1>5, <2>4 DEF size
<1>6. CASE size = 0
  <2>1. i + 1 = Len(request.body) /\ request.body[i + 1].kind = "end"
    <3>1. i \in 1..Len(request.body) /\ request.body[i].kind = "size" /\ request.body[i].size = 0
      BY <1>2, <1>6
    <3>2. QED
      BY Zenon, <3>1 DEF Chunks
  <2>2. p + 1 = request.head + (i + 1) /\ i + 1 \in 1..Len(request.body) /\ p + 1 = Total(request)
    <3>1. /\ i \in Nat /\ request.head \in Nat /\ Len(request.body) \in Nat /\ p = request.head + i
          /\ i + 1 = Len(request.body) /\ Total(request) = request.head + Len(request.body)
      BY <1>1, <1>2, <2>1
    <3>2. QED
      BY <3>1
  <2>3. EndNext(p)
    BY <1>4, <2>1, <2>2 DEF EndNext
  <2>4. QED
    BY <1>3, <1>6, <2>3 DEF size
<1>7. QED
  BY <1>3, <1>5, <1>6

LEMMA ChunkSizeKeepsWhole ==
    ASSUME IInv, WholeInv, ChunkSize
    PROVE  WholeInv'
<1>1. /\ pc = "mg_read_inner" /\ Reading /\ purpose = "size" /\ ReadOne("size") /\ Len(read) = 1
      /\ pc \notin {"close", "idle"}
  BY DEF ChunkSize, Reading, ReadOne
<1>2. /\ ReadingBody /\ is_chunked = 1 /\ consumed_content = content_len /\ TypeOK
      /\ content_len \in Nat /\ request_len \in Nat /\ At = request_len + consumed_content
      /\ At \in Nat /\ request.chunked /\ consumed_content \in Nat /\ read = Run(At - 1, 1)
  BY <1>1, ReadFacts, RequestFacts DEF IInv, ReadInv
<1>3. read[1] = At
  <2>1. Run(At - 1, 1)[1] = (At - 1) + 1
    BY <1>2 DEF Run
  <2>2. QED
    BY <1>2, <2>1
<1>4. Len(all_read) + len = Asked
  BY <1>2 DEF WholeInv, AskedInv
<1> DEFINE size == UnitAt(At).size
<1>5. Whole => /\ size \in Nat /\ (size > 0 => CrlfNext(At + size)) /\ (size = 0 => EndNext(At))
  <2>1. Whole => UnitIs(At, "size")
    BY <1>1, ReadIsDone
  <2>2. Whole => Chunks(request)
    BY <1>2, RequestsAssumption DEF TypeOK, Whole
  <2>3. QED
    BY <1>2, <2>1, <2>2, AfterSize
<1>6. \/ /\ size > 0 /\ content_len' = content_len + size /\ pc' = "mg_read"
         /\ UNCHANGED <<is_chunked, consumed_content>>
      \/ size = 0 /\ is_chunked' = 3 /\ mg_read_inner(1, "trailer", content_len + 1)
  BY <1>3 DEF ChunkSize
<1>7. UNCHANGED <<socket, server, data_len, request_len, must_close, reader, len, all_read, cut>>
  BY DEF ChunkSize
<1>8. Asked' = Asked
  BY <1>7 DEF Asked
<1> HIDE DEF size
<1>9. CASE size > 0
  <2>1. /\ content_len' = content_len + size /\ pc' = "mg_read"
        /\ UNCHANGED <<is_chunked, consumed_content>>
    BY <1>6, <1>9
  <2>2. UNCHANGED <<request, arrived, clientOpen, stop_flag>>
    BY <1>7 DEF socket, server
  <2>3. Whole => AtChunk'
    <3>1. HAVE Whole
    <3>2. size \in Nat /\ CrlfNext(At + size)
      BY <1>5, <1>9, <3>1
    <3>3. (request_len + content_len)' = At + size /\ consumed_content' < content_len'
      BY <1>2, <1>7, <1>9, <2>1, <3>2
    <3>4. CrlfNext(request_len + content_len)'
      BY <2>2, <3>2, <3>3, SameUnits DEF CrlfNext
    <3>5. QED
      BY <1>2, <2>1, <3>3, <3>4 DEF AtChunk
  <2>4. QED
    BY <1>1, <1>2, <1>4, <1>7, <1>8, <2>1, <2>2, <2>3, LoopsWell
<1>10. CASE size = 0
  <2>1. is_chunked' = 3 /\ mg_read_inner(1, "trailer", content_len + 1)
    BY <1>6, <1>10
  <2>2. /\ pc' = "pull_all" /\ purpose' = "trailer" /\ Before' = At
        /\ Len(read') + left' = Least(1, (content_len + 1) - consumed_content)
        /\ UNCHANGED <<request, arrived, clientOpen, stop_flag>>
    <3>1. content_len + 1 \in Nat /\ content_len <= content_len + 1
      BY <1>2
    <3>2. QED
      BY <1>2, <1>7, <2>1, <3>1, InnerAsks DEF Purposes
  <2>3. Len(read') + left' = 1
    BY <1>2, <2>2 DEF Least
  <2>4. Whole => EndNext(Before)'
    BY <1>5, <1>10, <2>2, SameUnits DEF EndNext
  <2>5. QED
    BY <1>1, <1>4, <1>7, <1>8, <2>1, <2>2, <2>3, <2>4, ReadBegins
<1>11. QED
  BY <1>6, <1>9, <1>10

-----------------------------------------------------------------------------
(* The handler, and the discarding that follows it *)

(* In front of the body the first chunk is next. *)
LEMMA FirstChunk ==
    ASSUME IInv, pc = "request_handler", Whole, request.chunked
    PROVE  AtChunk
<1>1. /\ TypeOK /\ request_len = request.head /\ consumed_content = 0 /\ is_chunked = 1
      /\ content_len = 0
  BY DEF IInv, HeadInv, Beginning, HandlerInv
<1>2. /\ Chunks(request) /\ request.head \in Nat /\ Len(request.body) \in Nat
      /\ Total(request) = request.head + Len(request.body) /\ request.body \in Seq(Unit)
  <2>1. request \in Request /\ Chunks(request)
    BY <1>1, RequestsAssumption DEF TypeOK, Whole
  <2>2. request.body \in Seq(Unit)
    BY <2>1 DEF Request
  <2>3. QED
    BY <1>1, <2>1, <2>2, RequestFacts
<1>3. At = request.head
  BY <1>1, <1>2 DEF At
<1>4. request.body[1].kind = "size" /\ Len(request.body) >= 1
  BY <1>2 DEF Chunks
<1>5. UnitIs(request.head + 1, "size")
  <2>1. (request.head + 1) - request.head = 1 /\ request.head + 1 \in (request.head + 1)..Total(request)
    BY <1>2, <1>4
  <2>2. QED
    BY <1>4, <2>1 DEF UnitIs, UnitAt
<1>6. QED
  BY <1>1, <1>3, <1>5 DEF AtChunk, SizeNext

LEMMA HandlerKeepsWhole ==
    ASSUME IInv, WholeInv, request_handler
    PROVE  WholeInv'
<1>1. pc = "request_handler" /\ UNCHANGED <<socket, server, message, purpose, left, read, taken, cut>>
  BY DEF request_handler
<1>2. ~must_close /\ (is_chunked = 0 <=> ~request.chunked) /\ TypeOK
  BY <1>1, HandlerStarts DEF WholeInv, OrderInv
<1>3. UNCHANGED <<request, arrived, clientOpen, stop_flag, request_len, content_len, consumed_content,
                  is_chunked, must_close, cut>>
  BY <1>1 DEF socket, server, message
<1>4. Whole /\ request.chunked => AtChunk'
  <2>1. At' = At
    BY <1>3 DEF At
  <2>2. QED
    BY <1>1, <1>3, <2>1, FirstChunk, SameUnits DEF AtChunk, SizeNext, CrlfNext
<1>5. CASE \E who \in {"handler", "discard"} :
              CallMgRead(who, IF who = "handler" THEN HandlerBuf ELSE DiscardBuf)
  <2>1. pc' = "mg_read" /\ len' = Asked' /\ all_read' = <<>>
    BY <1>5 DEF CallMgRead, Asked
  <2>2. Len(all_read') + len' = Asked'
    BY <2>1, HandlerBufAssumption, DiscardBufAssumption DEF Asked
  <2>3. QED
    BY <1>1, <1>3, <1>4, <2>1, <2>2, LoopsWell
<1>6. CASE request.method # "POST" /\ pc' = "answer" /\ UNCHANGED <<reader, len, all_read>>
  <2>1. OpenInv' /\ OrderInv'
    BY <1>1, <1>2, <1>3, <1>6, StaysOpen DEF WholeInv, OrderInv
  <2>2. ~ReadingBody' /\ ~Reading' /\ (Whole' <=> Whole)
    BY <1>3, <1>6 DEF ReadingBody, Reading, Pulling, Whole
  <2>3. AskedInv' /\ FrameInv'
    BY <1>3, <1>4, <1>6, <2>2 DEF AskedInv, FrameInv
  <2>4. reader = "none"
    BY <1>1 DEF IInv, HeadInv, Beginning
  <2>5. TakenInv' /\ NothingLeftUnread'
    BY <1>6, <2>4 DEF TakenInv, NothingLeftUnread
  <2>6. QED
    BY <2>1, <2>3, <2>5 DEF WholeInv
<1>7. QED
  BY <1>2, <1>5, <1>6 DEF request_handler, discard_unread_request_data

LEMMA AnswerKeepsWhole ==
    ASSUME IInv, WholeInv, Answer
    PROVE  WholeInv'
<1>1. pc = "answer" /\ discard_unread_request_data /\ UNCHANGED <<socket, server, message, cut>>
  BY DEF Answer
<1>2. CallMgRead("discard", DiscardBuf)
  BY <1>1 DEF WholeInv, OrderInv, discard_unread_request_data
<1>3. pc' = "mg_read" /\ len' = Asked' /\ Len(all_read') + len' = Asked'
  BY <1>2, DiscardBufAssumption DEF CallMgRead, Asked
<1>4. UNCHANGED <<request, arrived, clientOpen, stop_flag, request_len, content_len, consumed_content,
                  is_chunked, must_close, cut>>
  BY <1>1 DEF socket, server, message
<1>5. Whole /\ request.chunked => AtChunk'
  <2>1. At' = At
    BY <1>4 DEF At
  <2>2. Whole /\ request.chunked => AtChunk
    BY <1>1 DEF WholeInv, FrameInv
  <2>3. QED
    BY <1>4, <2>1, <2>2, SameUnits DEF AtChunk, SizeNext, CrlfNext
<1>6. QED
  BY <1>1, <1>3, <1>4, <1>5, LoopsWell

-----------------------------------------------------------------------------
(* How much is enough *)

DataUpTo(p) == {q \in (request.head + 1)..p : IsData(q)}

(* What lists the data up to a position has as many units as there are. *)
LEMMA ListsAll ==
    ASSUME TypeOK, NEW s \in Seq(Position), NEW p \in Nat, Lists(s, p)
    PROVE  IsFiniteSet(DataUpTo(p)) /\ Len(s) = Cardinality(DataUpTo(p))
<1>1. Len(s) \in Nat /\ s \in [1..Len(s) -> Position] /\ Position \subseteq Int
  <2>1. Position \subseteq Int
    BY RequestFacts DEF Position
  <2>2. QED
    BY <2>1
<1>2. s \in [1..Len(s) -> DataUpTo(p)]
  BY <1>1 DEF Lists, DataUpTo
<1>3. ASSUME NEW i \in 1..Len(s), NEW j \in 1..Len(s), s[i] = s[j] PROVE i = j
  <2>1. s[i] \in Int /\ ~(s[i] < s[j]) /\ ~(s[j] < s[i])
    <3>1. s[i] \in Int
      BY <1>1
    <3>2. QED
      BY <1>3, <3>1
  <2>2. ~(i < j) /\ ~(j < i)
    BY <2>1 DEF Lists
  <2>3. QED
    BY <1>1, <2>2
<1>4. \A q \in DataUpTo(p) : \E i \in 1..Len(s) : s[i] = q
  BY DEF Lists, DataUpTo
<1>5. ExistsBijection(1..Len(s), DataUpTo(p))
  <2>1. s \in Bijection(1..Len(s), DataUpTo(p))
    BY <1>2, <1>3, <1>4 DEF Bijection, Injection, Surjection, IsInjective
  <2>2. QED
    BY <2>1 DEF ExistsBijection
<1>6. IsFiniteSet(1..Len(s)) /\ Cardinality(1..Len(s)) = Len(s)
  <2>1. 1 \in Int /\ Len(s) \in Int
    BY <1>1
  <2>2. IsFiniteSet(1..Len(s)) /\ Cardinality(1..Len(s)) = IF 1 > Len(s) THEN 0 ELSE Len(s) - 1 + 1
    BY Zenon, <2>1, FS_Interval
  <2>3. QED
    BY <1>1, <2>2
<1>7. QED
  BY <1>5, <1>6, FS_Bijection

(* All of the body, or as much of it as the handler asked for. *)
LEMMA EnoughIsLeast ==
    ASSUME TypeOK, NEW s \in Seq(Position), Enough(s)
    PROVE  Len(s) = Least(HandlerBuf, DataLen)
<1>1. PICK p \in request.head..End(request) :
         Lists(s, p) /\ (Len(s) = HandlerBuf \/ (Len(s) <= HandlerBuf /\ p = End(request)))
  BY DEF Enough
<1>2. End(request) \in Nat /\ p \in Nat /\ request.head \in Nat /\ p <= End(request)
  BY RequestFacts DEF End, Least
<1>3. Len(s) = Cardinality(DataUpTo(p)) /\ Len(s) \in Nat
  BY <1>1, <1>2, ListsAll
<1>4. IsFiniteSet(DataUpTo(End(request))) /\ DataLen = Cardinality(DataUpTo(End(request)))
  <2>1. IsFiniteSet((request.head + 1)..End(request))
    <3>1. request.head + 1 \in Int /\ End(request) \in Int
      BY <1>2
    <3>2. QED
      BY Zenon, <3>1, FS_Interval
  <2>2. DataUpTo(End(request)) \in SUBSET ((request.head + 1)..End(request))
    BY DEF DataUpTo
  <2>3. QED
    BY <2>1, <2>2, FS_Subset DEF DataLen, DataUpTo
<1>5. Cardinality(DataUpTo(p)) <= DataLen /\ DataLen \in Nat
  <2>1. DataUpTo(p) \in SUBSET DataUpTo(End(request))
    BY <1>2 DEF DataUpTo
  <2>2. QED
    BY <1>4, <2>1, FS_Subset, FS_CardinalityType
<1>6. CASE Len(s) = HandlerBuf
  BY <1>3, <1>5, <1>6, HandlerBufAssumption DEF Least
<1>7. CASE Len(s) <= HandlerBuf /\ p = End(request)
  BY <1>3, <1>4, <1>5, <1>7, HandlerBufAssumption DEF Least
<1>8. QED
  BY <1>1, <1>6, <1>7

-----------------------------------------------------------------------------
(* The second invariant *)

LEMMA InitIsWhole == Init => WholeInv
<1> SUFFICES ASSUME Init PROVE WholeInv
  OBVIOUS
<1>1. pc = "idle" /\ reader = "none" /\ ~Reading /\ ~ReadingBody
  BY DEF Init, Reading, ReadingBody, Pulling
<1>2. QED
  BY <1>1 DEF WholeInv, OpenInv, OrderInv, AskedInv, FrameInv, TakenInv, NothingLeftUnread

LEMMA NextKeepsWhole == IInv /\ WholeInv /\ [Next]_vars => WholeInv'
<1> SUFFICES ASSUME IInv, WholeInv, [Next]_vars PROVE WholeInv'
  OBVIOUS
<1>1. CASE Client
  BY <1>1, ClientKeepsWhole, ConnectKeepsWhole DEF Client
<1>2. CASE Program
  BY <1>2, ProgramKeepsWhole DEF Program
<1>3. CASE Worker
  BY <1>3, HeadKeepsWhole, WaitingKeepsWhole, PieceKeepsWhole, MgReadKeepsWhole,
     PlainReadKeepsWhole, ChunkBrokenKeepsWhole, ChunkDataKeepsWhole, ChunkEndKeepsWhole,
     ChunkSizeKeepsWhole, TrailerKeepsWhole, HandlerKeepsWhole, AnswerKeepsWhole DEF Worker
<1>4. CASE UNCHANGED vars
  <2>1. UNCHANGED <<Control, received, must_close, arrived, clientOpen, stop_flag, cut>>
    BY <1>4 DEF vars, Control, socket, server, message, call, outcome
  <2>2. OpenInv'
    BY <2>1 DEF WholeInv, OpenInv, Control, Total
  <2>3. QED
    BY <2>1, <2>2, NothingMoves DEF WholeInv
<1>5. QED
  BY <1>1, <1>2, <1>3, <1>4 DEF Next

LEMMA AlwaysWhole == Spec => [](IInv /\ WholeInv)
<1>1. Init => IInv /\ WholeInv
  BY InitStep, InitIsWhole
<1>2. (IInv /\ WholeInv) /\ [Next]_vars => (IInv /\ WholeInv)'
  BY NextStep, NextKeepsWhole
<1>3. QED
  BY <1>1, <1>2, PTL DEF Spec

(* For every well-formed message, however it is framed, split and delayed:   *)
(* unless the connection is cut short, the one mg_read of request_handler    *)
(* gets the whole body, or as much of it as its buffer holds.                *)
THEOREM BodyIsTakenWhole == Spec => []BodyTakenWhole
<1>1. IInv /\ WholeInv => BodyTakenWhole
  <2> SUFFICES ASSUME IInv, WholeInv, pc = "answer", request.method = "POST", Whole
               PROVE  Len(taken) = Least(HandlerBuf, DataLen)
    BY DEF BodyTakenWhole, Whole
  <2>1. Enough(taken)
    BY DEF WholeInv, OrderInv, TakenInv
  <2>2. TypeOK /\ taken \in Seq(Position)
    BY DEF IInv, TypeOK
  <2>3. QED
    BY <2>1, <2>2, EnoughIsLeast
<1>2. QED
  BY <1>1, AlwaysWhole, PTL

(* When a connection is closed after the handler has answered, no unit of a  *)
(* well-formed message that came whole is unread: discard_unread_request_data *)
(* ends where the message does, whatever the handler left.                   *)
THEOREM AllIsRead == Spec => []NothingLeftUnread
<1>1. WholeInv => NothingLeftUnread
  BY DEF WholeInv
<1>2. QED
  BY <1>1, AlwaysWhole, PTL

-----------------------------------------------------------------------------
(***************************************************************************)
(* That the worker thread is not kept: the loops of read_message, pull_all, *)
(* mg_read and discard_unread_request_data end, whatever the message and   *)
(* however it comes, for each step of the worker uses up some of a measure *)
(* that only a new connection raises.                                      *)
(***************************************************************************)

(* The units not copied yet. *)
Todo == Total(request) - At

(* Where the worker is in the loop that receives. *)
Within == CASE pc \in {"read_message", "mg_read"} -> 4
            [] pc = "pull_all" -> 3
            [] pc = "poll" -> 2
            [] pc = "recv" -> 1
            [] OTHER -> 0

(* The handler reads before what it left is discarded. *)
Turn == IF reader = "handler" THEN 8 ELSE 2

(* A call of mg_read that copied anything may be followed by one more. *)
Copied == IF all_read # <<>> THEN 1 ELSE 0

(* Each unit is received, copied, and returned by one call of mg_read. *)
Rank ==
    CASE pc = "idle" -> 0
      [] pc = "close" -> 1
      [] pc = "get_message" -> 2
      [] pc = "answer" -> 7 + 9 * Todo
      [] pc = "request_handler" -> 13 + 9 * Todo
      [] pc = "get_request" -> 14 + 9 * Todo
      [] pc = "mg_read" -> Turn + Within + 9 * Todo + Copied
      [] Reading -> Turn + Within + 9 * Todo + 6 * Len(read) + Copied
      [] ReadingHead -> 14 + Within + 4 * (BufSize - data_len) + 9 * Total(request)

MostSteps == 18 + 4 * BufSize + 9 * Total(request)

(* No step but a new connection's raises the measure, and each of the worker's *)
(* lowers it.                                                                 *)
StepCounts == /\ Worker => Rank' < Rank
              /\ ~Worker /\ pc # "idle" => Rank' = Rank

(* The measure as a number, in each part of a request. *)
Measured ==
    /\ Rank \in Nat /\ Rank <= MostSteps
    /\ pc = "idle" => Rank = 0
    /\ pc = "close" => Rank = 1
    /\ pc = "get_message" => Rank = 2
    /\ pc = "answer" => Rank = 7 + 9 * Todo /\ Todo \in Nat
    /\ pc = "request_handler" => Rank = 13 + 9 * Todo /\ Todo \in Nat
    /\ pc = "get_request" => Rank = 14 + 9 * Todo /\ Todo \in Nat
    /\ pc = "mg_read" => Rank = Turn + 4 + 9 * Todo + Copied /\ Todo \in Nat
    /\ Reading => /\ Rank = Turn + Within + 9 * Todo + 6 * Len(read) + Copied
                  /\ Todo \in Nat /\ Len(read) \in Nat
    /\ ReadingHead => /\ Rank = 14 + Within + 4 * (BufSize - data_len) + 9 * Total(request)
                      /\ BufSize - data_len \in Nat /\ Total(request) \in Nat

LEMMA SmallParts ==
    /\ Turn \in {2, 8} /\ Copied \in {0, 1} /\ Within \in 0..4
    /\ (reader = "handler" => Turn = 8) /\ (reader # "handler" => Turn = 2)
    /\ (pc \in {"read_message", "mg_read"} => Within = 4) /\ (pc = "pull_all" => Within = 3)
    /\ (pc = "poll" => Within = 2) /\ (pc = "recv" => Within = 1)
    /\ (pc = "mg_read_inner" => Within = 0)
BY DEF Turn, Copied, Within

LEMMA IsMeasured ==
    ASSUME IInv PROVE Measured
<1>1. /\ TypeOK /\ BufSize \in Nat /\ data_len \in 0..BufSize /\ Total(request) \in Nat
      /\ pc \in Pcs /\ request.head \in Nat
  BY BufSizeAssumption, RequestFacts DEF IInv, TypeOK
<1>2. CASE pc \in {"idle", "close", "get_message"}
  BY <1>1, <1>2 DEF Measured, Rank, MostSteps, Reading, ReadingHead, Pulling
<1>3. CASE ReadingHead
  <2>1. Rank = 14 + Within + 4 * (BufSize - data_len) + 9 * Total(request)
    BY <1>3 DEF Rank, Reading, ReadingHead, Pulling
  <2>2. QED
    BY <1>1, <1>3, <2>1, SmallParts DEF Measured, MostSteps, Reading, ReadingHead, Pulling
<1>4. CASE Beginning \/ pc = "answer"
  <2>1. Todo \in Nat /\ Todo <= Total(request)
    <3>1. CASE Beginning
      BY <1>1, <3>1 DEF IInv, HeadInv, TypeOK, Todo, At
    <3>2. CASE pc = "answer"
      BY <1>1, <3>2, Bounds DEF IInv, AnswerInv, Todo
    <3>3. QED
      BY <1>4, <3>1, <3>2
  <2>2. QED
    <3>1. Rank = (CASE pc = "answer" -> 7 [] pc = "request_handler" -> 13 [] OTHER -> 14) + 9 * Todo
      BY <1>4 DEF Rank, Reading, ReadingHead, Pulling, Beginning
    <3>2. ~Reading /\ ~ReadingHead /\ pc \notin {"idle", "close", "get_message", "mg_read"}
      BY <1>4 DEF Reading, ReadingHead, Pulling, Beginning
    <3>3. Rank \in Nat /\ Rank <= MostSteps
      BY <1>1, <2>1, <3>1 DEF MostSteps
    <3>4. CASE pc = "answer"
      BY <2>1, <3>1, <3>2, <3>3, <3>4 DEF Measured
    <3>5. CASE pc = "request_handler"
      BY <2>1, <3>1, <3>2, <3>3, <3>5 DEF Measured
    <3>6. CASE pc = "get_request"
      BY <2>1, <3>1, <3>2, <3>3, <3>6 DEF Measured
    <3>7. QED
      BY <1>4, <3>4, <3>5, <3>6 DEF Beginning
<1>5. CASE ReadingBody
  <2>1. Todo \in Nat /\ Todo <= Total(request)
    BY <1>1, <1>5, Bounds DEF IInv, BodyInv, Todo
  <2>2. CASE pc = "mg_read"
    <3>1. Rank = Turn + 4 + 9 * Todo + Copied
      BY <2>2, SmallParts DEF Rank, Reading, ReadingHead, Pulling
    <3>2. QED
      BY <1>1, <2>1, <2>2, <3>1, SmallParts DEF Measured, MostSteps, Reading, ReadingHead, Pulling
  <2>3. CASE Reading
    <3>1. Rank = Turn + Within + 9 * Todo + 6 * Len(read) + Copied
      BY <2>3 DEF Rank, Reading, ReadingHead, Pulling
    <3>2. Len(read) \in Nat /\ Len(read) <= consumed_content
      BY <2>3 DEF IInv, ReadInv, TypeOK
    <3>3. Todo + Len(read) <= Total(request)
      BY <1>1, <1>5, <3>2, Bounds DEF IInv, BodyInv, Todo
    <3>4. QED
      <4>1. /\ pc \notin {"idle", "close", "get_message", "answer", "request_handler", "get_request",
                          "mg_read"}
            /\ ~ReadingHead
        BY <2>3 DEF Reading, ReadingHead, Pulling
      <4>2. Rank \in Nat /\ Rank <= MostSteps
        BY <1>1, <2>1, <3>1, <3>2, <3>3, SmallParts DEF MostSteps
      <4>3. QED
        BY <2>1, <3>1, <3>2, <4>1, <4>2 DEF Measured
  <2>4. QED
    BY <1>5, <2>2, <2>3 DEF ReadingBody
<1>6. QED
  BY <1>1, <1>2, <1>3, <1>4, <1>5 DEF Pcs, ReadingHead, ReadingBody, Reading, Beginning, Pulling

(* The reading of the head, and what refuses a message. *)
LEMMA HeadCounts ==
    ASSUME IInv, Measured, Measured',
           ReadMessage \/ RecvHead \/ GetMessageFails \/ Refuse \/ GetRequest
    PROVE  Rank' < Rank
<1>1. CASE ReadMessage
  <2>1. pc = "read_message" /\ ReadingHead /\ UNCHANGED <<request, data_len>>
    BY <1>1 DEF ReadMessage, ReadingHead, socket
  <2>2. pc' = "get_message" \/ (pc' = "poll" /\ ReadingHead')
    BY <1>1 DEF ReadMessage, ReadingHead, Pulling
  <2>3. Within = 4 /\ (pc' = "poll" => Within' = 2)
    BY <2>1 DEF Within
  <2>4. QED
    BY <2>1, <2>2, <2>3 DEF Measured, Total
<1>2. CASE RecvHead
  <2>1. pc = "recv" /\ purpose = "head" /\ ReadingHead /\ request' = request
    BY <1>2 DEF RecvHead, ReadingHead, Pulling
  <2>2. data_len' > data_len /\ data_len \in Nat /\ data_len' \in Nat
    <3>1. left > 0 /\ received < arrived /\ left \in Nat /\ received \in Nat /\ arrived \in Nat /\ data_len \in Nat
      BY <1>2, <2>1, RequestFacts DEF IInv, HeadInv, TypeOK, Pulling, RecvHead
    <3>2. QED
      BY <1>2, <3>1 DEF RecvHead, Least
  <2>3. Within = 1 /\ (pc' = "read_message" => Within' = 4)
    BY <2>1 DEF Within
  <2>4. CASE pc' = "read_message"
    <3>1. ReadingHead' /\ Total(request)' = Total(request)
      BY <2>1, <2>4 DEF ReadingHead, Total
    <3>2. /\ Rank = 14 + 1 + 4 * (BufSize - data_len) + 9 * Total(request)
          /\ Rank' = 14 + 4 + 4 * (BufSize - data_len') + 9 * Total(request)
          /\ BufSize \in Nat /\ Total(request) \in Nat
      BY <2>1, <2>3, <2>4, <3>1, BufSizeAssumption DEF Measured
    <3>3. QED
      BY <2>2, <3>2
  <2>5. CASE pc' = "get_message"
    BY <2>1, <2>3, <2>5 DEF Measured
  <2>6. CASE pc' = "get_request"
    <3>1. Todo' <= Total(request) /\ Todo' \in Nat
      <4>1. /\ request_len' = request.head /\ consumed_content' = 0 /\ request.head \in Nat
            /\ Total(request) \in Nat
        BY <1>2, <2>1, <2>6, RequestFacts DEF RecvHead, get_http_header_len, IInv, HeadInv
      <4>2. QED
        BY <2>1, <4>1 DEF Todo, At, Total
    <3>2. QED
      BY <2>1, <2>3, <2>6, <3>1, SMTT(30) DEF Measured
  <2>7. QED
    BY <1>2, <2>4, <2>5, <2>6 DEF RecvHead
<1>3. CASE GetMessageFails \/ Refuse
  BY <1>3 DEF GetMessageFails, Refuse, Measured
<1>4. CASE GetRequest
  <2>1. pc = "get_request" /\ Todo' = Todo
    BY <1>4 DEF GetRequest, Todo, At, Total, socket
  <2>2. pc' \in {"request_handler", "close"}
    BY <1>4 DEF GetRequest
  <2>3. QED
    BY <2>1, <2>2 DEF Measured
<1>5. QED
  BY <1>1, <1>2, <1>3, <1>4

(* Waiting, and receiving nothing. *)
LEMMA WaitingCounts ==
    ASSUME IInv, Measured, Measured', PollStopped \/ PollTimesOut \/ PollReady \/ RecvFails
    PROVE  Rank' < Rank
<1>1. /\ Pulling /\ request' = request
      /\ UNCHANGED <<data_len, consumed_content, purpose, reader, all_read, read>>
      /\ (purpose # "head" => request_len' = request_len)
  BY DEF PollStopped, PollTimesOut, PollReady, RecvFails, PullFails, Pulling, socket, message, call
<1>2. /\ pc = "recv" => pc' # "recv"
      /\ pc' \in {"recv", IF purpose = "head" THEN "get_message" ELSE "mg_read_inner"}
  BY DEF PollStopped, PollTimesOut, PollReady, RecvFails, PullFails
<1>3. Within >= 1 /\ Within' < Within /\ Within \in Nat /\ Within' \in Nat
  BY <1>1, <1>2 DEF Within, Pulling
<1>4. CASE purpose = "head"
  <2>1. ReadingHead /\ (pc' = "recv" => ReadingHead')
    BY <1>1, <1>4 DEF ReadingHead, Pulling
  <2>2. QED
    BY <1>1, <1>2, <1>3, <1>4, <2>1 DEF Measured, Total
<1>5. CASE purpose # "head"
  <2>1. Reading /\ Reading'
    BY <1>1, <1>2, <1>5 DEF Reading, Pulling
  <2>2. Todo' = Todo /\ Turn' = Turn /\ Copied' = Copied /\ read' = read
    BY <1>1, <1>5 DEF Todo, At, Total, Turn, Copied
  <2>3. QED
    <3>1. /\ Rank = Turn + Within + 9 * Todo + 6 * Len(read) + Copied
          /\ Rank' = Turn + Within' + 9 * Todo + 6 * Len(read) + Copied
          /\ Todo \in Nat /\ Len(read) \in Nat
      BY <2>1, <2>2 DEF Measured
    <3>2. QED
      BY <1>3, <3>1, SmallParts, SMTT(30)
<1>6. QED
  BY <1>4, <1>5

(* Receiving a piece of the body, or no more. *)
LEMMA PieceCounts ==
    ASSUME IInv, Measured, Measured', RecvBody \/ PullAll
    PROVE  Rank' < Rank
<1>1. CASE PullAll
  <2>1. /\ pc = "pull_all" /\ pc' \in {"poll", "mg_read_inner"}
        /\ UNCHANGED <<request, request_len, consumed_content, reader, all_read, read, purpose>>
    BY <1>1 DEF PullAll, socket, message, call
  <2>2. Within = 3 /\ Within' \in {0, 2}
    BY <2>1 DEF Within
  <2>3. Todo' = Todo /\ Turn' = Turn /\ Copied' = Copied /\ read' = read
    BY <2>1 DEF Todo, At, Total, Turn, Copied
  <2>4. Reading /\ Reading'
    <3>1. purpose # "head"
      BY <2>1 DEF IInv, ReadInv, Reading
    <3>2. QED
      BY <2>1, <3>1 DEF Reading, Pulling
  <2>5. QED
    <3>1. /\ Rank = Turn + Within + 9 * Todo + 6 * Len(read) + Copied
          /\ Rank' = Turn + Within' + 9 * Todo + 6 * Len(read) + Copied
          /\ Todo \in Nat /\ Len(read) \in Nat
      BY <2>3, <2>4 DEF Measured
    <3>2. QED
      BY <2>2, <3>1, SmallParts
<1>2. CASE RecvBody
  <2> DEFINE n == Least(left, arrived - received)
  <2>1. /\ pc = "recv" /\ purpose # "head" /\ Reading /\ pc' = "pull_all" /\ Reading'
        /\ UNCHANGED <<request, request_len, reader, all_read>>
        /\ read' = read \o Run(received, n) /\ consumed_content' = consumed_content + n
    BY <1>2 DEF RecvBody, Reading, Pulling
  <2>2. /\ n \in Nat /\ n > 0 /\ received \in Nat
    <3>1. left > 0 /\ received < arrived /\ left \in Nat /\ received \in Nat /\ arrived \in Nat
      BY <1>2, <2>1, RequestFacts DEF IInv, ReadInv, TypeOK, Pulling, RecvBody
    <3>2. QED
      BY <3>1 DEF Least
  <2> HIDE DEF n
  <2>3. Len(read') = Len(read) + n /\ Len(read) \in Nat
    <3>1. Run(received, n) \in Seq(Int) /\ Len(Run(received, n)) = n
      BY <2>2, RunFacts
    <3>2. read \in Seq(Int) /\ Len(read) \in Nat
      BY RequestFacts DEF IInv, TypeOK, Position
    <3>3. Len(read \o Run(received, n)) = Len(read) + Len(Run(received, n))
      BY <3>1, <3>2
    <3>4. QED
      BY <2>1, <3>1, <3>2, <3>3
  <2>4. Todo' = Todo - n /\ Todo \in Nat
    <3>1. request_len \in Nat /\ consumed_content \in Nat /\ Total(request) \in Nat /\ Todo \in Nat
      BY <2>1, ReadFacts, RequestFacts, Bounds DEF Measured
    <3>2. QED
      BY <2>1, <2>2, <3>1 DEF Todo, At, Total
  <2>5. Within = 1 /\ Within' = 3 /\ Turn' = Turn /\ Copied' = Copied
    BY <2>1 DEF Within, Turn, Copied
  <2>6. QED
    BY <2>1, <2>2, <2>3, <2>4, <2>5, SmallParts DEF Measured
<1>3. QED
  BY <1>1, <1>2

(* mg_read_inner begins: what lies in the buffer is copied at once. *)
LEMMA InnerCounts ==
    ASSUME IInv, Measured, Measured', ReadingBody, NEW want \in Nat, NEW why \in Purposes,
           NEW content \in Nat, content_len <= content, mg_read_inner(want, why, content),
           UNCHANGED <<socket, server, request_len, data_len, reader>>
    PROVE  /\ Rank' = Turn + 3 + 9 * Todo - 3 * Len(read') + Copied'
           /\ Len(read') \in Nat /\ Todo \in Nat
<1>1. pc' = "pull_all" /\ Reading' /\ Len(read') \in Nat /\ Before' = At
  BY InnerAsks
<1>2. request_len \in Nat /\ consumed_content \in Nat /\ Total(request) \in Nat /\ Todo \in Nat
  BY Bounds, RequestFacts DEF IInv, BodyInv, Measured, ReadingBody
<1>3. Todo' = Todo - Len(read')
  <2>1. consumed_content' = consumed_content + Len(read')
    <3>1. TypeOK /\ InSync
      BY DEF IInv, BodyInv
    <3>2. QED
      BY <1>2, <3>1, Bounds, InnerReads DEF InSync, server
  <2>2. Todo = Total(request) - (request_len + consumed_content)
    BY DEF Todo, At
  <2>3. Todo' = Total(request) - (request_len + consumed_content')
    BY DEF Todo, At, Total, socket
  <2>4. Len(read') \in Nat
    BY <1>1
  <2>5. QED
    BY <1>2, <2>1, <2>2, <2>3, <2>4
<1>4. Within' = 3 /\ Turn' = Turn /\ Turn \in Nat /\ Copied' \in Nat
  BY <1>1 DEF Within, Turn, Copied
<1>5. Rank' = Turn' + Within' + 9 * Todo' + 6 * Len(read') + Copied'
  BY <1>1 DEF Measured
<1>6. QED
  BY <1>1, <1>2, <1>3, <1>4, <1>5

(* mg_read returns: the handler goes on, the discarding reads again or ends. *)
LEMMA ReturnsCount ==
    ASSUME IInv, Measured, Measured', ReadingBody, NEW copied, MgReadReturns(copied),
           UNCHANGED <<request, request_len, consumed_content>>,
           reader = "discard" /\ copied # <<>> => Rank > 6 + 9 * Todo
    PROVE  Rank' < Rank
<1>1. /\ Todo \in Nat /\ Todo' = Todo /\ Rank >= Turn + 9 * Todo
  <2>1. Todo' = Todo
    BY DEF Todo, At, Total
  <2>2. CASE pc = "mg_read"
    BY <2>1, <2>2, SmallParts DEF Measured
  <2>3. CASE Reading
    <3>1. /\ Rank = Turn + Within + 9 * Todo + 6 * Len(read) + Copied
          /\ Todo \in Nat /\ Len(read) \in Nat
      BY <2>3 DEF Measured
    <3>2. QED
      BY <2>1, <3>1, SmallParts
  <2>4. QED
    BY <2>2, <2>3 DEF ReadingBody
<1>2. CASE reader = "handler" /\ pc' = "answer"
  <2>1. Rank' = 7 + 9 * Todo /\ Turn = 8
    BY <1>1, <1>2 DEF Measured, Turn
  <2>2. QED
    BY <1>1, <2>1 DEF Measured
<1>3. CASE reader = "discard" /\ copied # <<>> /\ CallMgRead("discard", DiscardBuf)
  <2>1. pc' = "mg_read" /\ Turn' = 2 /\ Copied' = 0
    BY <1>3 DEF CallMgRead, Turn, Copied
  <2>2. QED
    BY <1>1, <1>3, <2>1 DEF Measured
<1>4. CASE reader = "discard" /\ pc' = "close"
  <2>1. Rank' = 1 /\ Turn = 2
    BY <1>4 DEF Measured, Turn
  <2>2. QED
    BY <1>1, <2>1 DEF Measured
<1>5. QED
  BY <1>2, <1>3, <1>4 DEF MgReadReturns, DiscardMore

(* The head of the loop of mg_read. *)
LEMMA MgReadCounts ==
    ASSUME IInv, Measured, Measured', MgRead
    PROVE  Rank' < Rank
<1>1. /\ pc = "mg_read" /\ ReadingBody /\ UNCHANGED <<socket, server, data_len, request_len>>
  BY DEF MgRead, ReadingBody
<1>2. Rank = Turn + 4 + 9 * Todo + Copied /\ Todo \in Nat
  BY <1>1 DEF Measured
<1>3. len \in Nat /\ content_len \in Nat
  BY <1>1, Bounds DEF IInv, BodyInv, TypeOK
<1>4. ASSUME NEW want \in Nat, NEW why \in Purposes, NEW content \in Nat, content_len <= content,
             mg_read_inner(want, why, content), UNCHANGED <<reader, all_read>>
      PROVE  Rank' < Rank
  <2>1. Rank' = Turn + 3 + 9 * Todo - 3 * Len(read') + Copied' /\ Len(read') \in Nat
    BY <1>1, <1>4, InnerCounts
  <2>2. Copied' = Copied
    BY <1>4 DEF Copied
  <2>3. QED
    BY <1>2, <2>1, <2>2, SmallParts
<1>5. CASE is_chunked = 0 /\ mg_read_inner(len, "plain", content_len) /\ UNCHANGED <<reader, all_read>>
  BY <1>3, <1>4, <1>5 DEF Purposes
<1>6. CASE mg_read_inner(len, "data", content_len) /\ UNCHANGED <<reader, all_read>>
  BY <1>3, <1>4, <1>6 DEF Purposes
<1>7. CASE mg_read_inner(1, "size", content_len + 1) /\ UNCHANGED <<reader, all_read>>
  BY <1>3, <1>4, <1>7 DEF Purposes
<1>8. CASE MgReadReturns(IF len = 0 THEN all_read ELSE <<>>) /\ UNCHANGED consumed_content
  <2> DEFINE copied == IF len = 0 THEN all_read ELSE <<>>
  <2>1. copied # <<>> => Copied = 1
    BY DEF Copied
  <2>2. reader = "discard" => Turn = 2
    BY DEF Turn
  <2>3. reader = "discard" /\ copied # <<>> => Rank > 6 + 9 * Todo
    <3> HIDE DEF copied
    <3>1. QED
      BY <1>2, <2>1, <2>2
  <2>4. QED
    BY <1>1, <1>8, <2>3, ReturnsCount DEF socket
<1>9. QED
  BY <1>5, <1>6, <1>7, <1>8 DEF MgRead

(* What follows a read of mg_read_inner that copied something. *)
LEMMA AfterRead ==
    ASSUME IInv, Measured, pc = "mg_read_inner"
    PROVE  /\ Reading /\ ReadingBody /\ Todo \in Nat /\ Len(read) \in Nat
           /\ Rank = Turn + 9 * Todo + 6 * Len(read) + Copied
           /\ read # <<>> => Len(read) >= 1
<1>1. Reading /\ ReadingBody /\ Within = 0
  BY DEF Reading, ReadingBody, Within
<1>2. read # <<>> => Len(read) # 0
  BY DEF IInv, TypeOK
<1>3. /\ Rank = Turn + 0 + 9 * Todo + 6 * Len(read) + Copied /\ Todo \in Nat /\ Len(read) \in Nat
  BY <1>1 DEF Measured
<1>4. QED
  BY <1>1, <1>2, <1>3, SmallParts

LEMMA ReadReturnsCount ==
    ASSUME IInv, Measured, Measured', PlainRead \/ ChunkBroken \/ Trailer
    PROVE  Rank' < Rank
<1>1. /\ pc = "mg_read_inner" /\ UNCHANGED <<request, request_len, consumed_content>>
  BY DEF PlainRead, ChunkBroken, Trailer, socket, message
<1>2. /\ ReadingBody /\ Todo \in Nat /\ Len(read) \in Nat
      /\ Rank = Turn + 9 * Todo + 6 * Len(read) + Copied
      /\ read # <<>> => Len(read) >= 1
  BY <1>1, AfterRead
<1>3. Len(read) >= 1 => Rank > 6 + 9 * Todo
  BY <1>2, SmallParts
<1>4. CASE PlainRead
  BY <1>1, <1>2, <1>3, <1>4, ReturnsCount DEF PlainRead
<1>5. CASE ChunkBroken
  BY <1>1, <1>2, <1>5, ReturnsCount DEF ChunkBroken
<1>6. CASE Trailer
  BY <1>1, <1>2, <1>3, <1>6, ReturnsCount DEF Trailer, ReadOne
<1>7. QED
  BY <1>4, <1>5, <1>6

LEMMA ChunkCounts ==
    ASSUME IInv, Measured, Measured', ChunkData \/ ChunkEnd \/ ChunkSize
    PROVE  Rank' < Rank
<1>1. /\ pc = "mg_read_inner" /\ UNCHANGED <<socket, server, data_len, request_len, reader>>
  BY DEF ChunkData, ChunkEnd, ChunkSize, message, call
<1>2. /\ Reading /\ ReadingBody /\ Todo \in Nat /\ Rank >= Turn + 9 * Todo + 6 + Copied
  <2>1. Len(read) >= 1
    BY <1>1, AfterRead DEF ChunkData, ChunkEnd, ChunkSize, ReadOne
  <2>2. QED
    BY <1>1, <2>1, AfterRead, SmallParts
<1>3. content_len \in Nat /\ Rank \in Nat
  BY <1>2, ReadFacts DEF Measured
<1>4. Copied' \in {0, 1} /\ (all_read' = all_read => Copied' = Copied)
  BY DEF Copied
<1>5. ASSUME NEW why \in Purposes, mg_read_inner(1, why, content_len + 1)
      PROVE  Rank' < Rank
  <2>1. Rank' = Turn + 3 + 9 * Todo - 3 * Len(read') + Copied' /\ Len(read') \in Nat
    BY <1>1, <1>2, <1>3, <1>5, InnerCounts
  <2>2. QED
    BY <1>2, <1>3, <1>4, <2>1, SmallParts
<1>6. ASSUME pc' = "mg_read", consumed_content' = consumed_content
      PROVE  Rank' < Rank
  <2>1. Todo' = Todo /\ Turn' = Turn
    BY <1>1, <1>6 DEF Todo, At, Total, Turn, socket
  <2>2. Rank' = (Turn + 4 + 9 * Todo) + Copied'
    BY <1>6, <2>1 DEF Measured
  <2>3. Copied' = 0 \/ Copied' = 1
    BY <1>4
  <2>4. Rank' = Turn + 4 + 9 * Todo \/ Rank' = Turn + 5 + 9 * Todo
    <3>1. Turn + 4 + 9 * Todo \in Int /\ Turn + 5 + 9 * Todo = (Turn + 4 + 9 * Todo) + 1
      BY <1>2, SmallParts
    <3>2. QED
      BY <2>2, <2>3, <3>1
  <2>5. QED
    BY <1>2, <1>3, <2>4, SmallParts
<1>7. CASE ChunkData
  BY <1>5, <1>6, <1>7 DEF ChunkData, Purposes
<1>8. CASE ChunkEnd
  BY <1>6, <1>8 DEF ChunkEnd, message
<1>9. CASE ChunkSize
  BY <1>5, <1>6, <1>9 DEF ChunkSize, Purposes
<1>10. QED
  BY <1>7, <1>8, <1>9

(* The handler, and the discarding after it. *)
LEMMA HandlerCounts ==
    ASSUME IInv, Measured, Measured', request_handler \/ Answer \/ close_connection
    PROVE  Rank' < Rank
<1>1. UNCHANGED <<request, request_len, consumed_content>> /\ Todo' = Todo
  BY DEF request_handler, Answer, close_connection, socket, message, Todo, At, Total
<1>2. ASSUME NEW who \in {"handler", "discard"}, NEW want, CallMgRead(who, want)
      PROVE  pc' = "mg_read" /\ Copied' = 0 /\ Turn' = IF who = "handler" THEN 8 ELSE 2
  BY <1>2 DEF CallMgRead, Copied, Turn
<1>3. CASE request_handler
  <2>1. pc = "request_handler"
    BY <1>3 DEF request_handler
  <2>2. pc' \in {"close", "answer"} \/ (pc' = "mg_read" /\ Copied' = 0 /\ Turn' \in {2, 8})
    BY <1>2, <1>3 DEF request_handler, discard_unread_request_data
  <2>3. QED
    BY <1>1, <2>1, <2>2 DEF Measured
<1>4. CASE Answer
  <2>1. pc = "answer"
    BY <1>4 DEF Answer
  <2>2. pc' = "close" \/ (pc' = "mg_read" /\ Copied' = 0 /\ Turn' = 2)
    BY <1>2, <1>4 DEF Answer, discard_unread_request_data
  <2>3. QED
    BY <1>1, <2>1, <2>2 DEF Measured
<1>5. CASE close_connection
  BY <1>5 DEF close_connection, Measured
<1>6. QED
  BY <1>3, <1>4, <1>5

LEMMA WorkerCounts ==
    ASSUME IInv, Measured, Measured', Worker
    PROVE  Rank' < Rank
BY HeadCounts, WaitingCounts, PieceCounts, MgReadCounts, ReadReturnsCount, ChunkCounts,
   HandlerCounts DEF Worker

LEMMA OthersCount ==
    ASSUME Client \/ Program \/ UNCHANGED vars, pc # "idle"
    PROVE  Rank' = Rank
<1>1. UNCHANGED <<request, pc, data_len, request_len, consumed_content, reader, purpose, all_read, read>>
  BY DEF Client, Send, ClientCloses, ClientResets, Connect, Program, Stop, Start,
         mg_set_request_handler, vars, socket, message, call
<1>2. QED
  BY <1>1 DEF Rank, Turn, Within, Todo, At, Copied, Total, Reading, ReadingHead, Pulling

LEMMA AlwaysMeasured == Spec => [](IInv /\ Measured)
BY Inductive, IsMeasured, PTL

(* A connection takes the worker no more than MostSteps steps, each poll or   *)
(* receive counted, whatever the client sends and does and whenever the      *)
(* server is stopped: no loop of the reading turns without using anything up. *)
THEOREM WorkIsBounded == Spec => [](Rank \in 0..MostSteps) /\ [][StepCounts]_vars
<1>1. IInv /\ Measured => Rank \in 0..MostSteps
  <2> SUFFICES ASSUME IInv, Measured PROVE Rank \in 0..MostSteps
    OBVIOUS
  <2>1. Rank \in Nat /\ Rank <= MostSteps /\ MostSteps \in Int
    BY RequestFacts, BufSizeAssumption DEF Measured, MostSteps, IInv
  <2>2. QED
    BY <2>1
<1>2. (IInv /\ Measured) /\ (IInv /\ Measured)' /\ [Next]_vars => [StepCounts]_vars
  BY WorkerCounts, OthersCount DEF StepCounts, Next
<1>3. QED
  BY <1>1, <1>2, AlwaysMeasured, PTL DEF Spec

=============================================================================
