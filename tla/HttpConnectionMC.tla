-------------------------- MODULE HttpConnectionMC --------------------------
(* The requests of the run over HttpConnection. *)
EXTENDS HttpConnection

Plain == [flaw |-> "none", head |-> 2, trusted |-> TRUE, method |-> "POST", uri |-> "set",
          query |-> "none", chunked |-> FALSE, length |-> 2,
          body |-> [i \in 1..2 |-> [kind |-> "data", size |-> 0]], one |-> {1}]

D == [kind |-> "data", size |-> 0]
S(n) == [kind |-> "size", size |-> n]
C == [kind |-> "crlf", size |-> 0]
E == [kind |-> "end", size |-> 0]

Chunked == [Plain EXCEPT !.chunked = TRUE, !.length = 0,
                         !.body = <<S(2), D, D, C, S(1), D, C, S(0), E>>]

MCRequests == {
    Plain,
    [Plain EXCEPT !.length = 4, !.body = <<D, D, D, D, D>>],   \* longer than the handler's buffer
    [Plain EXCEPT !.length = 3],                               \* the client sends too little
    [Plain EXCEPT !.trusted = FALSE],
    [Plain EXCEPT !.uri = "below"],
    [Plain EXCEPT !.uri = "other"],
    [Plain EXCEPT !.method = "other"],
    [Plain EXCEPT !.method = "preflight"],
    [Plain EXCEPT !.method = "write"],
    [Plain EXCEPT !.method = "write", !.uri = "other"],
    [Plain EXCEPT !.length = 0, !.body = <<>>],
    Chunked,
    [Chunked EXCEPT !.trusted = FALSE],
    [Chunked EXCEPT !.flaw = "chunk", !.body = <<S(1), D, D, S(0), E>>],
    [Chunked EXCEPT !.flaw = "chunk", !.body = <<S(1), D, C, D, E>>],
    [Chunked EXCEPT !.flaw = "chunk", !.body = <<S(1), D, C, S(0), D>>]
  } \cup
    { [Plain EXCEPT !.method = "GET", !.query = q, !.length = 0, !.body = <<>>]
        : q \in {"none", "one", "else"} } \cup
    { [Plain EXCEPT !.flaw = f] : f \in Flaws \ {"none", "chunk"} } \cup
    { [Plain EXCEPT !.head = 5] }                              \* no room for the head
=============================================================================
