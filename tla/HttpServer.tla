----------------------------- MODULE HttpServer -----------------------------
(***************************************************************************)
(* What the embedded HTTP server promises to the program that starts and   *)
(* stops it, with no mention of threads or queues: a request is begun only *)
(* while the server runs, and it counts as stopped only when none is in    *)
(* progress.  WorkerPool, the threads of civetweb, implements it, and      *)
(* ServiceCycle, which uses the server, does as well: the two meet here.   *)
(***************************************************************************)

CONSTANT Handlers      \* whoever can be executing a request handler

VARIABLES
    server,            \* "none", "running" or "stopping"
    active             \* the handlers at work

vars == <<server, active>>

TypeOK == /\ server \in {"none", "running", "stopping"}
          /\ active \subseteq Handlers

Init == server = "none" /\ active = {}

Start == /\ server = "none"
         /\ server' = "running"
         /\ UNCHANGED active

Begin(h) == /\ server = "running"
            /\ h \notin active
            /\ active' = active \cup {h}
            /\ UNCHANGED server

End(h) == /\ h \in active
          /\ active' = active \ {h}
          /\ UNCHANGED server

Stop == /\ server = "running"
        /\ server' = "stopping"
        /\ UNCHANGED active

Stopped == /\ server = "stopping"
           /\ active = {}
           /\ server' = "none"
           /\ UNCHANGED active

(* The server is gone at a stroke, with whatever it was doing. *)
Gone == server' = "none" /\ active' = {}

Next == \/ Start \/ Stop \/ Stopped \/ Gone
        \/ \E h \in Handlers : Begin(h) \/ End(h)

Spec == Init /\ [][Next]_vars

=============================================================================
