--------------------------- MODULE ServiceSession ---------------------------
(***************************************************************************)
(* What the service loop of Program.cpp promises to the rest of the system *)
(* about its cycles, with no mention of threads, flags or joins: work (a   *)
(* polling pass, an HTTP request) is only in progress between the opening  *)
(* and the closing of a session, and a session counts as closed only when  *)
(* nothing is in progress.  ServiceCycle implements it.                    *)
(***************************************************************************)

CONSTANT Activities    \* whoever can be at work: the poller, the request workers

VARIABLES
    session,           \* "closed", "open", "closing" or, after a crash, "down"
    busy               \* the activities in progress

vars == <<session, busy>>

TypeOK == /\ session \in {"closed", "open", "closing", "down"}
          /\ busy \subseteq Activities

Init == session = "closed" /\ busy = {}

Open == /\ session = "closed"
        /\ session' = "open"
        /\ UNCHANGED busy

(* An activity that was admitted just before the session started to close  *)
(* may still begin while it closes.                                        *)
Begin(a) == /\ session \in {"open", "closing"}
            /\ a \notin busy
            /\ busy' = busy \cup {a}
            /\ UNCHANGED session

End(a) == /\ a \in busy
          /\ busy' = busy \ {a}
          /\ UNCHANGED session

Close == /\ session = "open"
         /\ session' = "closing"
         /\ UNCHANGED busy

Closed == /\ session = "closing"
          /\ busy = {}
          /\ session' = "closed"
          /\ UNCHANGED busy

(* The process disappears and takes its threads with it. *)
Crash == session' = "down" /\ busy' = {}

Restart == /\ session = "down"
           /\ session' = "closed"
           /\ UNCHANGED busy

Next == \/ Open \/ Close \/ Closed \/ Crash \/ Restart
        \/ \E a \in Activities : Begin(a) \/ End(a)

Spec == Init /\ [][Next]_vars

-----------------------------------------------------------------------------

(* Nothing is in progress outside a session, nor after a crash. *)
ClosedIsQuiet == session \in {"closed", "down"} => busy = {}

=============================================================================
