---------------------------- MODULE ValueMirror -----------------------------
(***************************************************************************)
(* What the push of measured values promises: Loxone mirrors the appliance. *)
(* Each virtual input shows some reading of its value and moves on to later *)
(* ones, inputs being independent of one another.  Only a request whose     *)
(* sender has given it up, a straggler, may take an input back, and no      *)
(* further than to what was news when it was given up.                      *)
(***************************************************************************)
EXTENDS Integers

CONSTANT Inputs      \* the virtual inputs of the Miniserver

VARIABLES
    reading,         \* the number of the appliance's latest reading, per input
    shown,           \* the number of the reading that Loxone shows
    straggling       \* requests that were given up: an input and a reading

vars == <<reading, shown, straggling>>

Init == /\ reading = [i \in Inputs |-> 0]
        /\ shown = [i \in Inputs |-> 0]
        /\ straggling = {}

(* The appliance has something new to say. *)
Change(i) ==
    /\ reading' = [reading EXCEPT ![i] = reading[i] + 1]
    /\ UNCHANGED <<shown, straggling>>

(* Loxone catches up, maybe not all the way. *)
Show(i) ==
    /\ \E r \in shown[i]..reading[i] : shown' = [shown EXCEPT ![i] = r]
    /\ UNCHANGED <<reading, straggling>>

(* Requests that would have brought news are given up by their senders. *)
Strand ==
    /\ \A q \in straggling' \ straggling :
          \E i \in Inputs : \E r \in shown[i]..reading[i] : q = <<i, r>>
    /\ straggling \subseteq straggling'
    /\ UNCHANGED <<reading, shown>>

(* A straggler is done after all. *)
Land(i) ==
    /\ <<i, shown'[i]>> \in straggling
    /\ shown' = [shown EXCEPT ![i] = shown'[i]]
    /\ straggling' = straggling \ {<<i, shown'[i]>>}
    /\ UNCHANGED reading

Next == Strand \/ \E i \in Inputs : Change(i) \/ Show(i) \/ Land(i)

Spec == Init /\ [][Next]_vars

=============================================================================
