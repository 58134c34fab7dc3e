--------------------------- MODULE DurableRegister ---------------------------
(***************************************************************************)
(* What the crash-safe slot store promises its owners (the workspace       *)
(* registry and every operation journal): one register that holds a value  *)
(* or nothing.  A request is read, or made to hold `target'; it takes      *)
(* effect at most once, at one instant, and only while it is open.  An     *)
(* abandoned request (an I/O error or the death of the process) has taken  *)
(* effect or it has not.  The register is damaged only by abandoning a     *)
(* write into an empty register.                                           *)
(***************************************************************************)
CONSTANTS Value,      \* the records a register can hold
          None,       \* nothing is stored
          Torn,       \* an incomplete first record: reads fail
          Idle,       \* no request is open
          Reading     \* the open request only reads

VARIABLES value,      \* what the register holds
          request,    \* Idle, Reading, or the contents asked for
          reply       \* what the last answered request returned

vars == <<value, request, reply>>

Init == value = None /\ request = Idle /\ reply = None

\* A damaged register refuses requests, so a request may also open on one.
Open(r) == /\ request = Idle
           /\ request' = r
           /\ UNCHANGED <<value, reply>>

Apply == /\ request \in Value \cup {None}
         /\ value \in Value \cup {None}
         /\ value' = request
         /\ UNCHANGED <<request, reply>>

Answer == /\ \/ request = Reading /\ value # Torn
             \/ request # Reading /\ request # Idle /\ value = request
          /\ reply' = value
          /\ request' = Idle
          /\ UNCHANGED value

Abandon == /\ request # Idle
           /\ \/ UNCHANGED value
              \/ request \in Value \cup {None} /\ value # Torn /\ value' = request
              \/ value = None /\ request \in Value /\ value' = Torn
           /\ request' = Idle
           /\ UNCHANGED reply

Next == \/ \E r \in Value \cup {None, Reading} : Open(r)
        \/ Apply \/ Answer \/ Abandon

Spec == Init /\ [][Next]_vars
==============================================================================
