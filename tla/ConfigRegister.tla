--------------------------- MODULE ConfigRegister ---------------------------
(***************************************************************************)
(* What the configuration store promises to whoever provisions the device: *)
(* one atomic register.  A configuration that was asked for is installed   *)
(* in one step or not at all, it is confirmed only when it is installed    *)
(* and refused only when it is not, and power that goes away in between    *)
(* leaves the one or the other.                                            *)
(***************************************************************************)
CONSTANTS Configs, None

VARIABLES
  stored,   \* the configuration a start of the device finds, or None
  request,  \* the one being applied, or None
  stage,    \* how far that is
  answer    \* what the last application was answered

rvars == <<stored, request, stage, answer>>

Init ==
  /\ stored = None /\ request = None
  /\ stage = "idle" /\ answer = "none"

Request(c) ==
  /\ stage = "idle" /\ stage' = "asked"
  /\ request' = c /\ answer' = "none"
  /\ UNCHANGED stored

Install ==
  /\ stage = "asked" /\ stage' = "installed"
  /\ stored' = request
  /\ UNCHANGED <<request, answer>>

Confirm ==
  /\ stage = "installed" /\ stage' = "idle"
  /\ request' = None /\ answer' = "configured"
  /\ UNCHANGED stored

Refuse ==
  /\ stage = "asked" /\ stage' = "idle"
  /\ request' = None /\ answer' = "refused"
  /\ UNCHANGED stored

PowerLoss ==
  /\ stage' = "idle" /\ request' = None /\ answer' = "none"
  /\ UNCHANGED stored

Next ==
  \/ \E c \in Configs : Request(c)
  \/ Install \/ Confirm \/ Refuse \/ PowerLoss

Spec == Init /\ [][Next]_rvars
=============================================================================
