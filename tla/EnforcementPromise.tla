------------------------- MODULE EnforcementPromise -------------------------
(***************************************************************************)
(* What enforce() promises, without saying how: actions are recorded on    *)
(* the substrate, calls return verdicts, and the two never contradict each *)
(* other, whichever comes first.                                           *)
(*                                                                         *)
(*   README.md: allowed is "true only when the substrate authorized and    *)
(*   recorded the action";                                                 *)
(*   CHANGELOG.md: "an action that later commits is never misreported as   *)
(*   denied".                                                              *)
(*                                                                         *)
(* A call that cannot tell gives up (throws) and promises nothing.         *)
(***************************************************************************)
EXTENDS FiniteSets

CONSTANTS
  Calls,     \* the enforce calls
  Denials,   \* the codes that deny
  GivesUp    \* the ways to return no verdict

VARIABLES
  recorded,  \* the calls whose action the substrate has recorded
  verdict    \* what each call returned, "none" before it does

promiseVars == <<recorded, verdict>>

TypeOK ==
  /\ recorded \subseteq Calls
  /\ verdict \in [Calls -> {"none", "Allowed"} \cup Denials \cup GivesUp]

Init ==
  /\ recorded = {}
  /\ verdict = [c \in Calls |-> "none"]

Record(c) ==
  /\ c \notin recorded
  /\ verdict[c] \in {"none"} \cup GivesUp
  /\ recorded' = recorded \cup {c}
  /\ UNCHANGED verdict

Return(c, v) ==
  /\ verdict[c] = "none"
  /\ verdict' = [verdict EXCEPT ![c] = v]
  /\ UNCHANGED recorded

ReturnAllowed(c) == c \in recorded /\ Return(c, "Allowed")

ReturnDenied(c) == c \notin recorded /\ \E v \in Denials : Return(c, v)

GiveUp(c) == \E v \in GivesUp : Return(c, v)

Next ==
  \E c \in Calls : Record(c) \/ ReturnAllowed(c) \/ ReturnDenied(c) \/ GiveUp(c)

Spec == Init /\ [][Next]_promiseVars
=============================================================================
