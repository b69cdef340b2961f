--------------------------- MODULE NonceAuthority ---------------------------
(***************************************************************************)
(* What the nonce manager is for: every submission that a node has         *)
(* accepted from an address holds a nonce of its own, later ones a higher  *)
(* one, and a submission holds at most one.                                *)
(***************************************************************************)
EXTENDS Integers

CONSTANTS
  Calls,   \* the submissions
  Addrs    \* the signing addresses

VARIABLE granted  \* records [addr, nonce, call]

Init == granted = {}

Grant(g) ==
  /\ g \in [addr : Addrs, nonce : Nat, call : Calls]
  /\ \A h \in granted : h.addr = g.addr => h.nonce < g.nonce
  /\ \A h \in granted : h.call # g.call
  /\ granted' = granted \cup {g}

Next == \E g \in granted' \ granted : Grant(g)

Spec == Init /\ [][Next]_granted
=============================================================================
