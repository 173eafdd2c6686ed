----------------------------- MODULE TicketStore -----------------------------
(***************************************************************************)
(* What a server's session cache promises when replay protection is on:   *)
(* a store of single-use tickets.  A ticket may be put on offer, may be    *)
(* dropped at any time, and is redeemed while it is on offer; once it is   *)
(* redeemed it is never on offer again.                                    *)
(***************************************************************************)
CONSTANT Tickets

VARIABLES
  offered,     \* the tickets a client can be resumed with
  redeemed     \* the tickets that a connection was resumed with

Init == offered = {} /\ redeemed = {}

\* A ticket comes on offer; others are dropped to make room for it.
Offer(t) ==
  /\ t \in Tickets \ redeemed
  /\ \E dropped \in SUBSET (offered \cup {t}) : offered' = (offered \cup {t}) \ dropped
  /\ UNCHANGED redeemed

\* Tickets grow old, or are withdrawn with the connection they were made for.
Drop ==
  /\ \E dropped \in SUBSET offered : offered' = offered \ dropped
  /\ UNCHANGED redeemed

Redeem(t) ==
  /\ t \in offered
  /\ offered' = offered \ {t}
  /\ redeemed' = redeemed \cup {t}

Next == Drop \/ \E t \in Tickets : Offer(t) \/ Redeem(t)

Spec == Init /\ [][Next]_<<offered, redeemed>>

=============================================================================
