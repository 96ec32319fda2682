---------------------------- MODULE PairingLedger ----------------------------
(***************************************************************************)
(* What the attended-pairing service promises about its requests, without  *)
(* tokens, envelopes, adapters, deadlines or generations: a request is     *)
(* opened for a certificate that has no other live request, moves only     *)
(* forward, keeps its outcome, and may be forgotten once it has one.  One  *)
(* call may settle or forget several requests at once.                     *)
(***************************************************************************)
CONSTANTS Requests, Certs, None

VARIABLES status, cert

ledger == <<status, cert>>

LiveStatus == {"pending", "approved"}

Outcomes == {"paired", "rejected", "cancelled", "expired", "failed"}

Forward ==
  {<<"pending", "approved">>, <<"approved", "paired">>} \cup
  (LiveStatus \X (Outcomes \ {"paired"}))

Init ==
  /\ status = [r \in Requests |-> "absent"]
  /\ cert = [r \in Requests |-> None]

Kept(r) == status'[r] = status[r] /\ cert'[r] = cert[r]

Forgotten(r) ==
  /\ status[r] \in Outcomes
  /\ status'[r] = "absent"
  /\ cert'[r] = None

Advances(r) ==
  /\ <<status[r], status'[r]>> \in Forward
  /\ cert'[r] = cert[r]

Open(r, c) ==
  /\ status[r] \notin LiveStatus
  /\ \A s \in Requests : status[s] \in LiveStatus => cert[s] # c
  /\ status'[r] = "pending"
  /\ cert'[r] = c
  /\ \A s \in Requests \ {r} : Kept(s) \/ Forgotten(s)

Settle == \A r \in Requests : Kept(r) \/ Forgotten(r) \/ Advances(r)

Restart ==
  /\ status' = [r \in Requests |-> "absent"]
  /\ cert' = [r \in Requests |-> None]

Next ==
  \/ \E r \in Requests, c \in Certs : Open(r, c)
  \/ Settle
  \/ Restart

Spec == Init /\ [][Next]_ledger
=============================================================================
