----------------------------- MODULE DealContract -----------------------------
(***************************************************************************)
(* What a deal promises to its creator and to the users invited to accept  *)
(* it, without sessions, locks or statements: each operation is one step.  *)
(* DealLifecycle implements this specification with its committed rows.    *)
(***************************************************************************)
EXTENDS Integers, FiniteSets

CONSTANTS Users, MaxAcceptances

VARIABLES status,      \* the deal's status
          invitation   \* each user's invitation

dealVars == <<status, invitation>>

With(st) == {u \in Users : invitation[u] = st}

\* The users of C, all invited, have their invitations closed.
Closing(f, C) == [u \in Users |-> IF u \in C THEN "CLOSED" ELSE f[u]]

Init == /\ status = "DRAFT"
        /\ invitation = [u \in Users |-> "NONE"]

\* Users without an invitation get one.
Invite(E) == invitation' = [u \in Users |-> IF u \in E THEN "INVITED" ELSE invitation[u]]

Submit == /\ status = "DRAFT"
          /\ status' = "PENDING_ACCEPTANCE"
          /\ \E E \in SUBSET With("NONE") : Invite(E)

\* A refresh invites whoever became eligible.  It does not look again at the
\* status it read, so late invitations may reach a deal that no longer waits.
Refresh == /\ status # "DRAFT"
           /\ \E E \in SUBSET With("NONE") : Invite(E)
           /\ UNCHANGED status

\* The acceptance that reaches the limit publishes the deal and closes the open
\* invitations it finds; only a deal that waits can be accepted.
Accept(u) ==
    /\ status = "PENDING_ACCEPTANCE"
    /\ u \in With("INVITED")
    /\ \/ /\ Cardinality(With("ACCEPTED")) + 1 = MaxAcceptances
          /\ status' = "PUBLISHED"
          /\ \E C \in SUBSET (With("INVITED") \ {u}) :
                 invitation' = Closing([invitation EXCEPT ![u] = "ACCEPTED"], C)
       \/ /\ Cardinality(With("ACCEPTED")) + 1 # MaxAcceptances
          /\ invitation' = [invitation EXCEPT ![u] = "ACCEPTED"]
          /\ UNCHANGED status

Decline(u) == /\ u \in With("INVITED")
              /\ invitation' = [invitation EXCEPT ![u] = "DECLINED"]
              /\ UNCHANGED status

Cancel == /\ status \in {"PENDING_ACCEPTANCE", "PUBLISHED"}
          /\ status' = "CANCELLED"
          /\ \E C \in SUBSET With("INVITED") : invitation' = Closing(invitation, C)

Expire == /\ status = "PENDING_ACCEPTANCE"
          /\ status' = "EXPIRED"
          /\ \E C \in SUBSET With("INVITED") : invitation' = Closing(invitation, C)

Next == \/ Submit \/ Refresh \/ Cancel \/ Expire
        \/ \E u \in Users : Accept(u) \/ Decline(u)

Spec == Init /\ [][Next]_dealVars
===============================================================================
