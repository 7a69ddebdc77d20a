-------------------------- MODULE MCInvitationMail --------------------------
(* InvitationMail for TLC: one invitation, in every deployment. *)
EXTENDS InvitationMail, TLC

CONSTANTS i1, e1

OneAddress == [i \in {i1} |-> e1]

OutboxDeployments == [store : {"memory", "postgres"}, mode : {"outbox"}]

AllDeployments == OutboxDeployments \cup [store : {"postgres"}, mode : {"inline", "memory"}]

=============================================================================
