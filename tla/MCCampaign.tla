----------------------------- MODULE MCCampaign -----------------------------
(* Model-checking instance of ProposalCampaign. *)
EXTENDS ProposalCampaign

ReadinessValues == {1, 2}   \* 2 reaches the target, 1 does not
=============================================================================
