------------------------- MODULE ProposalDecisions --------------------------
(***************************************************************************)
(* What the parameter rollout promises: a proposal that was made is decided *)
(* in the end, and once; if it is accepted, then its parameters come into   *)
(* force at that moment, and never again later.                            *)
(***************************************************************************)
EXTENDS Naturals, Sequences

CONSTANTS Proposals, Seed

VARIABLES
  verdict,   \* of each proposal
  chain      \* the proposals, or the seed, whose parameters came into force

DecisionsInit ==
  /\ verdict = [p \in Proposals |-> "unsaved"]
  /\ chain = << >>

Make(p) ==
  /\ verdict[p] = "unsaved"
  /\ verdict' = [verdict EXCEPT ![p] = "pending"]
  /\ UNCHANGED chain

InstallSeed ==
  /\ chain' = Append(chain, Seed)
  /\ UNCHANGED verdict

Accept(p) ==
  /\ verdict[p] = "pending"
  /\ verdict' = [verdict EXCEPT ![p] = "applied"]
  /\ chain' = Append(chain, p)

Reject(p) ==
  /\ verdict[p] = "pending"
  /\ verdict' = [verdict EXCEPT ![p] = "rejected"]
  /\ UNCHANGED chain

DecisionsNext ==
  InstallSeed \/ \E p \in Proposals : Make(p) \/ Accept(p) \/ Reject(p)

DecisionsSafety == DecisionsInit /\ [][DecisionsNext]_<<verdict, chain>>

DecisionsSpec ==
  /\ DecisionsSafety
  /\ \A p \in Proposals : WF_<<verdict, chain>>(Accept(p) \/ Reject(p))
=============================================================================
