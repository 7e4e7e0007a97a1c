---------------------------- MODULE PBFTDecision ----------------------------
(***************************************************************************)
(* PBFTOrdering implements BlockDecision: a proposal is chosen when nodes  *)
(* of a quorum have sent Commit messages for it, in whatever views, before *)
(* any of them can know.                                                   *)
(***************************************************************************)
EXTENDS PBFTOrdering

Chosen ==
  [i \in Index |->
     {h \in {m.hash : m \in {x \in msgs : x.type = "Commit" /\ x.index = i}} :
        IsQuorum({m.from : m \in Sent("Commit", i, h)})}]

Broken == {i \in Index : Weight(ForgottenAt(i)) > MaxFaultyQuorum}

Decision == INSTANCE BlockDecision
              WITH chosen <- Chosen, learned <- ordered, broken <- Broken

(***************************************************************************)
(* Every handler of every node, the verification callbacks, timeouts, new  *)
(* views and restarts are steps of BlockDecision or leave it unchanged:    *)
(* once a quorum has voted for a proposal no other one is ever chosen for  *)
(* its number, and no node executes a proposal that is not chosen.         *)
(***************************************************************************)
ImplementsDecision == Decision!Spec

=============================================================================
