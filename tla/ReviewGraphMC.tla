---------------------------- MODULE ReviewGraphMC ----------------------------
(***************************************************************************)
(* ReviewGraph for TLC: the stage selections of the web form that review   *)
(* or publish a proof, and a claim of the README that interrupted rounds   *)
(* do not keep.                                                            *)
(***************************************************************************)
EXTENDS ReviewGraph

\* With all stages, without writing, a supplied candidate, and without critic.
AllStages == {{"author", "critic", "writing"}, {"author", "critic"}, {"critic"},
              {"author", "writing"}}

\* README.md, -criticRounds: "Maximum consecutive edited critic passes; then one
\* last critic round that cannot edit must pass the latest solution unchanged or
\* reject it".
EditsBounded == Working => edits[st.sol] <= Limit
=============================================================================
