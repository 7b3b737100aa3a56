---------------------------- MODULE MCLlmProfiles ----------------------------
(* Instances of LlmProfiles for TLC; profiles and requests are interchangeable. *)
EXTENDS LlmProfiles, TLC

ProfileSymmetry == Permutations(Profiles) \cup Permutations(Requests)
=============================================================================
