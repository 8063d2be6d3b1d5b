---------------------------- MODULE MCScheduler ----------------------------
(* Small instances of SchedulerRuns: two personas with a responsibility each. *)
EXTENDS SchedulerRuns, TLC

CONSTANTS ann, bob, digest, news, g1, g2

MCPersonaOf  == (digest :> ann) @@ (news :> bob)
MCPersonaSeq == <<ann, bob>>
=============================================================================
