-------------------------- MODULE MC_PromptGateway --------------------------
(* Small instances of PromptGateway for TLC. *)
EXTENDS PromptGateway, TLC

CONSTANTS s1, s2, r1, r2, r3, r4, id1, p1

\* r1 and r2 are the same submission sent twice, r3 reuses its id for steering,
\* r4 is an anonymous prompt.
MCSubmitted ==
    [r \in Requests |->
        [id      |-> IF r = r4 THEN NoId ELSE id1,
         session |-> s1,
         prompt  |-> p1,
         steer   |-> r = r3]]

\* Equal submissions are interchangeable, and so are session operations.
SubmissionSymmetry == Permutations({r1, r2}) \cup Permutations(Operations)

=============================================================================
