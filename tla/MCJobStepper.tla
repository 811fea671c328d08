---------------------------- MODULE MCJobStepper ----------------------------
(* Model-checking instances of JobStepper. *)
EXTENDS JobStepper

CONSTANTS s1, s2, s3, u1, u2

\* Two tabs of one user: the requests claim with the same id.
OneUser == [s \in Steppers |-> u1]

\* The first request is one user's, the others are another's.
TwoUsers == [s \in Steppers |-> IF s = s1 THEN u1 ELSE u2]
=============================================================================
