--------------------------- MODULE MCShadowLearning ---------------------------
(* Model values and small inputs for checking ShadowLearning. *)
EXTENDS ShadowLearning, TLC

CONSTANTS BTC, long, short, w0, w1, ASIA, US

(* The clock goes from one session into another. *)
Hours == [time \in 0 .. MaxTime |-> IF time = 0 THEN ASIA ELSE US]

(* The two sides are treated alike, and so are the workers. *)
SymmetricSets == Permutations(Sides) \cup Permutations(Workers)
=============================================================================
