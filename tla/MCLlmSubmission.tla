---------------------------- MODULE MCLlmSubmission ----------------------------
(* Instances of LlmSubmission for TLC: contracts under one key, of which x *)
(* and z differ only in the chat model, and y in the fingerprint.          *)
EXTENDS LlmSubmission, TLC

CONSTANTS k, f, g, x, y, z, c1, c2, s1, s2

OneKey == x :> k @@ y :> k @@ z :> k
Fingerprints == x :> f @@ y :> g @@ z :> f
Wanted == c1 :> x @@ c2 :> z @@ s1 :> x @@ s2 :> y
================================================================================
