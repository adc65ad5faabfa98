---------------------------- MODULE MCSecretStore ----------------------------
(* A hub with two tasks and `headless-mcp auth` beside it, over two keys.   *)
EXTENDS SecretStore, TLC

CONSTANTS hub, auth, h1, h2, a1, k1, k2

Both == {hub, auth}
AllTasks == {h1, h2, a1}
MCOwner == (h1 :> hub) @@ (h2 :> hub) @@ (a1 :> auth)
Symmetry == Permutations({h1, h2})
==============================================================================
