--------------------------- MODULE MCOAuth2Token ---------------------------
(* Instances of OAuth2Token: a hub with two callers, `headless-mcp auth` run *)
(* beside it, and `auth` of another backend over the same secrets file.      *)
EXTENDS OAuth2Token, TLC

CONSTANTS hub, auth, other, h1, h2, a1

HubOnly == {hub}
HubAndAuth == {hub, auth}
OtherBackend == {other}
HubTasks == {h1, h2}
AllTasks == {h1, h2, a1}
OneEach == {h1, a1}
MCOwner == [t \in Task |-> IF t = a1 THEN auth ELSE hub]
Symmetry == Permutations(HubTasks)
=============================================================================
