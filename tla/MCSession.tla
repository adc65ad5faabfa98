------------------------------ MODULE MCSession ------------------------------
(* The session with the modules of pure functions it is built from.  They    *)
(* share no state, so one of the three moves and the other two stay at their *)
(* initial states.                                                           *)
EXTENDS Session

MCNamespace == {<<>>, <<"a">>, <<"b">>, <<"a", "b">>}
MCTool == {<<"t">>, <<"b", "t">>}

MCInit == Init /\ WireInit /\ PolicyInit
AtRest == /\ requests = 0 /\ exchange = NoExchange /\ ~initialized
          /\ healthy = Backend /\ offers = [b \in Backend |-> {}]
MCNext ==
    \/ WireInit /\ PolicyInit /\ Next /\ UNCHANGED <<wireVars, policyVars>>
    \/ AtRest /\ PolicyInit /\ WireNext /\ UNCHANGED <<vars, policyVars>>
    \/ AtRest /\ WireInit /\ PolicyNext /\ UNCHANGED <<vars, wireVars>>

MCSpec == MCInit /\ [][MCNext]_<<vars, wireVars, policyVars>>
==============================================================================
