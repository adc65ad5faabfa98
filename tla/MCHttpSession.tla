--------------------------- MODULE MCHttpSession ---------------------------
(* Instances of HttpSession: two callers and the health check, against      *)
(* servers of every style, or of one.                                       *)
EXTENDS HttpSession, TLC

CONSTANTS c1, c2, hc

TwoCallers == {c1, c2}
OneCaller == {c1}
OneHealth == {hc}
NoHealth == {}
Plain == {s \in Style : ~s.strict /\ ~s.echo}
Awkward == {[gone |-> "http_404", missing |-> "refused", echo |-> FALSE, strict |-> FALSE],
            [gone |-> "not_initialized", missing |-> "not_initialized", echo |-> TRUE, strict |-> FALSE]}
Symmetry == Permutations(TwoCallers)
=============================================================================
