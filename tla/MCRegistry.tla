----------------------------- MODULE MCRegistry -----------------------------
(* Instances of Registry.                                                  *)
EXTENDS Registry, TLC

CONSTANTS b1, b2, t1, m, x, y

OneCaller == {t1, m}
Both == {b1, b2}
Names == {x, y}

AllModes == {(b1 :> "eager") @@ (b2 :> "per_call"), (b1 :> "eager") @@ (b2 :> "lazy")}

\* The modes the health loop looks after.
WatchedModes == {(b1 :> "eager") @@ (b2 :> "lazy")}

\* b2 has a namespace, y is in it, and b1 may offer y nonetheless.
Spaces == (b1 :> {}) @@ (b2 :> {y})
Clashing == (b1 :> {{x}, {x, y}}) @@ (b2 :> {{y}})
Apart == (b1 :> {{x}, {}}) @@ (b2 :> {{y}, {}})
=============================================================================
