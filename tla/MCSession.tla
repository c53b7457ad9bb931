----------------------------- MODULE MCSession -----------------------------
(***************************************************************************)
(* Small instances of Session.  In MCProp every index leaf that is probed   *)
(* with fewer slots than the pattern has holds a proposition that the       *)
(* pattern does not match.                                                  *)
(***************************************************************************)
EXTENDS Session

CONSTANTS s1, s2, t, u, x, y

MCTerm == {s1, s2, t, u, x, y}

(* Two values of one predicate: long histories of equal propositions.       *)
MCValues == {<<s1, t, x>>, <<s1, t, y>>}

MCProp == {<<s1, t, x>>, <<s1, t, y>>, <<s2, u, x>>}
=============================================================================
