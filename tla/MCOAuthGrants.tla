--------------------------- MODULE MCOAuthGrants ---------------------------
(* Constants of the TLC runs of OAuthGrants. *)
EXTENDS OAuthGrants, TLC

CONSTANTS g1, g2, u1, c1, c2, q1, q2, k1

MCKeys == {NoKey, k1}
MCAsked == {{Offline, "email"}, {Offline}, {"email"}}

\* The authorization endpoint, the chain of refresh tokens, and what ends it.
MCMixes ==
    {{"authorize", "decide", "code", "withdraw", "disable", "credentials", "register", "narrow", "abort"},
     {"authorize", "decide", "code", "expire", "bind"},
     {"code", "refresh", "revoke", "resource", "abort"},
     {"code", "refresh", "withdraw", "narrow"},
     {"code", "refresh", "deleteclient", "bind"},
     {"code", "refresh", "expire"},
     {"code", "resource", "userinfo", "disable"},
     {"code", "introspect", "revoke", "refresh"},
     {"code", "resource", "revokeacc", "updateclient", "deleteclient", "abort"}}

Symmetry == Permutations(Requests)
=============================================================================
