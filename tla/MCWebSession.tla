---------------------------- MODULE MCWebSession ----------------------------
(* Three tabs, two of them of one browser, two sign-ins, a user who loses the role. *)
EXTENDS WebSession, TLC
CONSTANTS t1, t2, t3, b1, b2
MCBrowserOf == t1 :> b1 @@ t2 :> b1 @@ t3 :> b2
MCInitialRoles == [u \in Users |-> {"AUDITOR"}]
MCLaterRoles == [u \in Users |-> {"VIEWER"}]
\* The provider's clock is behind: a slow exchange ends with an expired token.
MCAhead == [where \in {"provider", "api"} |-> IF where = "provider" THEN -1 ELSE 0]
MCSymmetry == Permutations(Logins) \cup Permutations({t1, t2})
=============================================================================
