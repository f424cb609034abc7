------------------------------ MODULE MCLogout ------------------------------
(* Sessions, watched by a client that remembers which of its logouts were    *)
(* answered with "Logged out successfully".                                  *)
EXTENDS Sessions, TLC

CONSTANTS u1, u2, t1, t2, r1, r2
MCUsers == {u1, u2}
MCTokens == {t1, t2}
MCRequests == {r1, r2}

VARIABLE signedOut  \* tokens whose logout was answered

WatchInit == Init /\ signedOut = {}
WatchNext ==
    \/ \E t \in Tokens, c \in {"cookie", "header"} :
          Logout(t, c) /\ signedOut' = signedOut \cup {t}
    \/ Next /\ UNCHANGED signedOut
WatchSpec == WatchInit /\ [][WatchNext]_<<vars, signedOut>>

\* logout.go: "handleLogout terminates the current user session": a session
\* whose logout was answered does not exist any more, whichever of the three
\* places currentUser looks into the token was sent in.
LogoutTerminates == \A t \in signedOut : ~Present(t)
=============================================================================
