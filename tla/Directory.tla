----------------------------- MODULE Directory -----------------------------
(***************************************************************************)
(* What internal/auth promises of accounts, in both of its modes: an email *)
(* leads to one account or to none, a step of a handler touches the        *)
(* account of one email, and an account always has a way to sign in, a     *)
(* password that was set under its email or a Google identity of it.  What *)
(* a database has stored is never lost but with its account; without one   *)
(* two registrations at once may replace each other.  Nothing is said of   *)
(* who chooses a password, nor of ids, statements, copies and maps: those  *)
(* belong to Accounts.                                                     *)
(***************************************************************************)
CONSTANTS
    Emails,
    Passwords,   \* pairs of the email it was set under and the choice
    Subs,        \* Google identities
    GoogleEmail, \* [Subs -> Emails]
    None

VARIABLES
    durable,     \* there is a database
    account      \* the account that an email leads to

Own(e) == [email : {e},
           pw : {p \in Passwords : p[1] = e} \cup {None},
           google : {g \in Subs : GoogleEmail[g] = e} \cup {None}]
Reachable(a) == a.pw # None \/ a.google # None
Accounts(e) == {a \in Own(e) : Reachable(a)}

\* Passwords and identities may be exchanged, but are not lost.
Keeps(old, new) ==
    /\ old.pw # None => new.pw # None
    /\ old.google # None => new.google # None

Init == durable \in BOOLEAN /\ account = [e \in Emails |-> None]

Register(e) ==
    /\ account[e] = None
    /\ \E a \in Accounts(e) : account' = [account EXCEPT ![e] = a]

Change(e) ==
    /\ account[e] # None
    /\ \E a \in Accounts(e) :
          /\ durable => Keeps(account[e], a)
          /\ account' = [account EXCEPT ![e] = a]

Remove(e) == account' = [account EXCEPT ![e] = None]

Next ==
    /\ account' # account /\ UNCHANGED durable
    /\ \E e \in Emails : Register(e) \/ Change(e) \/ Remove(e)

Spec == Init /\ [][Next]_<<durable, account>>
=============================================================================
