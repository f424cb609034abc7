------------------------------- MODULE Cards -------------------------------
(***************************************************************************)
(* internal/cards, with the taps of internal/analytics and the deletion of *)
(* accounts as far as they touch cards: who owns which NFC card.           *)
(*                                                                         *)
(* With a database a card is a row of nfc_cards, its owner's profile links *)
(* it in profiles.card_uid, and every statement runs by itself.  Without   *)
(* one, cards are a map under a mutex, there are no links, and neither     *)
(* taps nor deleted accounts reach the map.                                *)
(***************************************************************************)
EXTENDS Integers

CONSTANTS
    Users,     \* user ids
    Uids,      \* card uids, none of them empty
    BlankUid,  \* the empty string
    NameOf,    \* users whose name (or email) reads like a uid: that uid, or None
    Requests,  \* HTTP requests in flight
    None,
    Absent,    \* no profile row (None is a profile without a card)
    Failing    \* the kinds of SQL statement that may fail

\* The code tells "claimed" apart from all other statuses, the empty one included.
Statuses == {"provisioned", "claimed"}
Statements == {"select", "claim", "link", "profile", "lookup"}
ASSUME UidsAssumption == BlankUid \notin Uids \cup {None}
ASSUME FailingAssumption == Failing \subseteq Statements
ASSUME NoneAssumption == None \notin Users \cup Uids \cup [owner : Users, status : {"claimed"}]
ASSUME AbsentAssumption == Absent \notin Uids \cup {None}
ASSUME NamesAssumption == NameOf \in [Users -> Uids \cup {None}]

VARIABLES
    db,       \* the process was started with a database (main.go)
    accounts, \* ids of the existing accounts
    cards,    \* the rows of nfc_cards, or the map s.cards
    link,     \* profiles.card_uid of each user's profile
    req,      \* requests: the next statement and its arguments
    claimed,  \* history: who claimed which card, under any of its uids (the
              \* claims of a deleted account end with it)
    released  \* history: cards with an owner from which an administrator's update
              \* took "claimed", on purpose or by writing what is out of date

vars == <<db, accounts, cards, link, req, claimed, released>>

Quiet == [pc |-> "idle", user |-> None, uid |-> None, newUid |-> None,
          status |-> "none", read |-> "none"]
Provisioned == [owner |-> None, status |-> "provisioned"]
\* (mutant) another word for the status of a claimed card
ActiveCardOf(u) == [owner |-> u, status |-> "active"]
CardOf(u) == [owner |-> u, status |-> "claimed"]

\* seedDefaultCards: without a database there is a demo card from the start.
Init ==
    /\ db \in BOOLEAN
    /\ accounts = Users
    /\ \E demo \in Uids :
          cards = [c \in Uids |-> IF ~db /\ c = demo THEN CardOf(None) ELSE None]
    /\ link = [u \in Users |-> Absent]
    /\ req = [r \in Requests |-> Quiet]
    /\ claimed = {} /\ released = {}

Exists(c) == cards[c] # None
Idle(r) == req[r].pc = "idle"
At(r, pc) == req[r].pc = pc
Goto(r, pc) == req' = [req EXCEPT ![r].pc = pc]
Done(r) == req' = [req EXCEPT ![r] = Quiet]
MayFail(statement) == db /\ statement \in Failing
-----------------------------------------------------------------------------
\* The administrator's CreateCard, ProvisionBatch and DeleteCard, each one
\* statement or transaction, or one critical section.
CreateCard(c, status) ==
    /\ ~Exists(c)
    /\ cards' = [cards EXCEPT ![c] = [owner |-> None, status |-> status]]
    /\ UNCHANGED <<db, accounts, link, req, claimed, released>>

\* The INSERT leaves a card that exists as it is (but for its finish); the map
\* gets a new card, whoever owned the old one.
ProvisionBatch(S) ==
    /\ cards' = [c \in Uids |-> IF c \in S /\ ~(db /\ Exists(c))
                                THEN Provisioned ELSE cards[c]]
    /\ UNCHANGED <<db, accounts, link, req, claimed, released>>

DeleteCard(c) ==
    /\ Exists(c)
    /\ cards' = [cards EXCEPT ![c] = None]
    /\ released' = released \ {c}
    /\ UNCHANGED <<db, accounts, link, req, claimed>>

\* (mutant) a card under a new uid starts over
MovedAfresh(c, d, status) ==
    [x \in Uids |-> IF x = d THEN [cards[c] EXCEPT !.status = IF d = c THEN status ELSE "provisioned"]
                    ELSE IF x = c THEN None ELSE cards[x]]

\* Card c moves to uid d with this status; its owner follows.
Moved(c, d, status) ==
    [x \in Uids |-> IF x = d THEN [cards[c] EXCEPT !.status = status]
                    ELSE IF x = c THEN None ELSE cards[x]]
Follow(c, d) ==
    claimed' = IF cards[c].owner = None THEN claimed ELSE claimed \cup {<<cards[c].owner, d>>}

\* History: the update of a card that had the status read when it was looked
\* at ("none": the administrator has given one, or the SELECT failed).
Release(c, d, status, read) ==
    LET takes == /\ cards[c].owner # None /\ status # "claimed"
                 /\ read # cards[c].status \/ c \in released
    IN  released' = (released \ {c, d}) \cup (IF takes THEN {d} ELSE {})

Or(new, old) == IF new \in {None, "none"} THEN old ELSE new

\* UpdateCard: the SELECT of the current values, whose error (no such card
\* included) leaves them empty ...
UpdateRead(r, c, newUid, status) ==
    /\ db /\ Idle(r)
    /\ \/ /\ Exists(c)
          /\ req' = [req EXCEPT ![r] = [pc |-> "update", user |-> None, uid |-> c,
                 newUid |-> Or(newUid, c), status |-> Or(status, cards[c].status),
                 read |-> IF status = "none" THEN cards[c].status ELSE "none"]]
       \/ /\ ~Exists(c) \/ MayFail("select")
          /\ req' = [req EXCEPT ![r] = [pc |-> "update", user |-> None, uid |-> c,
                 newUid |-> Or(newUid, BlankUid), status |-> Or(status, "provisioned"),
                 read |-> "none"]]
    /\ UNCHANGED <<db, accounts, cards, link, claimed, released>>

\* ... and the UPDATE with all of them, which fails on a uid that is taken.  A
\* card that gets the empty uid is out of reach of every handler: it is gone,
\* and a second one is refused.
UpdateWrite(r) ==
    LET c == req[r].uid
        d == req[r].newUid
    IN
    /\ At(r, "update")
    /\ Done(r)
    /\ \/ /\ Exists(c) /\ d \in Uids /\ (d = c \/ ~Exists(d))
          /\ cards' = Moved(c, d, req[r].status) /\ Follow(c, d)
          /\ Release(c, d, req[r].status, req[r].read)
       \/ /\ Exists(c) /\ d = BlankUid
          /\ cards' = [cards EXCEPT ![c] = None]
          /\ released' = released \ {c} /\ UNCHANGED claimed
       \/ /\ ~Exists(c) \/ d = BlankUid \/ (d \in Uids \ {c} /\ Exists(d))
          /\ UNCHANGED <<cards, claimed, released>>
    /\ UNCHANGED <<db, accounts, link>>

\* The map: the card at the new uid, if there is one, is replaced.
UpdateInMap(c, newUid, status) ==
    /\ ~db /\ Exists(c)
    /\ cards' = Moved(c, Or(newUid, c), Or(status, cards[c].status))
    /\ Follow(c, Or(newUid, c))
    /\ Release(c, Or(newUid, c), Or(status, cards[c].status),
               IF status = "none" THEN cards[c].status ELSE "none")
    /\ UNCHANGED <<db, accounts, link, req>>
-----------------------------------------------------------------------------
\* ClaimCard.  A card is refused if it is claimed by another user.
Claimable(c, u) ==
    Exists(c) /\ ~(cards[c].status = "claimed" /\ cards[c].owner \notin {None, u})

\* SELECT status, user_id: of a user who is signed in.
ClaimRead(r, u, c) ==
    /\ db /\ Idle(r)
    /\ u \in accounts /\ Claimable(c, u)
    /\ req' = [req EXCEPT ![r] = [Quiet EXCEPT !.pc = "claim", !.user = u, !.uid = c]]
    /\ UNCHANGED <<db, accounts, cards, link, claimed, released>>

\* (mutant) nfc_cards without its foreign key to users
ClaimWriteForAnyone(r) ==
    /\ At(r, "claim")
    /\ cards' = IF Exists(req[r].uid)
                THEN [cards EXCEPT ![req[r].uid] = CardOf(req[r].user)] ELSE cards
    /\ claimed' = claimed \cup {<<req[r].user, req[r].uid>>}
    /\ released' = released \ {req[r].uid}
    /\ Goto(r, "link")
    /\ UNCHANGED <<db, accounts, link>>

\* UPDATE nfc_cards SET user_id, status WHERE card_uid: refused for a user who
\* is gone (foreign key); no row is no error.
ClaimWrite(r) ==
    LET u == req[r].user
        c == req[r].uid
    IN
    /\ At(r, "claim")
    /\ \/ /\ u \in accounts \/ ~Exists(c)
          /\ cards' = IF Exists(c) THEN [cards EXCEPT ![c] = CardOf(u)] ELSE cards
          /\ claimed' = claimed \cup {<<u, c>>} /\ released' = released \ {c}
          /\ Goto(r, "link")
       \/ /\ (u \notin accounts /\ Exists(c)) \/ MayFail("claim")
          /\ Done(r)
          /\ UNCHANGED <<cards, claimed, released>>
    /\ UNCHANGED <<db, accounts, link>>

LinkedByOther(c, u) == \E v \in Users \ {u} : link[v] = c

\* UPDATE profiles SET card_uid (UNIQUE): an error is ignored, no row leads to
\* the INSERT of a profile, whose error is ignored too.  Then the answer, 200.
LinkProfile(r) ==
    LET u == req[r].user
        c == req[r].uid
    IN
    /\ At(r, "link")
    /\ \/ /\ link[u] # Absent /\ ~LinkedByOther(c, u)
          /\ link' = [link EXCEPT ![u] = c]
          /\ Done(r)
       \/ /\ link[u] = Absent
          /\ Goto(r, "insert")
          /\ UNCHANGED link
       \/ /\ (link[u] # Absent /\ LinkedByOther(c, u)) \/ MayFail("link")
          /\ Done(r)
          /\ UNCHANGED link
    /\ UNCHANGED <<db, accounts, cards, claimed, released>>

InsertProfile(r) ==
    LET u == req[r].user
        c == req[r].uid
        refused == u \notin accounts \/ link[u] # Absent \/ LinkedByOther(c, u)
    IN
    /\ At(r, "insert")
    /\ Done(r)
    /\ \/ ~refused /\ link' = [link EXCEPT ![u] = c]
       \/ (refused \/ MayFail("profile")) /\ UNCHANGED link
    /\ UNCHANGED <<db, accounts, cards, claimed, released>>

\* The map: check and claim under one lock.
ClaimInMap(u, c) ==
    /\ ~db /\ u \in accounts /\ Claimable(c, u)
    /\ cards' = [cards EXCEPT ![c] = CardOf(u)]
    /\ claimed' = claimed \cup {<<u, c>>} /\ released' = released \ {c}
    /\ UNCHANGED <<db, accounts, link, req>>

\* UnlinkCard of the cards S (one, or all).  With a database its statements
\* lack their parameters, so it fails and changes nothing.
Unlink(u, S) ==
    /\ ~db /\ u \in accounts
    /\ cards' = [c \in Uids |-> IF c \in S /\ Exists(c) /\ cards[c].owner = u
                                THEN Provisioned ELSE cards[c]]
    /\ UNCHANGED <<db, accounts, link, req, claimed, released>>
-----------------------------------------------------------------------------
\* UpdateMyProfile makes the profile of a user who has none, without a card.
MakeProfile(u) ==
    /\ db /\ u \in accounts /\ link[u] = Absent
    /\ link' = [link EXCEPT ![u] = None]
    /\ UNCHANGED <<db, accounts, cards, req, claimed, released>>

\* HandleRecordTap, whose text c names a card or a user.
Owners(c) == IF Exists(c) THEN {cards[c].owner} ELSE {}
\* (mutant) the lookup of a profile without its condition on the card
LinkedToAnyCard(c) == {u \in Users : link[u] # Absent}
Linked(c) == {u \in Users : link[u] = c}
Named(c) == {u \in accounts : NameOf[u] = c}

\* The three lookups: the card's row; a profile that is linked to it; a user
\* of this name, and the card in that user's profile, if there is one.
TapRead(r, c) ==
    LET Goes(u, d) == req' = [req EXCEPT ![r] = [Quiet EXCEPT !.pc = "tap", !.user = u, !.uid = d]]
    IN
    /\ db /\ Idle(r)
    /\ \/ \E u \in Owners(c) : Goes(u, c)
       \/ /\ Owners(c) = {} \/ MayFail("lookup")
          /\ \/ \E u \in Linked(c) : Goes(u, c)
             \/ Linked(c) = {} /\ \E u \in Named(c) : Goes(u, IF link[u] \in Uids THEN link[u] ELSE c)
             \/ Linked(c) \cup Named(c) = {} /\ Goes(None, c)
    /\ UNCHANGED <<db, accounts, cards, link, claimed, released>>

\* The count goes up; a card without a row gets one, claimed by that user (if
\* any).  The UPDATE and the INSERT ... ON CONFLICT are one step: a row that
\* appears between them is only counted, as one that was there.
TapWrite(r) ==
    LET u == req[r].user
        c == req[r].uid
    IN
    /\ At(r, "tap")
    /\ Done(r)
    /\ cards' = IF ~Exists(c) /\ u \in accounts \cup {None}
                THEN [cards EXCEPT ![c] = CardOf(u)] ELSE cards
    /\ UNCHANGED <<db, accounts, link, claimed, released>>

\* DELETE FROM users: nfc_cards ON DELETE SET NULL, profiles ON DELETE CASCADE.
DeleteAccount(u) ==
    /\ u \in accounts
    /\ accounts' = accounts \ {u}
    /\ IF db
       THEN /\ cards' = [c \in Uids |-> IF Exists(c) /\ cards[c].owner = u
                                        THEN [cards[c] EXCEPT !.owner = None] ELSE cards[c]]
            /\ link' = [link EXCEPT ![u] = Absent]
            /\ claimed' = {p \in claimed : p[1] # u}
       ELSE UNCHANGED <<cards, link, claimed>>
    /\ UNCHANGED <<db, req, released>>

Next ==
    \/ \E c \in Uids :
          \/ \E s \in Statuses : CreateCard(c, s)
          \/ DeleteCard(c)
          \/ \E d \in Uids \cup {None}, s \in Statuses \cup {"none"} :
                \/ UpdateInMap(c, d, s)
                \/ \E r \in Requests : UpdateRead(r, c, d, s)
          \/ \E u \in Users :
                ClaimInMap(u, c) \/ \E r \in Requests : ClaimRead(r, u, c)
          \/ \E r \in Requests : TapRead(r, c)
    \/ \E S \in SUBSET Uids : ProvisionBatch(S) \/ \E u \in Users : Unlink(u, S)
    \/ \E r \in Requests : UpdateWrite(r) \/ ClaimWrite(r) \/ LinkProfile(r)
                              \/ InsertProfile(r) \/ TapWrite(r)
    \/ \E u \in Users : MakeProfile(u) \/ DeleteAccount(u)

Spec == Init /\ [][Next]_vars
-----------------------------------------------------------------------------
Card == [owner : Users \cup {None}, status : Statuses]
Updates == [pc : {"update"}, user : {None}, uid : Uids, newUid : Uids \cup {BlankUid},
            status : Statuses, read : Statuses \cup {"none"}]
Claims == [pc : {"claim", "link", "insert"}, user : Users, uid : Uids, newUid : {None},
           status : {"none"}, read : {"none"}]
Taps == [pc : {"tap"}, user : Users \cup {None}, uid : Uids, newUid : {None},
         status : {"none"}, read : {"none"}]

TypeOK ==
    /\ db \in BOOLEAN
    /\ accounts \subseteq Users
    /\ cards \in [Uids -> Card \cup {None}]
    /\ link \in [Users -> Uids \cup {None, Absent}]
    /\ req \in [Requests -> {Quiet} \cup Updates \cup Claims \cup Taps]
    /\ claimed \subseteq Users \X Uids
    /\ released \subseteq Uids

\* With a database every owner and every linked profile is one of an existing
\* account, also when a claim or a tap is interleaved with its deletion.
OwnersExist ==
    db => /\ \A c \in Uids : Exists(c) /\ cards[c].owner # None => cards[c].owner \in accounts
          /\ \A u \in Users : link[u] # Absent => u \in accounts

\* A card only ever belongs to a user who claimed it: through renames, through
\* links to cards that were deleted, and through taps that bring those back.
\* (A tap that names a user without a card makes one, under that name.)
OwnedByClaimant ==
    \A c \in Uids : Exists(c) /\ cards[c].owner # None =>
        <<cards[c].owner, c>> \in claimed \/ NameOf[cards[c].owner] = c

\* A card that has an owner is refused to all others (ErrCardAlreadyClaimed),
\* through renames, taps, unlinking and deleted accounts, unless an update of the
\* administrator has released it: by a status that was given, by a SELECT that
\* failed, or by writing back one that a claim has changed since.
OwnedIsRefused ==
    \A c \in Uids, u \in Users :
        Exists(c) /\ Claimable(c, u) => cards[c].owner \in {None, u} \/ c \in released

\* "this card has already been claimed by another user": a claim leaves the
\* cards that are claimed by other users alone.
ClaimsOf(u) == {c \in Uids : Exists(c) /\ cards[c] = CardOf(u)}
ClaimTakesNothing ==
    [][\A r \in Requests, u \in Users :
          ClaimWrite(r) /\ req[r].user # u => \A c \in ClaimsOf(u) : cards'[c] = cards[c]]_vars
=============================================================================
