---------------------------- MODULE CardsProofs ----------------------------
(***************************************************************************)
(* For every number of users, cards and requests and whatever statements   *)
(* fail: the owners of cards and the profiles linked to them are accounts, *)
(* and nobody owns a card without having claimed it.                       *)
(***************************************************************************)
EXTENDS Cards, TLAPS

USE UidsAssumption, AbsentAssumption, NamesAssumption

Request == {Quiet} \cup Updates \cup Claims \cup Taps

\* What a request is at each statement.
LEMMA RequestParts ==
    ASSUME TypeOK, NEW r \in Requests
    PROVE  /\ At(r, "update") => req[r] \in Updates
           /\ At(r, "claim") \/ At(r, "link") \/ At(r, "insert") => req[r] \in Claims
           /\ At(r, "tap") => req[r] \in Taps
BY DEF TypeOK, At, Quiet, Updates, Claims, Taps

\* What the actions make of a request.
LEMMA RequestSteps ==
    ASSUME TypeOK, NEW r \in Requests
    PROVE  /\ Done(r) => req' \in [Requests -> Request]
           /\ \A pc \in {"link", "insert"} :
                 req[r] \in Claims /\ Goto(r, pc) => req' \in [Requests -> Request]
<1>1. req \in [Requests -> Request]
  BY DEF TypeOK, Request
<1>2. ASSUME NEW pc \in {"link", "insert"}, req[r] \in Claims
      PROVE  [req[r] EXCEPT !.pc = pc] \in Claims
  BY <1>2 DEF Claims
<1>. QED
  BY <1>1, <1>2 DEF Done, Goto, Request

\* The cards that the actions put in place.
LEMMA NewCards ==
    /\ Provisioned \in Card
    /\ \A u \in Users \cup {None} : CardOf(u) \in Card
    /\ \A status \in Statuses : [owner |-> None, status |-> status] \in Card
BY DEF Provisioned, CardOf, Card, Statuses

LEMMA CardParts ==
    ASSUME TypeOK, NEW c \in Uids, Exists(c)
    PROVE  /\ cards[c] \in Card
           /\ cards[c].owner \in Users \cup {None} /\ cards[c].status \in Statuses
           /\ \A status \in Statuses :
                 /\ [cards[c] EXCEPT !.status = status] \in Card
                 /\ [cards[c] EXCEPT !.status = status].owner = cards[c].owner
           /\ [cards[c] EXCEPT !.owner = None] \in Card
BY DEF TypeOK, Exists, Card

\* A card that moves stays a card, and the others stay where they are.
LEMMA MovedType ==
    ASSUME TypeOK, NEW c \in Uids, Exists(c), NEW d \in Uids, NEW status \in Statuses
    PROVE  Moved(c, d, status) \in [Uids -> Card \cup {None}]
BY CardParts DEF TypeOK, Moved

LEMMA FollowType ==
    ASSUME TypeOK, NEW c \in Uids, Exists(c), NEW d \in Uids, Follow(c, d)
    PROVE  claimed' \subseteq Users \X Uids
<1>1. cards[c].owner # None => <<cards[c].owner, d>> \in Users \X Uids
  BY CardParts
<1>2. claimed \subseteq Users \X Uids
  BY DEF TypeOK
<1>. QED
  BY <1>1, <1>2 DEF Follow

LEMMA ReleaseType ==
    ASSUME TypeOK, NEW c \in Uids, NEW d \in Uids, NEW status, NEW read,
           Release(c, d, status, read)
    PROVE  released' \subseteq Uids
BY DEF TypeOK, Release

LEMMA OrTypes ==
    /\ \A new \in Uids \cup {None}, old \in Uids : Or(new, old) \in Uids
    /\ \A new \in Uids \cup {None} : Or(new, BlankUid) \in Uids \cup {BlankUid}
    /\ \A new \in Statuses \cup {"none"}, old \in Statuses : Or(new, old) \in Statuses
BY DEF Or

LEMMA InitType == Init => TypeOK
BY NewCards DEF Init, TypeOK
-----------------------------------------------------------------------------
\* The administrator's steps.
LEMMA AdminType ==
    ASSUME TypeOK,
           \/ \E c \in Uids, s \in Statuses : CreateCard(c, s)
           \/ \E c \in Uids : DeleteCard(c)
           \/ \E S \in SUBSET Uids : ProvisionBatch(S)
           \/ \E c \in Uids, d \in Uids \cup {None}, s \in Statuses \cup {"none"} :
                 UpdateInMap(c, d, s)
           \/ \E r \in Requests, c \in Uids, d \in Uids \cup {None}, s \in Statuses \cup {"none"} :
                 UpdateRead(r, c, d, s)
           \/ \E r \in Requests : UpdateWrite(r)
    PROVE  TypeOK'
<1>1. ASSUME NEW c \in Uids, NEW s \in Statuses, CreateCard(c, s) PROVE TypeOK'
  BY <1>1, NewCards DEF CreateCard, TypeOK
<1>2. ASSUME NEW c \in Uids, DeleteCard(c) PROVE TypeOK'
  BY <1>2 DEF DeleteCard, TypeOK
<1>3. ASSUME NEW S \in SUBSET Uids, ProvisionBatch(S) PROVE TypeOK'
  BY <1>3, NewCards DEF ProvisionBatch, TypeOK
<1>4. ASSUME NEW c \in Uids, NEW d \in Uids \cup {None}, NEW s \in Statuses \cup {"none"},
             UpdateInMap(c, d, s)
      PROVE  TypeOK'
  <2>1. Exists(c) /\ Or(d, c) \in Uids /\ Or(s, cards[c].status) \in Statuses
    BY <1>4, OrTypes, CardParts DEF UpdateInMap
  <2>. QED
    BY <1>4, <2>1, MovedType, FollowType, ReleaseType DEF UpdateInMap, TypeOK
<1>5. ASSUME NEW r \in Requests, NEW c \in Uids, NEW d \in Uids \cup {None},
             NEW s \in Statuses \cup {"none"}, UpdateRead(r, c, d, s)
      PROVE  TypeOK'
  <2>1. Or(d, c) \in Uids /\ Or(d, BlankUid) \in Uids \cup {BlankUid}
    BY OrTypes
  <2>2. Or(s, "provisioned") \in Statuses /\ (Exists(c) => Or(s, cards[c].status) \in Statuses)
    BY OrTypes, CardParts DEF Statuses
  <2>3. [pc |-> "update", user |-> None, uid |-> c, newUid |-> Or(d, BlankUid),
         status |-> Or(s, "provisioned"), read |-> "none"] \in Request
    BY <2>1, <2>2 DEF Request, Updates
  <2>4. Exists(c) => [pc |-> "update", user |-> None, uid |-> c, newUid |-> Or(d, c),
                      status |-> Or(s, cards[c].status),
                      read |-> IF s = "none" THEN cards[c].status ELSE "none"] \in Request
    BY <2>1, <2>2, CardParts DEF Request, Updates
  <2>5. req' \in [Requests -> Request]
    BY <1>5, <2>3, <2>4 DEF UpdateRead, TypeOK, Request
  <2>. QED
    BY <1>5, <2>5 DEF UpdateRead, TypeOK, Request
<1>6. ASSUME NEW r \in Requests, UpdateWrite(r) PROVE TypeOK'
  <2>. DEFINE c == req[r].uid
              d == req[r].newUid
              s == req[r].status
  <2>1. req' \in [Requests -> Request]
    BY <1>6, RequestSteps DEF UpdateWrite
  <2>2. c \in Uids /\ s \in Statuses
    BY <1>6, RequestParts DEF UpdateWrite, Updates
  <2>3. UNCHANGED <<db, accounts, link>>
    BY <1>6 DEF UpdateWrite
  <2>4. CASE UNCHANGED <<cards, claimed, released>>
    BY <2>1, <2>3, <2>4 DEF TypeOK, Request
  <2>5. CASE cards' = [cards EXCEPT ![c] = None] /\ released' = released \ {c} /\ UNCHANGED claimed
    BY <2>1, <2>3, <2>5 DEF TypeOK, Request
  <2>6. CASE /\ Exists(c) /\ d \in Uids /\ cards' = Moved(c, d, s) /\ Follow(c, d)
             /\ Release(c, d, s, req[r].read)
    BY <2>1, <2>2, <2>3, <2>6, MovedType, FollowType, ReleaseType DEF TypeOK, Request
  <2>. QED
    BY <1>6, <2>4, <2>5, <2>6 DEF UpdateWrite
<1>. QED
  BY <1>1, <1>2, <1>3, <1>4, <1>5, <1>6

\* The claims of users.
LEMMA ClaimType ==
    ASSUME TypeOK,
           \/ \E r \in Requests, u \in Users, c \in Uids : ClaimRead(r, u, c)
           \/ \E r \in Requests : ClaimWrite(r) \/ LinkProfile(r) \/ InsertProfile(r)
           \/ \E u \in Users, c \in Uids : ClaimInMap(u, c)
           \/ \E u \in Users, S \in SUBSET Uids : Unlink(u, S)
    PROVE  TypeOK'
<1>1. ASSUME NEW r \in Requests, NEW u \in Users, NEW c \in Uids, ClaimRead(r, u, c)
      PROVE  TypeOK'
  <2>1. [Quiet EXCEPT !.pc = "claim", !.user = u, !.uid = c] \in Claims
    BY DEF Quiet, Claims
  <2>. QED
    BY <1>1, <2>1 DEF ClaimRead, TypeOK
<1>2. ASSUME NEW r \in Requests, ClaimWrite(r) PROVE TypeOK'
  <2>1. req[r] \in Claims /\ req[r].user \in Users /\ req[r].uid \in Uids
    BY <1>2, RequestParts DEF ClaimWrite, Claims
  <2>2. req' \in [Requests -> Request]
    BY <1>2, <2>1, RequestSteps DEF ClaimWrite
  <2>3. cards' \in [Uids -> Card \cup {None}]
    BY <1>2, <2>1, NewCards DEF ClaimWrite, TypeOK
  <2>4. claimed' \subseteq Users \X Uids
    BY <1>2, <2>1 DEF ClaimWrite, TypeOK
  <2>. QED
    BY <1>2, <2>2, <2>3, <2>4 DEF ClaimWrite, TypeOK, Request
<1>3. ASSUME NEW r \in Requests, LinkProfile(r) PROVE TypeOK'
  <2>1. req[r] \in Claims /\ req[r].uid \in Uids
    BY <1>3, RequestParts DEF LinkProfile, Claims
  <2>2. req' \in [Requests -> Request]
    BY <1>3, <2>1, RequestSteps DEF LinkProfile
  <2>. QED
    BY <1>3, <2>1, <2>2 DEF LinkProfile, TypeOK, Request
<1>4. ASSUME NEW r \in Requests, InsertProfile(r) PROVE TypeOK'
  <2>1. req[r].uid \in Uids
    BY <1>4, RequestParts DEF InsertProfile, Claims
  <2>2. req' \in [Requests -> Request]
    BY <1>4, RequestSteps DEF InsertProfile
  <2>. QED
    BY <1>4, <2>1, <2>2 DEF InsertProfile, TypeOK, Request
<1>5. ASSUME NEW u \in Users, NEW c \in Uids, ClaimInMap(u, c) PROVE TypeOK'
  BY <1>5, NewCards DEF ClaimInMap, TypeOK
<1>6. ASSUME NEW u \in Users, NEW S \in SUBSET Uids, Unlink(u, S) PROVE TypeOK'
  BY <1>6, NewCards DEF Unlink, TypeOK
<1>. QED
  BY <1>1, <1>2, <1>3, <1>4, <1>5, <1>6

\* Whom a tap may be for.
LEMMA TapTypes ==
    ASSUME TypeOK, NEW c \in Uids
    PROVE  /\ Owners(c) \subseteq Users \cup {None}
           /\ Linked(c) \subseteq Users /\ Named(c) \subseteq Users
BY CardParts DEF Owners, Linked, Named, TypeOK

LEMMA TapReadIs ==
    ASSUME TypeOK, NEW r \in Requests, NEW c \in Uids, TapRead(r, c)
    PROVE  \E u \in Users \cup {None}, d \in Uids :
              /\ req' = [req EXCEPT ![r] = [Quiet EXCEPT !.pc = "tap", !.user = u, !.uid = d]]
              /\ \/ d = c /\ u \in Owners(c) \cup Linked(c) \cup {None}
                 \/ d = c /\ u \in Named(c)
                 \/ u \in Named(c) /\ d = link[u]
BY TapTypes DEF TapRead

\* Taps, profiles and deletions.
LEMMA OtherType ==
    ASSUME TypeOK,
           \/ \E r \in Requests, c \in Uids : TapRead(r, c)
           \/ \E r \in Requests : TapWrite(r)
           \/ \E u \in Users : MakeProfile(u) \/ DeleteAccount(u)
    PROVE  TypeOK'
<1>1. ASSUME NEW r \in Requests, NEW c \in Uids, TapRead(r, c) PROVE TypeOK'
  <2>1. PICK u \in Users \cup {None}, d \in Uids :
           req' = [req EXCEPT ![r] = [Quiet EXCEPT !.pc = "tap", !.user = u, !.uid = d]]
    BY <1>1, TapReadIs
  <2>2. [Quiet EXCEPT !.pc = "tap", !.user = u, !.uid = d] \in Taps
    BY DEF Quiet, Taps
  <2>. QED
    BY <1>1, <2>1, <2>2 DEF TapRead, TypeOK
<1>2. ASSUME NEW r \in Requests, TapWrite(r) PROVE TypeOK'
  <2>1. req[r].uid \in Uids /\ req[r].user \in Users \cup {None}
    BY <1>2, RequestParts DEF TapWrite, Taps
  <2>2. req' \in [Requests -> Request]
    BY <1>2, RequestSteps DEF TapWrite
  <2>3. cards' \in [Uids -> Card \cup {None}]
    BY <1>2, <2>1, NewCards DEF TapWrite, TypeOK
  <2>. QED
    BY <1>2, <2>2, <2>3 DEF TapWrite, TypeOK, Request
<1>3. ASSUME NEW u \in Users, MakeProfile(u) PROVE TypeOK'
  BY <1>3 DEF MakeProfile, TypeOK
<1>4. ASSUME NEW u \in Users, DeleteAccount(u) PROVE TypeOK'
  <2>1. cards' \in [Uids -> Card \cup {None}]
    BY <1>4, CardParts DEF DeleteAccount, TypeOK
  <2>. QED
    BY <1>4, <2>1 DEF DeleteAccount, TypeOK
<1>. QED
  BY <1>1, <1>2, <1>3, <1>4

LEMMA NextType == TypeOK /\ [Next]_vars => TypeOK'
<1> SUFFICES ASSUME TypeOK, [Next]_vars PROVE TypeOK'
  OBVIOUS
<1>1. CASE UNCHANGED vars
  BY <1>1 DEF TypeOK, vars
<1>2. CASE Next
  BY <1>2, AdminType, ClaimType, OtherType DEF Next
<1>. QED
  BY <1>1, <1>2

\* Cards, links and requests keep their shape: above all, a request only ever
\* writes a uid and a status that an update or a claim has given it.
THEOREM TypeCorrect == Spec => []TypeOK
<1>. QED
  BY InitType, NextType, PTL DEF Spec
-----------------------------------------------------------------------------

(***************************************************************************)
(* The foreign keys.  With a database owners and profiles are of accounts, *)
(* and each statement that writes one refuses or cascades accordingly.     *)
(***************************************************************************)
OwnersAre(accts, cds) ==
    \A c \in Uids : cds[c] # None /\ cds[c].owner # None => cds[c].owner \in accts
LinksAre(accts, lnk) == \A u \in Users : lnk[u] # Absent => u \in accts

\* A card that moves takes its owner with it.
LEMMA MovedOwners ==
    ASSUME TypeOK, NEW x \in Uids, Exists(x), NEW d \in Uids, NEW status \in Statuses,
           NEW c \in Uids, Moved(x, d, status)[c] # None
    PROVE  \/ c = d /\ Moved(x, d, status)[c].owner = cards[x].owner
           \/ c # d /\ Exists(c) /\ Moved(x, d, status)[c] = cards[c]
BY CardParts DEF Moved, Exists

\* The next step keeps the owners among the accounts ...
LEMMA OwnersStep ==
    ASSUME TypeOK, Next, db, OwnersExist
    PROVE  OwnersAre(accounts', cards')
<1> USE DEF OwnersAre
<1>0. OwnersAre(accounts, cards)
  BY DEF OwnersExist, Exists
<1>1. CASE UNCHANGED <<accounts, cards>>
  BY <1>0, <1>1
<1>2. ASSUME NEW c \in Uids, NEW s \in Statuses, CreateCard(c, s) PROVE OwnersAre(accounts', cards')
  BY <1>0, <1>2 DEF CreateCard, TypeOK
<1>3. ASSUME NEW c \in Uids, DeleteCard(c) PROVE OwnersAre(accounts', cards')
  BY <1>0, <1>3 DEF DeleteCard, TypeOK
<1>4. ASSUME NEW S \in SUBSET Uids, ProvisionBatch(S) PROVE OwnersAre(accounts', cards')
  BY <1>0, <1>4 DEF ProvisionBatch, Provisioned, TypeOK
<1>5. ASSUME NEW r \in Requests, UpdateWrite(r) PROVE OwnersAre(accounts', cards')
  <2>1. req[r].uid \in Uids /\ req[r].status \in Statuses
    BY <1>5, RequestParts DEF UpdateWrite, Updates
  <2>2. UNCHANGED accounts
    BY <1>5 DEF UpdateWrite
  <2>3. CASE /\ Exists(req[r].uid) /\ req[r].newUid \in Uids
             /\ cards' = Moved(req[r].uid, req[r].newUid, req[r].status)
    BY <1>0, <2>1, <2>2, <2>3, MovedOwners DEF Exists
  <2>4. CASE cards' = [cards EXCEPT ![req[r].uid] = None]
    BY <1>0, <2>1, <2>2, <2>4 DEF TypeOK
  <2>5. CASE UNCHANGED cards
    BY <1>0, <2>2, <2>5
  <2>. QED
    BY <1>5, <2>3, <2>4, <2>5 DEF UpdateWrite
<1>6. ASSUME NEW r \in Requests, ClaimWrite(r) PROVE OwnersAre(accounts', cards')
  <2>1. req[r].uid \in Uids
    BY <1>6, RequestParts DEF ClaimWrite, Claims
  <2>. QED
    BY <1>0, <1>6, <2>1 DEF ClaimWrite, CardOf, TypeOK, Exists
<1>7. ASSUME NEW r \in Requests, TapWrite(r) PROVE OwnersAre(accounts', cards')
  <2>1. req[r].uid \in Uids
    BY <1>7, RequestParts DEF TapWrite, Taps
  <2>. QED
    BY <1>0, <1>7, <2>1 DEF TapWrite, CardOf, TypeOK, Exists
<1>8. ASSUME NEW u \in Users, DeleteAccount(u) PROVE OwnersAre(accounts', cards')
  <2> SUFFICES ASSUME NEW c \in Uids, cards'[c] # None, cards'[c].owner # None
               PROVE  cards'[c].owner \in accounts \ {u}
    BY <1>8 DEF DeleteAccount
  <2>1. cards'[c] = IF Exists(c) /\ cards[c].owner = u
                    THEN [cards[c] EXCEPT !.owner = None] ELSE cards[c]
    BY <1>8 DEF DeleteAccount
  <2>2. Exists(c)
    BY <2>1 DEF Exists
  <2>3. [cards[c] EXCEPT !.owner = None].owner = None
    BY <2>2, CardParts DEF Card
  <2>. QED
    BY <1>0, <2>1, <2>2, <2>3 DEF Exists
<1>. QED
  BY <1>1, <1>2, <1>3, <1>4, <1>5, <1>6, <1>7, <1>8
  DEF Next, UpdateInMap, UpdateRead, ClaimInMap, ClaimRead, TapRead, Unlink, LinkProfile,
      InsertProfile, MakeProfile

\* ... and the profiles too.
LEMMA LinksStep ==
    ASSUME TypeOK, Next, db, OwnersExist
    PROVE  LinksAre(accounts', link')
<1> USE DEF LinksAre
<1>0. LinksAre(accounts, link)
  BY DEF OwnersExist
<1>1. CASE UNCHANGED <<accounts, link>>
  BY <1>0, <1>1
<1>2. ASSUME NEW r \in Requests, LinkProfile(r) PROVE LinksAre(accounts', link')
  BY <1>0, <1>2 DEF LinkProfile, TypeOK
<1>3. ASSUME NEW r \in Requests, InsertProfile(r) PROVE LinksAre(accounts', link')
  BY <1>0, <1>3 DEF InsertProfile, TypeOK
<1>4. ASSUME NEW u \in Users, MakeProfile(u) PROVE LinksAre(accounts', link')
  BY <1>0, <1>4 DEF MakeProfile, TypeOK
<1>5. ASSUME NEW u \in Users, DeleteAccount(u) PROVE LinksAre(accounts', link')
  BY <1>0, <1>5 DEF DeleteAccount, TypeOK
<1>. QED
  BY <1>1, <1>2, <1>3, <1>4, <1>5
  DEF Next, CreateCard, DeleteCard, ProvisionBatch, UpdateInMap, UpdateRead, UpdateWrite,
      ClaimInMap, ClaimRead, ClaimWrite, TapRead, TapWrite, Unlink

LEMMA NextDb == Next => UNCHANGED db
BY DEF Next, CreateCard, DeleteCard, ProvisionBatch, UpdateInMap, UpdateRead, UpdateWrite,
       ClaimInMap, ClaimRead, ClaimWrite, LinkProfile, InsertProfile, Unlink, MakeProfile,
       TapRead, TapWrite, DeleteAccount

\* With a database every owner and every profile is of an account that exists,
\* whatever claims and taps are under way when an account is deleted.
THEOREM OwnersAreAccounts == Spec => []OwnersExist
<1>1. Init => OwnersExist
  BY DEF Init, OwnersExist, CardOf, Exists
<1>2. TypeOK /\ OwnersExist /\ [Next]_vars => OwnersExist'
  <2>1. TypeOK /\ OwnersExist /\ Next => OwnersExist'
    BY OwnersStep, LinksStep, NextDb DEF OwnersExist, OwnersAre, LinksAre, Exists
  <2>2. OwnersExist /\ UNCHANGED vars => OwnersExist'
    BY DEF OwnersExist, vars, Exists
  <2>. QED
    BY <2>1, <2>2
<1>. QED
  BY <1>1, <1>2, TypeCorrect, PTL DEF Spec
-----------------------------------------------------------------------------

(***************************************************************************)
(* Who owns a card.  A tap makes a card for a user that it has looked up   *)
(* before, so that what profiles link to and what requests carry must be   *)
(* of claims too, unless their account is gone.                            *)
(***************************************************************************)
LinksClaimed == \A u \in Users : link[u] \in Uids => <<u, link[u]>> \in claimed

\* User u may come to own card c.
Entitled(u, c) == <<u, c>> \in claimed \/ NameOf[u] = c

CarriesClaim(r) ==
    /\ ~Idle(r) => db
    /\ At(r, "link") \/ At(r, "insert") =>
          req[r].user \notin accounts \/ <<req[r].user, req[r].uid>> \in claimed
    /\ At(r, "tap") /\ req[r].user # None =>
          req[r].user \notin accounts \/ Entitled(req[r].user, req[r].uid)
RequestsClaimed == \A r \in Requests : CarriesClaim(r)

ClaimInv == OwnedByClaimant /\ LinksClaimed /\ RequestsClaimed

\* Only the deletion of an account takes claims back.
LEMMA ClaimsGrow ==
    ASSUME TypeOK, Next, \A u \in Users : ~DeleteAccount(u)
    PROVE  accounts' = accounts /\ claimed \subseteq claimed'
BY DEF Next, CreateCard, DeleteCard, ProvisionBatch, UpdateInMap, UpdateRead, UpdateWrite,
       Follow, ClaimInMap, ClaimRead, ClaimWrite, LinkProfile, InsertProfile, Unlink,
       MakeProfile, TapRead, TapWrite

\* Requests that a step leaves alone, and one that it ends.
LEMMA CarriesKept ==
    ASSUME NEW r \in Requests, CarriesClaim(r), req'[r] = req[r],
           accounts' = accounts, claimed \subseteq claimed', db' = db
    PROVE  CarriesClaim(r)'
BY DEF CarriesClaim, Entitled, At, Idle

LEMMA QuietCarries ==
    ASSUME NEW r \in Requests, req'[r] = Quiet
    PROVE  CarriesClaim(r)'
BY DEF CarriesClaim, Quiet, At, Idle

LEMMA DoneCarries ==
    ASSUME TypeOK, NEW r \in Requests, Done(r), RequestsClaimed,
           accounts' = accounts, claimed \subseteq claimed', db' = db
    PROVE  RequestsClaimed'
<1> SUFFICES ASSUME NEW q \in Requests PROVE CarriesClaim(q)'
  BY DEF RequestsClaimed
<1>1. req'[q] = IF q = r THEN Quiet ELSE req[q]
  BY DEF Done, TypeOK
<1>. QED
  BY <1>1, CarriesKept, QuietCarries DEF RequestsClaimed

LEMMA RequestsStep ==
    ASSUME TypeOK, Next, ClaimInv
    PROVE  RequestsClaimed'
<1>0. db' = db /\ RequestsClaimed
  BY NextDb DEF ClaimInv
<1>1. ASSUME NEW v \in Users, DeleteAccount(v) PROVE RequestsClaimed'
  <2> SUFFICES ASSUME NEW r \in Requests PROVE CarriesClaim(r)'
    BY DEF RequestsClaimed
  <2>1. CarriesClaim(r) /\ req' = req /\ accounts' = accounts \ {v}
    BY <1>0, <1>1 DEF RequestsClaimed, DeleteAccount
  <2>2. \A u \in Users, c \in Uids :
           <<u, c>> \in claimed => <<u, c>> \in claimed' \/ u \notin accounts'
    BY <1>1, <2>1 DEF DeleteAccount
  <2>3. ~Idle(r) => req[r].uid \in Uids /\ req[r].user \in Users \cup {None}
    BY DEF TypeOK, Idle, Quiet, Updates, Claims, Taps
  <2>4. At(r, "link") \/ At(r, "insert") => req[r].user \in Users
    BY RequestParts DEF Claims
  <2>5. At(r, "link") \/ At(r, "insert") \/ At(r, "tap") => ~Idle(r)
    BY DEF At, Idle
  <2>. QED
    BY <1>0, <2>1, <2>2, <2>3, <2>4, <2>5 DEF CarriesClaim, Entitled, At, Idle
<1>2. CASE \A v \in Users : ~DeleteAccount(v)
  <2>0. accounts' = accounts /\ claimed \subseteq claimed'
    BY <1>2, ClaimsGrow
  <2>1. CASE req' = req
    BY <1>0, <2>0, <2>1, CarriesKept DEF RequestsClaimed
  <2>2. ASSUME NEW r \in Requests, Done(r) PROVE RequestsClaimed'
    BY <1>0, <2>0, <2>2, DoneCarries
  <2>3. ASSUME NEW r \in Requests, CarriesClaim(r)', \A q \in Requests \ {r} : req'[q] = req[q]
        PROVE  RequestsClaimed'
    BY <1>0, <2>0, <2>3, CarriesKept DEF RequestsClaimed
  <2>4. ASSUME NEW r \in Requests, NEW c \in Uids, NEW d \in Uids \cup {None},
               NEW st \in Statuses \cup {"none"}, UpdateRead(r, c, d, st)
        PROVE  RequestsClaimed'
    <3>1. req'[r].pc = "update" /\ db'
      BY <1>0, <2>4 DEF UpdateRead, TypeOK
    <3>2. CarriesClaim(r)'
      BY <3>1 DEF CarriesClaim, At, Idle
    <3>. QED
      BY <2>3, <2>4, <3>2 DEF UpdateRead, TypeOK
  <2>5. ASSUME NEW r \in Requests, NEW u \in Users, NEW c \in Uids, ClaimRead(r, u, c)
        PROVE  RequestsClaimed'
    <3>1. req'[r].pc = "claim" /\ db'
      BY <1>0, <2>5 DEF ClaimRead, TypeOK, Quiet
    <3>2. CarriesClaim(r)'
      BY <3>1 DEF CarriesClaim, At, Idle
    <3>. QED
      BY <2>3, <2>5, <3>2 DEF ClaimRead, TypeOK
  <2>6. ASSUME NEW r \in Requests, ClaimWrite(r) PROVE RequestsClaimed'
    <3>1. CASE Goto(r, "link") /\ claimed' = claimed \cup {<<req[r].user, req[r].uid>>}
      <4>1. /\ req'[r] = [req[r] EXCEPT !.pc = "link"]
            /\ \A q \in Requests \ {r} : req'[q] = req[q]
        BY <3>1 DEF Goto, TypeOK
      <4>2. req[r] \in Claims
        BY <2>6, RequestParts DEF ClaimWrite
      <4>3. req'[r].pc = "link" /\ req'[r].user = req[r].user /\ req'[r].uid = req[r].uid
        BY <4>1, <4>2 DEF Claims
      <4>4. db
        BY <1>0, <2>6 DEF RequestsClaimed, CarriesClaim, ClaimWrite, At, Idle
      <4>5. CarriesClaim(r)'
        BY <1>0, <3>1, <4>3, <4>4 DEF CarriesClaim, At, Idle
      <4>. QED
        BY <2>3, <4>1, <4>5
    <3>2. CASE Done(r)
      BY <2>2, <3>2
    <3>. QED
      BY <2>6, <3>1, <3>2 DEF ClaimWrite
  <2>7. ASSUME NEW r \in Requests, LinkProfile(r) PROVE RequestsClaimed'
    <3>1. CASE Goto(r, "insert")
      <4>1. /\ req'[r] = [req[r] EXCEPT !.pc = "insert"]
            /\ \A q \in Requests \ {r} : req'[q] = req[q]
        BY <3>1 DEF Goto, TypeOK
      <4>2. req[r] \in Claims
        BY <2>7, RequestParts DEF LinkProfile
      <4>3. req'[r].pc = "insert" /\ req'[r].user = req[r].user /\ req'[r].uid = req[r].uid
        BY <4>1, <4>2 DEF Claims
      <4>4. CarriesClaim(r)'
        BY <1>0, <2>0, <2>7, <4>3 DEF RequestsClaimed, CarriesClaim, LinkProfile, At, Idle
      <4>. QED
        BY <2>3, <4>1, <4>4
    <3>. QED
      BY <2>2, <2>7, <3>1 DEF LinkProfile
  <2>8. ASSUME NEW r \in Requests, NEW c \in Uids, TapRead(r, c) PROVE RequestsClaimed'
    <3>1. PICK u \in Users \cup {None}, d \in Uids :
             /\ req' = [req EXCEPT ![r] = [Quiet EXCEPT !.pc = "tap", !.user = u, !.uid = d]]
             /\ \/ d = c /\ u \in Owners(c) \cup Linked(c) \cup {None}
                \/ d = c /\ u \in Named(c)
                \/ u \in Named(c) /\ d = link[u]
      BY <2>8, TapReadIs
    <3>2. u # None => Entitled(u, d)
      BY <3>1 DEF ClaimInv, OwnedByClaimant, LinksClaimed, Entitled, Owners, Linked, Named
    <3>3. /\ req'[r].pc = "tap" /\ req'[r].user = u /\ req'[r].uid = d
          /\ \A q \in Requests \ {r} : req'[q] = req[q]
      BY <3>1 DEF TypeOK, Quiet
    <3>4. db' /\ claimed' = claimed
      BY <2>8 DEF TapRead
    <3>5. CarriesClaim(r)'
      BY <3>2, <3>3, <3>4 DEF CarriesClaim, Entitled, At, Idle
    <3>. QED
      BY <2>3, <3>3, <3>5
  <2>. QED
    BY <1>2, <2>1, <2>2, <2>4, <2>5, <2>6, <2>7, <2>8
    DEF Next, CreateCard, DeleteCard, ProvisionBatch, UpdateInMap, UpdateWrite, ClaimInMap,
        InsertProfile, Unlink, MakeProfile, TapWrite
<1>. QED
  BY <1>1, <1>2

LEMMA LinksClaimedStep ==
    ASSUME TypeOK, Next, ClaimInv, OwnersExist
    PROVE  LinksClaimed'
<1> SUFFICES ASSUME NEW u \in Users, link'[u] \in Uids
             PROVE  <<u, link'[u]>> \in claimed'
  BY DEF LinksClaimed
<1>0. link[u] \in Uids => <<u, link[u]>> \in claimed
  BY DEF ClaimInv, LinksClaimed
<1>1. ASSUME NEW v \in Users, DeleteAccount(v) PROVE <<u, link'[u]>> \in claimed'
  BY <1>0, <1>1 DEF DeleteAccount, TypeOK
<1>2. CASE \A v \in Users : ~DeleteAccount(v)
  <2>0. claimed \subseteq claimed'
    BY <1>2, ClaimsGrow
  <2>1. CASE UNCHANGED link
    BY <1>0, <2>0, <2>1
  <2>2. ASSUME NEW r \in Requests, LinkProfile(r) PROVE <<u, link'[u]>> \in claimed'
    <3>1. CASE link[req[r].user] # Absent /\ link' = [link EXCEPT ![req[r].user] = req[r].uid]
      <4>1. req[r].user \in Users /\ At(r, "link")
        BY <2>2, RequestParts DEF LinkProfile, Claims
      <4>2. db /\ req[r].user \in accounts
        BY <3>1, <4>1 DEF OwnersExist, ClaimInv, RequestsClaimed, CarriesClaim, At, Idle
      <4>3. <<req[r].user, req[r].uid>> \in claimed
        BY <4>1, <4>2 DEF ClaimInv, RequestsClaimed, CarriesClaim
      <4>. QED
        BY <1>0, <2>0, <3>1, <4>1, <4>3 DEF TypeOK
    <3>. QED
      BY <2>1, <2>2, <3>1 DEF LinkProfile
  <2>3. ASSUME NEW r \in Requests, InsertProfile(r) PROVE <<u, link'[u]>> \in claimed'
    <3>1. CASE req[r].user \in accounts /\ link' = [link EXCEPT ![req[r].user] = req[r].uid]
      <4>1. <<req[r].user, req[r].uid>> \in claimed
        BY <2>3, <3>1 DEF InsertProfile, ClaimInv, RequestsClaimed, CarriesClaim
      <4>. QED
        BY <1>0, <2>0, <3>1, <4>1 DEF TypeOK
    <3>. QED
      BY <2>1, <2>3, <3>1 DEF InsertProfile
  <2>4. ASSUME NEW v \in Users, MakeProfile(v) PROVE <<u, link'[u]>> \in claimed'
    BY <1>0, <2>0, <2>4, NoneAssumption DEF MakeProfile, TypeOK
  <2>. QED
    BY <1>2, <2>1, <2>2, <2>3, <2>4
    DEF Next, CreateCard, DeleteCard, ProvisionBatch, UpdateInMap, UpdateRead, UpdateWrite,
        ClaimInMap, ClaimRead, ClaimWrite, TapRead, TapWrite, Unlink
<1>. QED
  BY <1>1, <1>2

LEMMA OwnedStep ==
    ASSUME TypeOK, Next, ClaimInv
    PROVE  OwnedByClaimant'
<1> SUFFICES ASSUME NEW c \in Uids, cards'[c] # None, cards'[c].owner # None
             PROVE  <<cards'[c].owner, c>> \in claimed' \/ NameOf[cards'[c].owner] = c
  BY DEF OwnedByClaimant, Exists
<1> DEFINE Goal == <<cards'[c].owner, c>> \in claimed' \/ NameOf[cards'[c].owner] = c
<1>0. Exists(c) /\ cards[c].owner # None => Entitled(cards[c].owner, c)
  BY DEF ClaimInv, OwnedByClaimant, Entitled
<1>1. ASSUME NEW v \in Users, DeleteAccount(v) PROVE Goal
  <2>1. CASE UNCHANGED <<cards, claimed>>
    BY <1>0, <2>1 DEF Entitled, Exists
  <2>2. CASE db
    <3>1. /\ cards'[c] = IF Exists(c) /\ cards[c].owner = v
                         THEN [cards[c] EXCEPT !.owner = None] ELSE cards[c]
          /\ claimed' = {p \in claimed : p[1] # v}
      BY <1>1, <2>2 DEF DeleteAccount
    <3>2. Exists(c) => [cards[c] EXCEPT !.owner = None].owner = None
      BY CardParts DEF Card
    <3>3. Exists(c) /\ cards'[c] = cards[c] /\ cards[c].owner # v
      BY <3>1, <3>2 DEF Exists
    <3>. QED
      BY <1>0, <3>1, <3>3 DEF Entitled
  <2>. QED
    BY <1>1, <2>1, <2>2 DEF DeleteAccount
<1>2. CASE \A v \in Users : ~DeleteAccount(v)
  <2>0. claimed \subseteq claimed'
    BY <1>2, ClaimsGrow
  <2>1. CASE cards'[c] = cards[c]
    BY <1>0, <2>0, <2>1 DEF Entitled, Exists
  <2>2. ASSUME NEW d \in Uids, NEW s \in Statuses, CreateCard(d, s) PROVE Goal
    BY <2>1, <2>2 DEF CreateCard, TypeOK
  <2>3. ASSUME NEW d \in Uids, DeleteCard(d) PROVE Goal
    BY <2>1, <2>3 DEF DeleteCard, TypeOK
  <2>4. ASSUME NEW S \in SUBSET Uids, ProvisionBatch(S) PROVE Goal
    BY <2>1, <2>4 DEF ProvisionBatch, Provisioned
  <2>5. ASSUME NEW x \in Uids, Exists(x), NEW d \in Uids, NEW s \in Statuses,
               cards' = Moved(x, d, s), Follow(x, d)
        PROVE  Goal
    <3>1. CASE c = d /\ cards'[c].owner = cards[x].owner
      BY <2>5, <3>1 DEF Follow, Entitled
    <3>. QED
      BY <2>1, <2>5, <3>1, MovedOwners
  <2>6. ASSUME NEW r \in Requests, UpdateWrite(r) PROVE Goal
    <3>1. req[r].uid \in Uids /\ req[r].status \in Statuses
      BY <2>6, RequestParts DEF UpdateWrite, Updates
    <3>2. CASE cards' = [cards EXCEPT ![req[r].uid] = None]
      BY <2>1, <3>1, <3>2 DEF TypeOK
    <3>. QED
      BY <2>1, <2>5, <2>6, <3>1, <3>2 DEF UpdateWrite
  <2>7. ASSUME NEW x \in Uids, NEW d \in Uids \cup {None}, NEW s \in Statuses \cup {"none"},
               UpdateInMap(x, d, s)
        PROVE  Goal
    <3>1. Exists(x) /\ Or(d, x) \in Uids /\ Or(s, cards[x].status) \in Statuses
      BY <2>7, OrTypes, CardParts DEF UpdateInMap
    <3>. QED
      BY <2>5, <2>7, <3>1 DEF UpdateInMap
  <2>8. ASSUME NEW r \in Requests, ClaimWrite(r) PROVE Goal
    BY <2>1, <2>8 DEF ClaimWrite, CardOf, Entitled, TypeOK
  <2>9. ASSUME NEW u \in Users, NEW d \in Uids, ClaimInMap(u, d) PROVE Goal
    BY <2>1, <2>9 DEF ClaimInMap, CardOf, Entitled, TypeOK
  <2>10. ASSUME NEW u \in Users, NEW S \in SUBSET Uids, Unlink(u, S) PROVE Goal
    BY <2>1, <2>10 DEF Unlink, Provisioned
  <2>11. ASSUME NEW r \in Requests, TapWrite(r) PROVE Goal
    <3>1. CASE /\ req[r].user \in accounts \cup {None}
               /\ cards' = [cards EXCEPT ![req[r].uid] = CardOf(req[r].user)]
               /\ c = req[r].uid
      <4>1. cards'[c].owner = req[r].user /\ req[r].user \in accounts
        BY <3>1 DEF CardOf, TypeOK
      <4>2. Entitled(req[r].user, c)
        BY <2>11, <3>1, <4>1 DEF TapWrite, ClaimInv, RequestsClaimed, CarriesClaim
      <4>. QED
        BY <2>0, <4>1, <4>2 DEF Entitled
    <3>. QED
      BY <2>1, <2>11, <3>1 DEF TapWrite, TypeOK
  <2>. QED
    BY <1>2, <2>1, <2>2, <2>3, <2>4, <2>6, <2>7, <2>8, <2>9, <2>10, <2>11
    DEF Next, UpdateRead, ClaimRead, LinkProfile, InsertProfile, MakeProfile, TapRead
<1>. QED
  BY <1>1, <1>2

\* A card only ever belongs to a user who claimed it, or whom a tap has named,
\* whatever is renamed, deleted and tapped in between.
THEOREM OwnersClaimed == Spec => []OwnedByClaimant
<1>1. Init => ClaimInv
  BY DEF Init, ClaimInv, OwnedByClaimant, LinksClaimed, RequestsClaimed, CarriesClaim,
         CardOf, Exists, Quiet, At, Idle
<1>2. TypeOK /\ OwnersExist /\ ClaimInv /\ [Next]_vars => ClaimInv'
  <2>1. TypeOK /\ OwnersExist /\ ClaimInv /\ Next => ClaimInv'
    BY OwnedStep, LinksClaimedStep, RequestsStep DEF ClaimInv
  <2>2. ClaimInv /\ UNCHANGED vars => ClaimInv'
    BY DEF ClaimInv, OwnedByClaimant, LinksClaimed, RequestsClaimed, CarriesClaim,
           Entitled, Exists, At, Idle, vars
  <2>. QED
    BY <2>1, <2>2
<1>3. ClaimInv => OwnedByClaimant
  BY DEF ClaimInv
<1>. QED
  BY <1>1, <1>2, <1>3, TypeCorrect, OwnersAreAccounts, PTL DEF Spec
-----------------------------------------------------------------------------

(***************************************************************************)
(* Whose card is refused to others.  An update writes a status that was    *)
(* given or the one it has read; so one that is not released has read that *)
(* the card is claimed, if it has an owner, and says so again.             *)
(***************************************************************************)
Safe(cds, rel) ==
    \A c \in Uids : cds[c] # None /\ cds[c].owner # None => cds[c].status = "claimed" \/ c \in rel
WritesBack(r) == At(r, "update") => req[r].read \in {"none", req[r].status}
KeepInv == Safe(cards, released) /\ \A r \in Requests : WritesBack(r)

LEMMA WritesBackStep ==
    ASSUME TypeOK, Next, \A r \in Requests : WritesBack(r)
    PROVE  (\A r \in Requests : WritesBack(r))'
<1> DEFINE Back(x) == x.pc = "update" => x.read \in {"none", x.status}
<1> SUFFICES ASSUME NEW q \in Requests PROVE Back(req'[q])
  BY DEF WritesBack, At
<1>1. Back(req[q])
  BY DEF WritesBack, At
<1>2. ASSUME NEW x, req' = [req EXCEPT ![q] = x], Back(x) PROVE Back(req'[q])
  BY <1>2 DEF TypeOK
<1>3. ASSUME req'[q] = req[q] PROVE Back(req'[q])
  BY <1>1, <1>3
<1>4. ASSUME NEW r \in Requests, Done(r) PROVE Back(req'[q])
  BY <1>1, <1>4 DEF Done, Quiet, TypeOK
<1>5. ASSUME NEW r \in Requests, NEW pc \in {"link", "insert"}, Goto(r, pc) PROVE Back(req'[q])
  <2>1. CASE q # r
    BY <1>3, <1>5, <2>1 DEF Goto, TypeOK
  <2>2. CASE q = r
    <3>1. req'[q] = [req[q] EXCEPT !.pc = pc]
      BY <1>5, <2>2 DEF Goto, TypeOK
    <3>2. "pc" \in DOMAIN req[q]
      BY DEF TypeOK, Quiet, Updates, Claims, Taps
    <3>3. req'[q].pc = pc
      BY <3>1, <3>2
    <3>. QED
      BY <3>3
  <2>. QED
    BY <2>1, <2>2
<1>6. ASSUME NEW r \in Requests, NEW c \in Uids, NEW d \in Uids \cup {None},
             NEW s \in Statuses \cup {"none"}, UpdateRead(r, c, d, s)
      PROVE  Back(req'[q])
  <2>1. CASE q # r
    BY <1>3, <1>6, <2>1 DEF UpdateRead, TypeOK
  <2>2. CASE q = r
    BY <1>6, <2>2 DEF UpdateRead, Or, TypeOK
  <2>. QED
    BY <2>1, <2>2
<1>7. ASSUME NEW r \in Requests, NEW u \in Users, NEW c \in Uids, ClaimRead(r, u, c)
      PROVE  Back(req'[q])
  BY <1>1, <1>7 DEF ClaimRead, Quiet, TypeOK
<1>8. ASSUME NEW r \in Requests, NEW c \in Uids, TapRead(r, c) PROVE Back(req'[q])
  <2>1. PICK u \in Users \cup {None}, d \in Uids :
           req' = [req EXCEPT ![r] = [Quiet EXCEPT !.pc = "tap", !.user = u, !.uid = d]]
    BY <1>8, TapReadIs
  <2>. QED
    BY <1>1, <2>1 DEF Quiet, TypeOK
<1>9. CASE UNCHANGED req
  BY <1>3, <1>9
<1> HIDE DEF Back
<1>. QED
  BY <1>4, <1>5, <1>6, <1>7, <1>8, <1>9
  DEF Next, CreateCard, DeleteCard, ProvisionBatch, UpdateInMap, UpdateWrite, ClaimInMap,
      ClaimWrite, LinkProfile, InsertProfile, Unlink, MakeProfile, TapWrite, DeleteAccount

\* An update that writes the status given, or else the one it has read.
LEMMA MovedSafe ==
    ASSUME TypeOK, Safe(cards, released), NEW x \in Uids, Exists(x), NEW d \in Uids,
           NEW status \in Statuses, NEW read \in {"none", status},
           cards' = Moved(x, d, status), Release(x, d, status, read)
    PROVE  Safe(cards', released')
<1> SUFFICES ASSUME NEW c \in Uids, cards'[c] # None, cards'[c].owner # None
             PROVE  cards'[c].status = "claimed" \/ c \in released'
  BY DEF Safe
<1>1. CASE c = d
  <2>1. cards'[c].owner = cards[x].owner /\ cards'[c].status = status
    BY <1>1, CardParts DEF Moved, Card
  <2>2. cards[x].status = "claimed" \/ x \in released
    BY <2>1 DEF Safe, Exists
  <2>. QED
    BY <1>1, <2>1, <2>2 DEF Release, Statuses
<1>2. CASE c # d
  <2>1. c # x /\ cards'[c] = cards[c]
    BY <1>2 DEF Moved
  <2>. QED
    BY <1>2, <2>1 DEF Release, Safe
<1>. QED
  BY <1>1, <1>2

LEMMA SafeStep ==
    ASSUME TypeOK, Next, KeepInv
    PROVE  Safe(cards', released')
<1>0. Safe(cards, released)
  BY DEF KeepInv
<1>1. CASE UNCHANGED <<cards, released>>
  BY <1>0, <1>1
<1>2. ASSUME NEW c \in Uids, NEW s \in Statuses, CreateCard(c, s) PROVE Safe(cards', released')
  BY <1>0, <1>2 DEF CreateCard, Safe, TypeOK
<1>3. ASSUME NEW c \in Uids, DeleteCard(c) PROVE Safe(cards', released')
  BY <1>0, <1>3 DEF DeleteCard, Safe, TypeOK
<1>4. ASSUME NEW S \in SUBSET Uids, ProvisionBatch(S) PROVE Safe(cards', released')
  BY <1>0, <1>4 DEF ProvisionBatch, Provisioned, Safe
<1>5. ASSUME NEW r \in Requests, UpdateWrite(r) PROVE Safe(cards', released')
  <2>1. req[r].uid \in Uids /\ req[r].status \in Statuses /\ req[r].read \in {"none", req[r].status}
    BY <1>5, RequestParts DEF UpdateWrite, Updates, KeepInv, WritesBack
  <2>2. CASE /\ cards' = [cards EXCEPT ![req[r].uid] = None]
             /\ released' = released \ {req[r].uid}
    BY <1>0, <2>1, <2>2 DEF Safe, TypeOK
  <2>. QED
    BY <1>0, <1>1, <1>5, <2>1, <2>2, MovedSafe DEF UpdateWrite
<1>6. ASSUME NEW x \in Uids, NEW d \in Uids \cup {None}, NEW s \in Statuses \cup {"none"},
             UpdateInMap(x, d, s)
      PROVE  Safe(cards', released')
  <2>. DEFINE status == Or(s, cards[x].status)
              read == IF s = "none" THEN cards[x].status ELSE "none"
  <2>1. Exists(x) /\ Or(d, x) \in Uids /\ status \in Statuses
    BY <1>6, OrTypes, CardParts DEF UpdateInMap
  <2>2. read \in {"none", status}
    BY DEF Or
  <2>3. cards' = Moved(x, Or(d, x), status) /\ Release(x, Or(d, x), status, read)
    BY <1>6 DEF UpdateInMap
  <2>. HIDE DEF status, read
  <2>. QED
    BY <1>0, <2>1, <2>2, <2>3, MovedSafe
<1>7. ASSUME NEW r \in Requests, ClaimWrite(r) PROVE Safe(cards', released')
  BY <1>0, <1>1, <1>7 DEF ClaimWrite, CardOf, Safe, Exists, TypeOK
<1>8. ASSUME NEW u \in Users, NEW c \in Uids, ClaimInMap(u, c) PROVE Safe(cards', released')
  BY <1>0, <1>8 DEF ClaimInMap, CardOf, Safe, TypeOK
<1>9. ASSUME NEW u \in Users, NEW S \in SUBSET Uids, Unlink(u, S) PROVE Safe(cards', released')
  BY <1>0, <1>9 DEF Unlink, Provisioned, Safe
<1>10. ASSUME NEW r \in Requests, TapWrite(r) PROVE Safe(cards', released')
  BY <1>0, <1>10 DEF TapWrite, CardOf, Safe, TypeOK
<1>11. ASSUME NEW u \in Users, DeleteAccount(u) PROVE Safe(cards', released')
  <2> SUFFICES ASSUME NEW c \in Uids, cards'[c] # None, cards'[c].owner # None
               PROVE  cards'[c] = cards[c] /\ released' = released
    BY <1>0 DEF Safe
  <2>1. CASE db
    <3>1. cards'[c] = IF Exists(c) /\ cards[c].owner = u
                      THEN [cards[c] EXCEPT !.owner = None] ELSE cards[c]
      BY <1>11, <2>1 DEF DeleteAccount
    <3>2. Exists(c) => [cards[c] EXCEPT !.owner = None].owner = None
      BY CardParts DEF Card
    <3>. QED
      BY <1>11, <3>1, <3>2 DEF DeleteAccount
  <2>. QED
    BY <1>11, <2>1 DEF DeleteAccount
<1>. QED
  BY <1>1, <1>2, <1>3, <1>4, <1>5, <1>6, <1>7, <1>8, <1>9, <1>10, <1>11
  DEF Next, UpdateRead, ClaimRead, TapRead, LinkProfile, InsertProfile, MakeProfile

\* A card with an owner is refused to all other users, whatever is renamed,
\* tapped, unlinked and deleted, until an update of the administrator takes its
\* status: on purpose, after a SELECT that failed, or overtaken by a claim.
THEOREM OwnedAreRefused == Spec => []OwnedIsRefused
<1>1. Init => KeepInv
  BY DEF Init, KeepInv, Safe, WritesBack, CardOf, Quiet, At
<1>2. TypeOK /\ KeepInv /\ [Next]_vars => KeepInv'
  <2>1. TypeOK /\ KeepInv /\ Next => KeepInv'
    BY SafeStep, WritesBackStep DEF KeepInv
  <2>2. KeepInv /\ UNCHANGED vars => KeepInv'
    BY DEF KeepInv, Safe, WritesBack, At, vars
  <2>. QED
    BY <2>1, <2>2
<1>3. KeepInv => OwnedIsRefused
  BY DEF KeepInv, Safe, OwnedIsRefused, Claimable, Exists
<1>. QED
  BY <1>1, <1>2, <1>3, TypeCorrect, PTL DEF Spec
=============================================================================
