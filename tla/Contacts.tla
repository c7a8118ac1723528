------------------------------ MODULE Contacts ------------------------------
(***************************************************************************)
(* ContactService and the contacts page: several pages, of one user or of  *)
(* several, save, change and delete contacts and list them again.          *)
(*                                                                         *)
(* A request is a call: it is sent by a page (or, for an update or a       *)
(* delete, with an id that no page shows any more), looks at the database, *)
(* writes, and is answered; the lists a page asks for after each success   *)
(* may overtake each other.  An account has one address and one username,  *)
(* both written as the account; it is registered at some time and never    *)
(* deleted.                                                                *)
(***************************************************************************)
EXTENDS Integers, FiniteSets

CONSTANTS
    User,
    Page,
    Call,       \* requests that may be under way together
    Account,    \* those a contact may name
    None,       \* a null column, a field the request leaves out
    MaxContacts \* bound: contacts created in a run

ASSUME ContactsAssumption ==
    /\ None \notin Account
    /\ IsFiniteSet(Call)
    /\ MaxContacts \in Nat

VARIABLES
    owner,     \* per page: who is signed in
    registered, \* the accounts in the Wallet and the User table
    contacts,  \* the Contact table
    born,      \* the ids given out: 1..born
    page,      \* per page: the list it shows, and whether its modal is busy
    call,
    astray     \* history, per page: an answer was lost, or a list overtook an older one

vars == <<owner, registered, contacts, born, page, call, astray>>

Id == 1..MaxContacts

Idle == [stage |-> "idle"]

Init ==
    /\ owner \in [Page -> User]
    /\ registered = {}
    /\ contacts = {}
    /\ born = 0
    /\ page = [p \in Page |-> [list |-> {}, busy |-> FALSE]]
    /\ call = [c \in Call |-> Idle]
    /\ astray = [p \in Page |-> FALSE]

-----------------------------------------------------------------------------
(* The page.                                                               *)

Request(p, kind, id, address, username) ==
    [stage |-> "sent", page |-> p, kind |-> kind, id |-> id, address |-> address,
     username |-> username, answer |-> 0, list |-> {}, order |-> 0]

\* A modal of the page sends, and is disabled until the answer.
Submit(p, c, kind, id, address, username) ==
    /\ ~page[p].busy
    /\ call[c] = Idle
    /\ call' = [call EXCEPT ![c] = Request(p, kind, id, address, username)]
    /\ page' = [page EXCEPT ![p].busy = TRUE]
    /\ UNCHANGED <<owner, registered, contacts, born, astray>>

\* handleSaveContact: a new contact needs an address or a username.
SaveNew(p, c, address, username) ==
    /\ born < MaxContacts
    /\ address # None \/ username # None
    /\ Submit(p, c, "create", 0, address, username)

\* handleSaveContact of an edit: what the user clears is left out.
SaveEdit(p, c, id, address, username) ==
    /\ address # None \/ username # None
    /\ Submit(p, c, "update", id, address, username)

DeleteContact(p, c, id) == Submit(p, c, "delete", id, None, None)

Quiet(p) == \A c \in Call : call[c] # Idle => call[c].page # p

\* fetchContacts, when the page opens.
OpenPage(p, c) ==
    /\ call[c] = Idle
    /\ Quiet(p)
    /\ call' = [call EXCEPT ![c] = Request(p, "list", 0, None, None)]
    /\ UNCHANGED <<owner, registered, contacts, born, page, astray>>

-----------------------------------------------------------------------------
(* The service.                                                            *)

At(c, stage, kinds) == call[c].stage = stage /\ call[c].kind \in kinds
Caller(c) == owner[call[c].page]

\* The answer is out; what the request said is of no use any more.
Answered(old, status) ==
    [Request(old.page, old.kind, 0, None, None) EXCEPT !.stage = "answered", !.answer = status]

Answer(c, status) == call' = [call EXCEPT ![c] = Answered(@, status)]

\* createContact: the address and the username must exist.
CheckExists(c) ==
    /\ At(c, "sent", {"create"})
    /\ IF {call[c].address, call[c].username} \subseteq registered \cup {None}
       THEN call' = [call EXCEPT ![c].stage = "checked"] ELSE Answer(c, 404)
    /\ UNCHANGED <<owner, registered, contacts, born, page, astray>>

\* The unique columns of a user's contacts; nulls do not clash.
Clashes(r, s) ==
    /\ r.id # s.id
    /\ r.owner = s.owner
    /\ \/ r.address = s.address /\ r.address # None
       \/ r.username = s.username /\ r.username # None

Taken(r) == \E s \in contacts : Clashes(r, s)

\* Mutant: the schema has no unique constraints.
InsertUnconstrained(c) ==
    /\ At(c, "checked", {"create"})
    /\ born < MaxContacts
    /\ born' = born + 1
    /\ contacts' = contacts \cup {[id |-> born', owner |-> Caller(c), address |-> call[c].address,
                                   username |-> call[c].username]}
    /\ Answer(c, 201)
    /\ UNCHANGED <<owner, registered, page, astray>>

Insert(c) ==
    /\ At(c, "checked", {"create"})
    /\ born < MaxContacts
    /\ LET r == [id |-> born + 1, owner |-> Caller(c), address |-> call[c].address,
                 username |-> call[c].username] IN
         IF Taken(r)
         THEN Answer(c, 409) /\ UNCHANGED <<contacts, born>>
         ELSE /\ contacts' = contacts \cup {r}
              /\ born' = born + 1
              /\ Answer(c, 201)
    /\ UNCHANGED <<owner, registered, page, astray>>

Found(c) == {r \in contacts : r.id = call[c].id}

\* Mutant: the contact is looked up by its id alone.
FindAnyones(c) ==
    /\ At(c, "sent", {"update", "delete"})
    /\ IF Found(c) # {} THEN call' = [call EXCEPT ![c].stage = "checked"] ELSE Answer(c, 404)
    /\ UNCHANGED <<owner, registered, contacts, born, page, astray>>

\* updateContact and deleteContact: findFirst on the id and the user.
FindOwned(c) ==
    /\ At(c, "sent", {"update", "delete"})
    /\ IF \E r \in Found(c) : r.owner = Caller(c)
       THEN call' = [call EXCEPT ![c].stage = "checked"] ELSE Answer(c, 404)
    /\ UNCHANGED <<owner, registered, contacts, born, page, astray>>

\* The update is by id; fields that were left out keep their values.  A contact
\* that has gone since the check is an error of Prisma's.
UpdateRow(c) ==
    /\ At(c, "checked", {"update"})
    /\ \/ Found(c) = {} /\ Answer(c, 500) /\ UNCHANGED contacts
       \/ \E old \in Found(c) :
            LET new == [old EXCEPT !.address = IF call[c].address = None THEN @ ELSE call[c].address,
                                   !.username = IF call[c].username = None THEN @ ELSE call[c].username] IN
            IF Taken(new) THEN Answer(c, 409) /\ UNCHANGED contacts
            ELSE contacts' = (contacts \ {old}) \cup {new} /\ Answer(c, 200)
    /\ UNCHANGED <<owner, registered, born, page, astray>>

DeleteRow(c) ==
    /\ At(c, "checked", {"delete"})
    /\ contacts' = contacts \ Found(c)
    /\ Answer(c, IF Found(c) = {} THEN 500 ELSE 200)
    /\ UNCHANGED <<owner, registered, born, page, astray>>

\* Lists that were read for a page and have not arrived yet.
Travelling(p) ==
    {d \in Call : At(d, "answered", {"list"}) /\ call[d].answer = 200 /\ call[d].page = p}

\* The other lists of its page, once one has arrived or is lost.
ClosedUp(c) ==
    [d \in Call |->
        IF {c, d} \subseteq Travelling(call[c].page) /\ call[d].order > call[c].order
        THEN [call[d] EXCEPT !.order = @ - 1] ELSE call[d]]

\* Mutant: the list is not restricted to the user.
ReadListOfAll(c) ==
    /\ At(c, "sent", {"list"})
    /\ call' = [call EXCEPT ![c].stage = "answered", ![c].answer = 200, ![c].list = contacts,
                            ![c].order = 1 + Cardinality(Travelling(call[c].page))]
    /\ UNCHANGED <<owner, registered, contacts, born, page, astray>>

\* listContacts; order is the place of the list among those, oldest first.
ReadList(c) ==
    /\ At(c, "sent", {"list"})
    /\ call' = [call EXCEPT ![c].stage = "answered", ![c].answer = 200,
                            ![c].order = 1 + Cardinality(Travelling(call[c].page)),
                            ![c].list = {r \in contacts : r.owner = Caller(c)}]
    /\ UNCHANGED <<owner, registered, contacts, born, page, astray>>

\* The network or the database fails, before the write or after it.
Lose(c) ==
    /\ call[c].stage \in {"sent", "checked", "answered"}
    /\ call[c].answer # 500
    /\ call' = [ClosedUp(c) EXCEPT ![c] = Answered(@, 500)]
    /\ astray' = [astray EXCEPT ![call[c].page] = TRUE]
    /\ UNCHANGED <<owner, registered, contacts, born, page>>

-----------------------------------------------------------------------------
(* Answers.                                                                *)

Success(c) == call[c].answer \in {200, 201}

\* Mutant: the list is not fetched again.
HearSaveOnly(c) ==
    /\ At(c, "answered", {"create", "update", "delete"})
    /\ page' = [page EXCEPT ![call[c].page].busy = FALSE]
    /\ call' = [call EXCEPT ![c] = Idle]
    /\ UNCHANGED <<owner, registered, contacts, born, astray>>

\* After a success the list is fetched again; after an error the page says so
\* and shows what it showed.
HearSave(c) ==
    /\ At(c, "answered", {"create", "update", "delete"})
    /\ page' = [page EXCEPT ![call[c].page].busy = FALSE]
    /\ call' = [call EXCEPT ![c] = IF Success(c) THEN Request(call[c].page, "list", 0, None, None) ELSE Idle]
    /\ UNCHANGED <<owner, registered, contacts, born, astray>>

\* setContacts, whichever list comes last.
HearList(c) ==
    LET p == call[c].page IN
    /\ At(c, "answered", {"list"})
    /\ IF Success(c)
       THEN /\ page' = [page EXCEPT ![p].list = call[c].list]
            /\ astray' = [astray EXCEPT ![p] =
                            @ \/ \E d \in Travelling(p) : call[d].order < call[c].order]
       ELSE UNCHANGED <<page, astray>>
    /\ call' = [ClosedUp(c) EXCEPT ![c] = Idle]
    /\ UNCHANGED <<owner, registered, contacts, born>>

\* Somebody registers (Accounts).
Register(a) ==
    /\ a \notin registered
    /\ registered' = registered \cup {a}
    /\ UNCHANGED <<owner, contacts, born, page, call, astray>>

-----------------------------------------------------------------------------
Serve(c) == CheckExists(c) \/ Insert(c) \/ FindOwned(c) \/ UpdateRow(c) \/ DeleteRow(c) \/ ReadList(c)
Hear(c) == HearSave(c) \/ HearList(c)

Next ==
    \/ \E p \in Page, c \in Call :
         \/ OpenPage(p, c)
         \/ \E address \in Account \cup {None}, username \in Account \cup {None} :
              \/ SaveNew(p, c, address, username)
              \/ \E id \in 1..born : SaveEdit(p, c, id, address, username)
         \/ \E id \in 1..born : DeleteContact(p, c, id)
    \/ \E c \in Call : Serve(c) \/ Lose(c) \/ Hear(c)
    \/ \E a \in Account : Register(a)

Spec == Init /\ [][Next]_vars

-----------------------------------------------------------------------------
(* Properties.                                                             *)

Row == [id : Id, owner : User, address : Account \cup {None}, username : Account \cup {None}]

CallType ==
    [stage : {"sent", "checked", "answered"}, page : Page,
     kind : {"create", "update", "delete", "list"}, id : 0..MaxContacts,
     address : Account \cup {None}, username : Account \cup {None},
     answer : {0, 200, 201, 404, 409, 500}, list : SUBSET Row, order : Int]

\* The types of the variables; a page shows contacts of its own user.
TypeOK ==
    /\ owner \in [Page -> User]
    /\ registered \subseteq Account
    /\ contacts \subseteq Row
    /\ born \in 0..MaxContacts
    /\ page \in [Page -> [list : SUBSET Row, busy : BOOLEAN]]
    /\ call \in [Call -> CallType \cup {Idle}]
    /\ astray \in [Page -> BOOLEAN]
    /\ \A p \in Page : \A r \in page[p].list : r.owner = owner[p]

\* However the saves of one user's pages interleave between their checks and
\* their writes, no two contacts name the same address or the same username
\* (requirement 6.6), and every contact names somebody to pay.
ContactsAreDistinct ==
    \A r \in contacts :
        /\ ~Taken(r)
        /\ r.address # None \/ r.username # None

\* Nobody changes or loses a contact by a request of another user, whatever id
\* it carries and however long ago it was checked.
OnlyOwnersWrite ==
    [][\A r \in contacts \ contacts' :
        \E c \in Call : call[c].stage = "checked" /\ call'[c] # call[c] /\ Caller(c) = r.owner]_vars

Alone(p) == \A q \in Page \ {p} : owner[q] # owner[p]

\* When a page has nothing under way it shows the contacts as they are: its own
\* saves and deletions are all there, unless an answer was lost, lists overtook
\* each other, or the user works on another page as well.
QuietListIsCurrent ==
    \A p \in Page :
        Quiet(p) /\ Alone(p) /\ ~astray[p] =>
            page[p].list = {r \in contacts : r.owner = owner[p]}
=============================================================================
