--------------------------- MODULE ContactsProofs ---------------------------
(***************************************************************************)
(* Proofs about Contacts, for any users, pages and requests under way.     *)
(*                                                                         *)
(* What has to be kept beside the table is what the check of a request     *)
(* still says when its write comes: ids are never given out again, so the  *)
(* contact an update or a delete has found is its caller's for good.  And  *)
(* beside the page, what is true of its list while answers are under way:  *)
(* the newest one is the table's, or another will be read.                 *)
(***************************************************************************)
EXTENDS Contacts, FiniteSetTheorems, TLAPS

\* An id names one contact, and was given out.
IdsAreNames ==
    /\ \A r \in contacts : r.id <= born
    /\ \A r, s \in contacts : r.id = s.id => r = s

\* What a request under way carries, and what its check has left true of it.
Sound(c) ==
    /\ call[c].id <= born
    /\ call[c].stage \in {"sent", "checked"} /\ call[c].kind = "create" =>
         call[c].address # None \/ call[c].username # None
    /\ At(c, "checked", {"update", "delete"}) =>
         \A r \in contacts : r.id = call[c].id => r.owner = Caller(c)
    /\ \A r \in call[c].list : r.owner = Caller(c)

CallsSound == \A c \in Call : call[c] # Idle => Sound(c)

TableInv == TypeOK /\ IdsAreNames /\ CallsSound /\ ContactsAreDistinct

-----------------------------------------------------------------------------
(* Requests and the places of lists.                                       *)

\* An idle place is no request.
LEMMA IdleIsNoCall == Idle \notin CallType
BY DEF Idle, CallType

\* What a page sends is a request.
LEMMA RequestIsCall ==
    ASSUME NEW p \in Page, NEW kind \in {"create", "update", "delete", "list"},
           NEW id \in 0..MaxContacts, NEW address \in Account \cup {None},
           NEW username \in Account \cup {None}
    PROVE  Request(p, kind, id, address, username) \in CallType
BY ContactsAssumption DEF Request, CallType

\* A request that has a stage is one.
LEMMA StagedIsCall ==
    ASSUME TypeOK, NEW c \in Call, NEW stage, stage # "idle", call[c].stage = stage
    PROVE  call[c] \in CallType /\ call[c] # Idle
BY DEF TypeOK, Idle

\* Lists that move up change nothing else of their request.
LEMMA MovingUp ==
    ASSUME TypeOK, NEW c \in Call, call[c] \in CallType
    PROVE  \A d \in Call :
             /\ ClosedUp(c)[d] \in CallType \cup {Idle}
             /\ ClosedUp(c)[d] = call[d]
                \/ \E n \in Int : call[d] \in CallType /\ ClosedUp(c)[d] = [call[d] EXCEPT !.order = n]
<1> SUFFICES ASSUME NEW d \in Call
             PROVE  /\ ClosedUp(c)[d] \in CallType \cup {Idle}
                    /\ ClosedUp(c)[d] = call[d]
                       \/ \E n \in Int : call[d] \in CallType /\ ClosedUp(c)[d] = [call[d] EXCEPT !.order = n]
  OBVIOUS
<1>1. CASE {c, d} \subseteq Travelling(call[c].page) /\ call[d].order > call[c].order
  <2>1. call[d].stage = "answered"
    BY <1>1 DEF Travelling, At
  <2>2. call[d] \in CallType
    BY <2>1, StagedIsCall
  <2>3. call[d].order - 1 \in Int
    BY <2>2 DEF CallType
  <2>4. ClosedUp(c)[d] = [call[d] EXCEPT !.order = call[d].order - 1]
    BY <1>1 DEF ClosedUp
  <2>5. [call[d] EXCEPT !.order = call[d].order - 1] \in CallType
    BY <2>2, <2>3 DEF CallType
  <2> QED
    BY <2>2, <2>3, <2>4, <2>5
<1>2. CASE ~({c, d} \subseteq Travelling(call[c].page) /\ call[d].order > call[c].order)
  BY <1>2 DEF ClosedUp, TypeOK
<1> QED
  BY <1>1, <1>2

\* At first there is nothing.
LEMMA InitTable == Init => TableInv
<1> SUFFICES ASSUME Init PROVE TableInv
  OBVIOUS
<1>1. TypeOK
  BY ContactsAssumption DEF Init, TypeOK
<1>2. IdsAreNames /\ CallsSound /\ ContactsAreDistinct
  BY DEF Init, IdsAreNames, CallsSound, ContactsAreDistinct
<1> QED
  BY <1>1, <1>2 DEF TableInv

\* The rows of a later table that have an id of today stand for rows of today.
RowsStem ==
    /\ owner' = owner /\ born <= born' /\ born' \in 0..MaxContacts
    /\ \A r \in contacts' : r.id <= born => \E s \in contacts : s.id = r.id /\ s.owner = r.owner

\* A request nobody serves, or whose list only moved up, stays sound.
LEMMA SoundStays ==
    ASSUME TableInv, RowsStem, NEW d \in Call, call[d] # Idle,
           call'[d] = call[d] \/ \E n \in Int : call'[d] = [call[d] EXCEPT !.order = n]
    PROVE  Sound(d)'
<1>1. call[d] \in CallType /\ Sound(d) /\ born \in 0..MaxContacts
  BY DEF TableInv, TypeOK, CallsSound
<1>2. /\ call'[d].id = call[d].id /\ call'[d].stage = call[d].stage
      /\ call'[d].kind = call[d].kind /\ call'[d].address = call[d].address
      /\ call'[d].username = call[d].username /\ call'[d].list = call[d].list
      /\ call'[d].page = call[d].page
  <2>1. CASE call'[d] = call[d]
    BY <2>1
  <2>2. CASE call'[d] # call[d]
    <3>1. PICK n \in Int : call'[d] = [call[d] EXCEPT !.order = n]
      BY <2>2
    <3> QED
      BY <1>1, <3>1 DEF CallType
  <2> QED
    BY <2>1, <2>2
<1>3. call[d].id \in 0..MaxContacts
  BY <1>1 DEF CallType
<1>4. Caller(d)' = Caller(d)
  BY <1>2 DEF Caller, RowsStem
<1>5. call'[d].id <= born'
  BY <1>1, <1>2, <1>3 DEF Sound, RowsStem
<1>6. At(d, "checked", {"update", "delete"})' =>
        \A r \in contacts' : r.id = call'[d].id => r.owner = Caller(d)'
  BY <1>1, <1>2, <1>4 DEF Sound, At, RowsStem
<1> QED
  BY <1>1, <1>2, <1>4, <1>5, <1>6 DEF Sound

\* An answer, and a request just sent, carry nothing that could be stale.
LEMMA SoundFresh ==
    ASSUME TableInv, RowsStem, NEW c \in Call, call'[c].stage \in {"sent", "answered"},
           call'[c].id \in 0..born, call'[c].list = {},
           call'[c].stage = "sent" /\ call'[c].kind = "create" =>
             call'[c].address # None \/ call'[c].username # None
    PROVE  Sound(c)'
<1>1. born \in Nat /\ born <= born' /\ born' \in Nat
  BY DEF TableInv, TypeOK, RowsStem
<1> QED
  BY <1>1 DEF Sound, At

\* While the table stands still, so does what is said of it.
LEMMA TableStands ==
    ASSUME TableInv, UNCHANGED <<owner, contacts, born>>
    PROVE  RowsStem /\ IdsAreNames' /\ ContactsAreDistinct'
<1>1. born \in 0..MaxContacts
  BY DEF TableInv, TypeOK
<1> QED
  BY <1>1 DEF TableInv, RowsStem, IdsAreNames, ContactsAreDistinct, Taken

\* A step that serves or frees one request alone, and leaves the table.
LEMMA OneCall ==
    ASSUME TableInv, NEW c \in Call, NEW new \in CallType \cup {Idle},
           call' = [call EXCEPT ![c] = new],
           UNCHANGED <<owner, registered, contacts, born>>,
           page' \in [Page -> [list : SUBSET Row, busy : BOOLEAN]], astray' \in [Page -> BOOLEAN],
           \A p \in Page : page'[p].list = page[p].list,
           new # Idle => Sound(c)'
    PROVE  TableInv'
<1>1. RowsStem /\ IdsAreNames' /\ ContactsAreDistinct'
  BY TableStands
<1>2. TypeOK'
  BY DEF TableInv, TypeOK
<1>3. CallsSound'
  <2> SUFFICES ASSUME NEW d \in Call, call'[d] # Idle PROVE Sound(d)'
    BY DEF CallsSound, Idle
  <2>1. CASE d = c
    BY <2>1 DEF TableInv, TypeOK
  <2>2. CASE d # c
    <3>1. call'[d] = call[d]
      BY <2>2 DEF TableInv, TypeOK
    <3> QED
      BY <1>1, <3>1, SoundStays
  <2> QED
    BY <2>1, <2>2
<1> QED
  BY <1>1, <1>2, <1>3 DEF TableInv

-----------------------------------------------------------------------------
(* The steps.                                                              *)

\* A page sends.
LEMMA SubmitKeeps ==
    ASSUME TableInv, NEW p \in Page, NEW c \in Call, call[c] = Idle,
           NEW kind \in {"create", "update", "delete", "list"}, NEW id \in 0..born,
           NEW address \in Account \cup {None}, NEW username \in Account \cup {None},
           kind = "create" => address # None \/ username # None,
           call' = [call EXCEPT ![c] = Request(p, kind, id, address, username)],
           page' = page \/ page' = [page EXCEPT ![p].busy = TRUE],
           UNCHANGED <<owner, registered, contacts, born, astray>>
    PROVE  TableInv'
<1>1. TypeOK /\ id \in 0..MaxContacts
  BY ContactsAssumption DEF TableInv, TypeOK
<1>2. Request(p, kind, id, address, username) \in CallType
  BY <1>1, RequestIsCall
<1>3. /\ page' \in [Page -> [list : SUBSET Row, busy : BOOLEAN]]
      /\ \A q \in Page : page'[q].list = page[q].list
  BY <1>1 DEF TypeOK
<1>4. call'[c] = Request(p, kind, id, address, username)
  BY <1>1 DEF TypeOK
<1>5. Sound(c)'
  <2>1. /\ call'[c].stage = "sent" /\ call'[c].id = id /\ call'[c].list = {} /\ call'[c].kind = kind
        /\ call'[c].address = address /\ call'[c].username = username
    BY <1>4 DEF Request
  <2> QED
    BY <2>1, TableStands, SoundFresh
<1> QED
  BY <1>1, <1>2, <1>3, <1>5, OneCall DEF TypeOK

\* An answer is a request that carries nothing any more.
LEMMA AnsweredIsCall ==
    ASSUME NEW old \in CallType, NEW status \in {0, 200, 201, 404, 409, 500}
    PROVE  /\ Answered(old, status) \in CallType
           /\ Answered(old, status).stage = "answered"
           /\ Answered(old, status).id = 0 /\ Answered(old, status).list = {}
<1> DEFINE sent == Request(old.page, old.kind, 0, None, None)
           told == [sent EXCEPT !.stage = "answered"]
<1>1. old.page \in Page /\ old.kind \in {"create", "update", "delete", "list"}
  BY DEF CallType
<1>2. 0 \in 0..MaxContacts /\ {} \in SUBSET Row
  BY ContactsAssumption
<1>3. sent \in CallType /\ sent.id = 0 /\ sent.list = {}
  BY <1>1, <1>2, RequestIsCall DEF Request
<1>4. told \in CallType /\ told.stage = "answered" /\ told.id = 0 /\ told.list = {}
  <2> HIDE DEF sent
  <2> QED
    BY <1>3 DEF CallType
<1>5. Answered(old, status) = [told EXCEPT !.answer = status]
  BY DEF Answered
<1> HIDE DEF told
<1> QED
  BY <1>4, <1>5 DEF CallType

\* A request is answered, and the table stands.
LEMMA AnswerKeeps ==
    ASSUME TableInv, NEW c \in Call, call[c] \in CallType,
           NEW status \in {0, 200, 201, 404, 409, 500}, Answer(c, status),
           UNCHANGED <<owner, registered, contacts, born, page, astray>>
    PROVE  TableInv'
<1> DEFINE new == Answered(call[c], status)
<1>1. new \in CallType /\ new.stage = "answered" /\ new.id = 0 /\ new.list = {}
  BY AnsweredIsCall
<1>2. call' = [call EXCEPT ![c] = new]
  BY DEF Answer
<1> HIDE DEF new
<1>3. TypeOK /\ call'[c] = new /\ 0 \in 0..born
  BY <1>2 DEF TableInv, TypeOK
<1>4. Sound(c)'
  BY <1>1, <1>3, TableStands, SoundFresh
<1> QED
  BY <1>1, <1>2, <1>3, <1>4, OneCall DEF TypeOK

\* A request has been checked, and the table stands.
LEMMA CheckedKeeps ==
    ASSUME TableInv, NEW c \in Call, call[c] \in CallType, call[c].stage = "sent",
           call' = [call EXCEPT ![c].stage = "checked"],
           call[c].kind \in {"update", "delete"} =>
             \A r \in contacts : r.id = call[c].id => r.owner = Caller(c),
           UNCHANGED <<owner, registered, contacts, born, page, astray>>
    PROVE  TableInv'
<1> DEFINE new == [call[c] EXCEPT !.stage = "checked"]
<1>1. TypeOK /\ Sound(c)
  BY DEF TableInv, CallsSound, Idle
<1>2. /\ new \in CallType /\ new.stage = "checked" /\ new.id = call[c].id /\ new.page = call[c].page
      /\ new.kind = call[c].kind /\ new.list = call[c].list
      /\ new.address = call[c].address /\ new.username = call[c].username
  BY DEF CallType
<1>3. call' = [call EXCEPT ![c] = new]
  BY <1>1 DEF TypeOK
<1> HIDE DEF new
<1>4. call'[c] = new
  BY <1>1, <1>3 DEF TypeOK
<1>5. Sound(c)'
  BY <1>1, <1>2, <1>4 DEF Sound, At, Caller
<1> QED
  BY <1>1, <1>2, <1>3, <1>5, OneCall DEF TypeOK

\* The queries of the service that write nothing.
LEMMA ChecksKeep ==
    ASSUME TableInv, NEW c \in Call, CheckExists(c) \/ FindOwned(c)
    PROVE  TableInv'
<1>1. /\ call[c] \in CallType /\ call[c].stage = "sent"
      /\ UNCHANGED <<owner, registered, contacts, born, page, astray>>
  BY StagedIsCall DEF TableInv, CheckExists, FindOwned, At
<1>2. CASE Answer(c, 404)
  BY <1>1, <1>2, AnswerKeeps
<1>3. CASE CheckExists(c) /\ call' = [call EXCEPT ![c].stage = "checked"]
  <2>1. call[c].kind = "create"
    BY <1>3 DEF CheckExists, At
  <2> QED
    BY <1>1, <1>3, <2>1, CheckedKeeps
<1>4. CASE /\ \E r \in Found(c) : r.owner = Caller(c)
           /\ call' = [call EXCEPT ![c].stage = "checked"]
  <2>1. \A r \in contacts : r.id = call[c].id => r.owner = Caller(c)
    BY <1>4 DEF Found, TableInv, IdsAreNames
  <2> QED
    BY <1>1, <1>4, <2>1, CheckedKeeps
<1> QED
  BY <1>2, <1>3, <1>4 DEF CheckExists, FindOwned

\* A write answers its request; the rows it leaves are distinct, and those with
\* an id of before have the owner of before.
LEMMA WriteKeeps ==
    ASSUME TableInv, NEW c \in Call, call[c] \in CallType,
           NEW status \in {0, 200, 201, 404, 409, 500}, Answer(c, status),
           UNCHANGED <<registered, page, astray>>,
           RowsStem, contacts' \subseteq Row, IdsAreNames', ContactsAreDistinct'
    PROVE  TableInv'
<1>1. TypeOK
  BY DEF TableInv
<1>2. /\ Answered(call[c], status) \in CallType
      /\ Answered(call[c], status).stage = "answered"
      /\ Answered(call[c], status).id = 0 /\ Answered(call[c], status).list = {}
  BY AnsweredIsCall
<1>3. call' = [call EXCEPT ![c] = Answered(call[c], status)]
  BY DEF Answer
<1>4. call'[c] = Answered(call[c], status) /\ \A d \in Call \ {c} : call'[d] = call[d]
  BY <1>1, <1>3 DEF TypeOK
<1>5. TypeOK'
  BY <1>1, <1>2, <1>3 DEF TypeOK, RowsStem
<1>6. Sound(c)'
  BY <1>1, <1>2, <1>4, SoundFresh DEF TypeOK
<1>7. CallsSound'
  <2> SUFFICES ASSUME NEW d \in Call, call'[d] # Idle PROVE Sound(d)'
    BY DEF CallsSound, Idle
  <2>1. CASE d = c
    BY <1>6, <2>1
  <2>2. CASE d # c
    BY <1>4, <2>2, SoundStays
  <2> QED
    BY <2>1, <2>2
<1> QED
  BY <1>5, <1>7 DEF TableInv

LEMMA InsertKeeps ==
    ASSUME TableInv, NEW c \in Call, Insert(c)
    PROVE  TableInv'
<1> DEFINE new == [id |-> born + 1, owner |-> Caller(c), address |-> call[c].address,
                   username |-> call[c].username]
<1>1. /\ TypeOK /\ IdsAreNames /\ ContactsAreDistinct /\ At(c, "checked", {"create"})
      /\ born < MaxContacts /\ UNCHANGED <<owner, registered, page, astray>>
  BY DEF TableInv, Insert
<1>2. call[c] \in CallType /\ call[c] # Idle /\ Sound(c)
  BY <1>1, StagedIsCall DEF At, TableInv, CallsSound
<1>3. CASE Answer(c, 409) /\ UNCHANGED <<contacts, born>>
  BY <1>1, <1>2, <1>3, AnswerKeeps
<1>4. CASE ~Taken(new) /\ contacts' = contacts \cup {new} /\ born' = born + 1 /\ Answer(c, 201)
  <2>1. /\ new \in Row /\ new.id = born + 1 /\ new.owner = Caller(c)
        /\ new.address # None \/ new.username # None
    <3>1. born + 1 \in Id /\ Caller(c) \in User
      BY <1>1, <1>2, ContactsAssumption DEF TypeOK, Id, Caller, CallType
    <3>2. call[c].address # None \/ call[c].username # None
      BY <1>1, <1>2 DEF Sound, At
    <3> QED
      BY <1>2, <3>1, <3>2 DEF Row, CallType
  <2> HIDE DEF new
  <2>2. born \in Nat /\ born + 1 \in 0..MaxContacts /\ \A r \in contacts : r \in Row /\ r.id \in Nat
    BY <1>1, ContactsAssumption DEF TypeOK, Row, Id
  <2>3. RowsStem
    BY <1>1, <1>4, <2>1, <2>2 DEF RowsStem
  <2>4. IdsAreNames'
    BY <1>1, <1>4, <2>1, <2>2 DEF IdsAreNames
  <2>5. ContactsAreDistinct'
    <3>1. \A r \in contacts : ~Clashes(new, r) /\ ~Clashes(r, new)
      BY <1>4 DEF Taken, Clashes
    <3>2. ~Clashes(new, new)
      BY DEF Clashes
    <3> QED
      BY <1>1, <1>4, <2>1, <3>1, <3>2 DEF ContactsAreDistinct, Taken
  <2> QED
    BY <1>1, <1>2, <1>4, <2>1, <2>3, <2>4, <2>5, WriteKeeps DEF TypeOK
<1> QED
  BY <1>3, <1>4 DEF Insert

LEMMA UpdateKeeps ==
    ASSUME TableInv, NEW c \in Call, UpdateRow(c)
    PROVE  TableInv'
<1>1. /\ TypeOK /\ IdsAreNames /\ ContactsAreDistinct /\ At(c, "checked", {"update"})
      /\ UNCHANGED <<owner, registered, born, page, astray>>
  BY DEF TableInv, UpdateRow
<1>2. call[c] \in CallType
  BY <1>1, StagedIsCall DEF At
<1>3. ASSUME NEW status \in {409, 500}, Answer(c, status), UNCHANGED contacts PROVE TableInv'
  BY <1>1, <1>2, <1>3, AnswerKeeps
<1>4. ASSUME NEW old \in Found(c), NEW new, ~Taken(new), Answer(c, 200),
             contacts' = (contacts \ {old}) \cup {new},
             new = [old EXCEPT !.address = IF call[c].address = None THEN @ ELSE call[c].address,
                               !.username = IF call[c].username = None THEN @ ELSE call[c].username]
      PROVE  TableInv'
  <2>1. old \in contacts /\ old \in Row /\ old.id = call[c].id
    BY <1>1 DEF Found, TypeOK
  <2> DEFINE address == IF call[c].address = None THEN old.address ELSE call[c].address
             username == IF call[c].username = None THEN old.username ELSE call[c].username
             half == [old EXCEPT !.address = address]
  <2>a. address \in Account \cup {None} /\ username \in Account \cup {None}
    BY <1>2, <2>1 DEF Row, CallType
  <2>b. address # None \/ username # None
    <3>1. old.address # None \/ old.username # None
      BY <1>1, <2>1 DEF ContactsAreDistinct
    <3> QED
      BY <3>1
  <2>c. new = [half EXCEPT !.username = username]
    BY <1>4, <2>1 DEF Row
  <2> HIDE DEF address, username
  <2>d. /\ half \in Row /\ half.id = old.id /\ half.owner = old.owner /\ half.address = address
    BY <2>1, <2>a DEF Row
  <2> HIDE DEF half
  <2>2. /\ new \in Row /\ new.id = old.id /\ new.owner = old.owner
        /\ new.address = address /\ new.username = username
    BY <2>a, <2>c, <2>d DEF Row
  <2>3. new.address # None \/ new.username # None
    BY <2>b, <2>2
  <2>4. RowsStem
    <3>1. born \in 0..MaxContacts /\ born' = born /\ owner' = owner
      BY <1>1 DEF TypeOK
    <3>2. \A r \in contacts' : \E s \in contacts : s.id = r.id /\ s.owner = r.owner
      BY <1>4, <2>1, <2>2
    <3> QED
      BY <3>1, <3>2 DEF RowsStem
  <2>5. IdsAreNames'
    <3>1. old.id <= born /\ \A r \in contacts \ {old} : r.id # old.id
      BY <1>1, <2>1 DEF IdsAreNames
    <3> QED
      BY <1>1, <1>4, <2>2, <3>1 DEF IdsAreNames
  <2>6. ContactsAreDistinct'
    <3>1. \A r \in contacts : ~Clashes(new, r) /\ ~Clashes(r, new)
      BY <1>4 DEF Taken, Clashes
    <3>2. ~Clashes(new, new)
      BY DEF Clashes
    <3>3. \A r, s \in (contacts \ {old}) \cup {new} : ~Clashes(r, s)
      BY <1>1, <3>1, <3>2 DEF ContactsAreDistinct, Taken
    <3>4. \A r \in (contacts \ {old}) \cup {new} : r.address # None \/ r.username # None
      BY <1>1, <2>3 DEF ContactsAreDistinct
    <3> QED
      BY <1>4, <3>3, <3>4 DEF ContactsAreDistinct, Taken, Clashes
  <2> QED
    BY <1>1, <1>2, <1>4, <2>2, <2>4, <2>5, <2>6, WriteKeeps DEF TypeOK
<1> QED
  BY <1>3, <1>4 DEF UpdateRow

LEMMA DeleteKeeps ==
    ASSUME TableInv, NEW c \in Call, DeleteRow(c)
    PROVE  TableInv'
<1>1. /\ TypeOK /\ IdsAreNames /\ ContactsAreDistinct /\ At(c, "checked", {"delete"})
      /\ UNCHANGED <<owner, registered, born, page, astray>> /\ contacts' \subseteq contacts
      /\ \E status \in {200, 500} : Answer(c, status)
  BY DEF TableInv, DeleteRow
<1>2. call[c] \in CallType
  BY <1>1, StagedIsCall DEF At
<1>3. RowsStem
  BY <1>1 DEF RowsStem, TypeOK
<1>4. IdsAreNames' /\ ContactsAreDistinct'
  BY <1>1 DEF IdsAreNames, ContactsAreDistinct, Taken
<1> QED
  BY <1>1, <1>2, <1>3, <1>4, WriteKeeps DEF TypeOK

\* A list holds the caller's contacts.
LEMMA ReadListKeeps ==
    ASSUME TableInv, NEW c \in Call, ReadList(c)
    PROVE  TableInv'
<1> DEFINE mine == {r \in contacts : r.owner = Caller(c)}
           place == 1 + Cardinality(Travelling(call[c].page))
           one == [call[c] EXCEPT !.stage = "answered"]
           two == [one EXCEPT !.answer = 200]
           three == [two EXCEPT !.order = place]
           new == [three EXCEPT !.list = mine]
<1>1. /\ TypeOK /\ call[c].stage = "sent"
      /\ UNCHANGED <<owner, registered, contacts, born, page, astray>>
  BY DEF TableInv, ReadList, At
<1>2. call[c] \in CallType /\ Sound(c) /\ mine \in SUBSET Row
  BY <1>1, StagedIsCall DEF TableInv, CallsSound, TypeOK
<1>3. call' = [call EXCEPT ![c] = new]
  BY <1>1 DEF ReadList, TypeOK
<1>4. place \in Int
  <2>1. Travelling(call[c].page) \subseteq Call
    BY DEF Travelling
  <2> QED
    BY <2>1, ContactsAssumption, FS_Subset, FS_CardinalityType
<1> HIDE DEF mine, place
<1>5. /\ new \in CallType /\ new.stage = "answered" /\ new.id = call[c].id
      /\ new.page = call[c].page /\ new.list = mine
  <2>1. one \in CallType /\ one.stage = "answered" /\ one.id = call[c].id /\ one.page = call[c].page
    BY <1>2 DEF CallType
  <2> HIDE DEF one
  <2>2. two \in CallType /\ two.stage = "answered" /\ two.id = call[c].id /\ two.page = call[c].page
    BY <2>1 DEF CallType
  <2> HIDE DEF two
  <2>3. three \in CallType /\ three.stage = "answered" /\ three.id = call[c].id
        /\ three.page = call[c].page
    BY <1>4, <2>2 DEF CallType
  <2> HIDE DEF three
  <2> QED
    BY <1>2, <2>3 DEF CallType
<1> HIDE DEF new
<1>6. call'[c] = new
  BY <1>1, <1>3 DEF TypeOK
<1>7. Sound(c)'
  BY <1>1, <1>2, <1>5, <1>6 DEF Sound, At, Caller, mine
<1> QED
  BY <1>1, <1>3, <1>5, <1>7, OneCall DEF TypeOK

\* A step that serves one request, and moves up the lists behind it.
LEMMA ClosingKeeps ==
    ASSUME TableInv, NEW c \in Call, call[c] \in CallType, NEW new \in CallType \cup {Idle},
           call' = [ClosedUp(c) EXCEPT ![c] = new],
           UNCHANGED <<owner, registered, contacts, born>>,
           page' \in [Page -> [list : SUBSET Row, busy : BOOLEAN]], astray' \in [Page -> BOOLEAN],
           \A p \in Page : \A r \in page'[p].list : r.owner = owner[p],
           new # Idle => Sound(c)'
    PROVE  TableInv'
<1>1. RowsStem /\ IdsAreNames' /\ ContactsAreDistinct'
  BY TableStands
<1>2. TypeOK
  BY DEF TableInv
<1>3. \A d \in Call : /\ ClosedUp(c)[d] \in CallType \cup {Idle}
                      /\ ClosedUp(c)[d] = call[d]
                         \/ \E n \in Int : /\ call[d] \in CallType
                                           /\ ClosedUp(c)[d] = [call[d] EXCEPT !.order = n]
  BY <1>2, MovingUp
<1>4. /\ call' \in [Call -> CallType \cup {Idle}] /\ call'[c] = new
      /\ \A d \in Call \ {c} : call'[d] = ClosedUp(c)[d]
  <2>1. ClosedUp(c) = [d \in Call |-> ClosedUp(c)[d]]
    BY DEF ClosedUp
  <2> QED
    BY <1>3, <2>1
<1>5. TypeOK'
  BY <1>2, <1>4 DEF TypeOK
<1>6. CallsSound'
  <2> SUFFICES ASSUME NEW d \in Call, call'[d] # Idle PROVE Sound(d)'
    BY DEF CallsSound, Idle
  <2>1. CASE d = c
    BY <1>4, <2>1
  <2>2. CASE d # c
    <3>1. \/ call'[d] = call[d]
          \/ \E n \in Int : call[d] \in CallType /\ call'[d] = [call[d] EXCEPT !.order = n]
      BY <1>3, <1>4, <2>2
    <3>2. call[d] # Idle
      BY <2>2, <3>1, IdleIsNoCall
    <3> QED
      BY <1>1, <3>1, <3>2, SoundStays
  <2> QED
    BY <2>1, <2>2
<1> QED
  BY <1>1, <1>5, <1>6 DEF TableInv

LEMMA LoseKeeps ==
    ASSUME TableInv, NEW c \in Call, Lose(c)
    PROVE  TableInv'
<1>1. TypeOK /\ call[c] \in CallType
  BY StagedIsCall DEF TableInv, Lose
<1>2. ClosedUp(c)[c] = call[c]
  BY <1>1 DEF ClosedUp, CallType
<1> DEFINE new == Answered(call[c], 500)
<1>3. new \in CallType /\ new.stage = "answered" /\ new.id = 0 /\ new.list = {}
  BY <1>1, AnsweredIsCall
<1>4. call' = [ClosedUp(c) EXCEPT ![c] = new]
  BY <1>2 DEF Lose
<1> HIDE DEF new
<1>5. call'[c] = new
  BY <1>4 DEF ClosedUp
<1>6. UNCHANGED <<owner, registered, contacts, born, page>> /\ astray' \in [Page -> BOOLEAN]
  BY <1>1 DEF Lose, TypeOK
<1>7. 0 \in 0..born
  BY <1>1, ContactsAssumption DEF TypeOK
<1>8. Sound(c)'
  BY <1>3, <1>5, <1>6, <1>7, TableStands, SoundFresh
<1> QED
  BY <1>1, <1>3, <1>4, <1>6, <1>8, ClosingKeeps DEF TypeOK

LEMMA HearListKeeps ==
    ASSUME TableInv, NEW c \in Call, HearList(c)
    PROVE  TableInv'
<1>1. /\ TypeOK /\ call[c] \in CallType /\ call[c] # Idle
      /\ call' = [ClosedUp(c) EXCEPT ![c] = Idle]
      /\ UNCHANGED <<owner, registered, contacts, born>>
  BY StagedIsCall DEF TableInv, HearList, At
<1>2. call[c].page \in Page /\ call[c].list \in SUBSET Row
  BY <1>1 DEF CallType
<1>3. \A r \in call[c].list : r.owner = owner[call[c].page]
  BY <1>1 DEF TableInv, CallsSound, Sound, Caller
<1>4. \/ UNCHANGED page
      \/ page' = [page EXCEPT ![call[c].page].list = call[c].list]
  BY DEF HearList
<1>5. astray' \in [Page -> BOOLEAN]
  BY <1>1, <1>2 DEF HearList, TypeOK
<1>6. /\ page' \in [Page -> [list : SUBSET Row, busy : BOOLEAN]]
      /\ \A p \in Page : \A r \in page'[p].list : r.owner = owner[p]
  <2>1. CASE UNCHANGED page
    BY <1>1, <2>1 DEF TypeOK
  <2>2. CASE page' = [page EXCEPT ![call[c].page].list = call[c].list]
    BY <1>1, <1>2, <1>3, <2>2 DEF TypeOK
  <2> QED
    BY <1>4, <2>1, <2>2
<1> QED
  BY <1>1, <1>5, <1>6, ClosingKeeps

LEMMA HearSaveKeeps ==
    ASSUME TableInv, NEW c \in Call, HearSave(c)
    PROVE  TableInv'
<1> DEFINE new == IF Success(c) THEN Request(call[c].page, "list", 0, None, None) ELSE Idle
<1>1. /\ TypeOK /\ call[c] \in CallType /\ call' = [call EXCEPT ![c] = new]
      /\ page' = [page EXCEPT ![call[c].page].busy = FALSE]
      /\ UNCHANGED <<owner, registered, contacts, born, astray>>
  BY StagedIsCall DEF TableInv, HearSave, At
<1>2. call[c].page \in Page /\ 0 \in 0..MaxContacts /\ 0 \in 0..born
  BY <1>1, ContactsAssumption DEF CallType, TypeOK
<1>3. /\ Request(call[c].page, "list", 0, None, None) \in CallType
      /\ new # Idle => /\ new.stage = "sent" /\ new.id = 0 /\ new.list = {} /\ new.kind = "list"
  BY <1>2, RequestIsCall DEF Request
<1>4. new \in CallType \cup {Idle}
  BY <1>3
<1> HIDE DEF new
<1>5. call'[c] = new
  BY <1>1 DEF TypeOK
<1>6. new # Idle => Sound(c)'
  <2> SUFFICES ASSUME new # Idle PROVE Sound(c)'
    OBVIOUS
  <2> QED
    BY <1>1, <1>2, <1>3, <1>5, TableStands, SoundFresh
<1>7. /\ page' \in [Page -> [list : SUBSET Row, busy : BOOLEAN]]
      /\ \A p \in Page : page'[p].list = page[p].list
  BY <1>1, <1>2 DEF TypeOK
<1> QED
  BY <1>1, <1>4, <1>6, <1>7, OneCall DEF TypeOK

\* Every step keeps the invariant.
LEMMA NextTable == TableInv /\ [Next]_vars => TableInv'
<1> SUFFICES ASSUME TableInv, [Next]_vars PROVE TableInv'
  OBVIOUS
<1>1. TypeOK /\ born \in 0..MaxContacts /\ 0 \in 0..born /\ 1..born \subseteq 0..born
  BY ContactsAssumption DEF TableInv, TypeOK
<1>2. ASSUME NEW p \in Page, NEW c \in Call, OpenPage(p, c) PROVE TableInv'
  BY <1>1, <1>2, SubmitKeeps DEF OpenPage
<1>3. ASSUME NEW p \in Page, NEW c \in Call, NEW address \in Account \cup {None},
             NEW username \in Account \cup {None}, SaveNew(p, c, address, username)
      PROVE  TableInv'
  BY <1>1, <1>3, SubmitKeeps DEF SaveNew, Submit
<1>4. ASSUME NEW p \in Page, NEW c \in Call, NEW id \in 1..born,
             NEW address \in Account \cup {None},
             NEW username \in Account \cup {None}, SaveEdit(p, c, id, address, username)
      PROVE  TableInv'
  BY <1>1, <1>4, SubmitKeeps DEF SaveEdit, Submit
<1>5. ASSUME NEW p \in Page, NEW c \in Call, NEW id \in 1..born, DeleteContact(p, c, id)
      PROVE  TableInv'
  BY <1>1, <1>5, SubmitKeeps DEF DeleteContact, Submit
<1>6. ASSUME NEW c \in Call, Serve(c) PROVE TableInv'
  BY <1>6, ChecksKeep, InsertKeeps, UpdateKeeps, DeleteKeeps, ReadListKeeps DEF Serve
<1>7. ASSUME NEW c \in Call, Lose(c) \/ Hear(c) PROVE TableInv'
  BY <1>7, LoseKeeps, HearListKeeps, HearSaveKeeps DEF Hear
<1>8. ASSUME NEW a \in Account, Register(a) PROVE TableInv'
  <2>1. UNCHANGED <<owner, contacts, born, page, call, astray>> /\ registered' \subseteq Account
    BY <1>1, <1>8 DEF Register, TypeOK
  <2>2. TypeOK'
    BY <1>1, <2>1 DEF TypeOK
  <2>3. CallsSound'
    BY <2>1 DEF TableInv, CallsSound, Sound, At, Caller
  <2> QED
    BY <2>1, <2>2, <2>3, TableStands DEF TableInv
<1>9. CASE UNCHANGED vars
  <2>1. UNCHANGED <<owner, registered, contacts, born, page, call, astray>>
    BY <1>9 DEF vars
  <2>2. TypeOK'
    BY <1>1, <2>1 DEF TypeOK
  <2>3. CallsSound'
    BY <2>1 DEF TableInv, CallsSound, Sound, At, Caller
  <2> QED
    BY <2>1, <2>2, <2>3, TableStands DEF TableInv
<1> QED
  BY <1>2, <1>3, <1>4, <1>5, <1>6, <1>7, <1>8, <1>9 DEF Next

-----------------------------------------------------------------------------
(* The list of a quiet page.                                               *)
(*                                                                         *)
(* Between a write and the page that shows it stand an answer, the list    *)
(* asked for after it, and that list on its way.  So the invariant says of *)
(* a page what its newest list is once nothing promises a newer one, and   *)
(* keeps apart the places of the lists that travel.                        *)

\* A list that has been read for p and has not arrived.
Listed(r, p) == r.stage = "answered" /\ r.kind \in {"list"} /\ r.answer = 200 /\ r.page = p

\* A request after which a list will be read for p.
Promises(r, p) ==
    \/ r.stage = "sent" /\ r.kind = "list" /\ r.page = p
    \/ r.stage = "answered" /\ r.kind # "list" /\ r.answer \in {200, 201} /\ r.page = p

Promise(p) == \E c \in Call : Promises(call[c], p)

Mine(p) == {r \in contacts : r.owner = owner[p]}

\* The places of the lists on their way to p are distinct, from 1 on.
Orders(p) ==
    /\ \A d \in Travelling(p) : call[d].order \in 1..Cardinality(Travelling(p))
    /\ \A d, e \in Travelling(p) : call[d].order = call[e].order => d = e

\* The newest list, on its way or shown, is current.
Fresh(p) ==
    Alone(p) /\ ~astray[p] /\ ~Promise(p) =>
        /\ Travelling(p) = {} => page[p].list = Mine(p)
        /\ \A d \in Travelling(p) :
             (\A e \in Travelling(p) : call[e].order <= call[d].order) => call[d].list = Mine(p)

\* A list is answered with its rows, or lost.
Plain(r) == r.stage = "answered" /\ r.kind = "list" => r.answer \in {200, 500}

ListsOf(p) == Orders(p) /\ Fresh(p)

ListInv ==
    /\ TableInv
    /\ \A c \in Call : Plain(call[c])
    /\ \A p \in Page : ListsOf(p)

\* Which lists travel, now and after a step.
LEMMA TravellingAreListed ==
    \A p \in Page :
        /\ Travelling(p) = {d \in Call : Listed(call[d], p)}
        /\ Travelling(p)' = {d \in Call : Listed(call'[d], p)}
        /\ IsFiniteSet(Travelling(p))
<1>1. \A p \in Page : /\ Travelling(p) = {d \in Call : Listed(call[d], p)}
                      /\ Travelling(p)' = {d \in Call : Listed(call'[d], p)}
  BY DEF Travelling, At, Listed
<1>2. \A p \in Page : Travelling(p) \in SUBSET Call
  BY DEF Travelling
<1> QED
  BY <1>1, <1>2, ContactsAssumption, FS_Subset

\* The orders of a page that a step leaves alone.
LEMMA OrdersStand ==
    ASSUME NEW p \in Page, Orders(p),
           \A d \in Call : Listed(call'[d], p) <=> Listed(call[d], p),
           \A d \in Call : Listed(call[d], p) => call'[d].order = call[d].order
    PROVE  Travelling(p)' = Travelling(p) /\ Orders(p)'
<1>1. Travelling(p)' = Travelling(p)
  BY TravellingAreListed
<1>2. \A d \in Travelling(p) : call'[d].order = call[d].order
  BY TravellingAreListed
<1> QED
  BY <1>1, <1>2 DEF Orders

\* What a step leaves of a page whose lists it does not touch.
LEMMA ListsStand ==
    ASSUME NEW p \in Page, ListsOf(p), owner' = owner,
           \A d \in Call : Listed(call'[d], p) <=> Listed(call[d], p),
           \A d \in Call : Listed(call[d], p) =>
             call'[d].order = call[d].order /\ call'[d].list = call[d].list,
           Promise(p) => Promise(p)',
           Alone(p) => Mine(p)' = Mine(p) \/ Promise(p)',
           page'[p].list = page[p].list, astray'[p] = astray[p]
    PROVE  ListsOf(p)'
<1>1. Travelling(p)' = Travelling(p) /\ Orders(p)'
  BY OrdersStand DEF ListsOf
<1>2. \A d \in Travelling(p) : call'[d].order = call[d].order /\ call'[d].list = call[d].list
  BY TravellingAreListed
<1>3. ASSUME Alone(p)', ~astray'[p], ~Promise(p)'
      PROVE  /\ Travelling(p)' = {} => page'[p].list = Mine(p)'
             /\ \A d \in Travelling(p)' :
                  (\A e \in Travelling(p)' : call'[e].order <= call'[d].order) =>
                    call'[d].list = Mine(p)'
  <2>1. Alone(p) /\ Mine(p)' = Mine(p) /\ ~Promise(p) /\ ~astray[p]
    BY <1>3 DEF Alone
  <2>2. /\ Travelling(p) = {} => page[p].list = Mine(p)
        /\ \A d \in Travelling(p) :
             (\A e \in Travelling(p) : call[e].order <= call[d].order) => call[d].list = Mine(p)
    BY <2>1 DEF ListsOf, Fresh
  <2> QED
    BY <1>1, <1>2, <2>1, <2>2
<1> QED
  BY <1>1, <1>3 DEF ListsOf, Fresh

\* A step that serves or frees one request, and reads no list.
LEMMA OneStands ==
    ASSUME ListInv, NEW c \in Call, NEW new, call' = [call EXCEPT ![c] = new], owner' = owner,
           Plain(new),
           \A p \in Page :
             /\ ~Listed(call[c], p) /\ ~Listed(new, p)
             /\ Promises(call[c], p) => Promises(new, p)
             /\ Alone(p) => Mine(p)' = Mine(p) \/ Promises(new, p)
             /\ page'[p].list = page[p].list
             /\ astray'[p] = astray[p]
    PROVE  /\ \A d \in Call : Plain(call'[d])
           /\ \A p \in Page : ListsOf(p)'
<1>1. call'[c] = new /\ \A d \in Call : d # c => call'[d] = call[d]
  BY DEF ListInv, TableInv, TypeOK
<1>2. \A d \in Call : Plain(call'[d])
  BY <1>1 DEF ListInv
<1>3. ASSUME NEW p \in Page  PROVE ListsOf(p)'
  <2>1. \A d \in Call : /\ Listed(call'[d], p) <=> Listed(call[d], p)
                        /\ Listed(call[d], p) => call'[d].order = call[d].order
                                                 /\ call'[d].list = call[d].list
    BY <1>1
  <2>2. Promise(p) => Promise(p)'
    BY <1>1 DEF Promise
  <2>3. Promises(new, p) => Promise(p)'
    BY <1>1 DEF Promise
  <2>4. ListsOf(p)
    BY DEF ListInv
  <2>5. Alone(p) => Mine(p)' = Mine(p) \/ Promise(p)'
    BY <2>3
  <2> QED
    BY <2>1, <2>2, <2>4, <2>5, ListsStand
<1> QED
  BY <1>2, <1>3

\* The contacts stand still, and so do those of a page.
LEMMA MineStands ==
    ASSUME owner' = owner, contacts' = contacts
    PROVE  \A p \in Page : Mine(p)' = Mine(p)
BY DEF Mine

\* No page has a contact, a list or a request.
LEMMA InitLists == Init => ListInv
<1> SUFFICES ASSUME Init  PROVE ListInv
  OBVIOUS
<1>1. TableInv
  BY InitTable
<1>2. \A c \in Call : call[c].stage = "idle"
  BY DEF Init, Idle
<1>3. \A c \in Call : Plain(call[c])
  BY <1>2 DEF Plain
<1>4. ASSUME NEW p \in Page  PROVE ListsOf(p)
  <2>1. Travelling(p) = {}
    BY <1>2 DEF Travelling, At
  <2>2. page[p].list = Mine(p)
    BY DEF Init, Mine
  <2> QED
    BY <2>1, <2>2 DEF ListsOf, Orders, Fresh
<1> QED
  BY <1>1, <1>3, <1>4 DEF ListInv

\* A page sends.
LEMMA SubmitLists ==
    ASSUME ListInv, NEW p \in Page, NEW c \in Call, call[c] = Idle,
           NEW kind, NEW id, NEW address, NEW username,
           call' = [call EXCEPT ![c] = Request(p, kind, id, address, username)],
           page' = page \/ page' = [page EXCEPT ![p].busy = TRUE],
           UNCHANGED <<owner, registered, contacts, born, astray>>
    PROVE  /\ \A d \in Call : Plain(call'[d])
           /\ \A q \in Page : ListsOf(q)'
<1> DEFINE new == Request(p, kind, id, address, username)
<1>1. new.stage = "sent"
  BY DEF Request
<1>2. call' = [call EXCEPT ![c] = new]
  OBVIOUS
<1> HIDE DEF new
<1>3. Plain(new) /\ \A q \in Page : ~Listed(call[c], q) /\ ~Listed(new, q) /\ ~Promises(call[c], q)
  BY <1>1 DEF Plain, Listed, Promises, Idle
<1>4. \A q \in Page : page'[q].list = page[q].list
  BY DEF ListInv, TableInv, TypeOK
<1> QED
  BY <1>2, <1>3, <1>4, OneStands, MineStands

\* What an answer says.
LEMMA AnsweredSays ==
    ASSUME NEW old \in CallType, NEW status
    PROVE  /\ Answered(old, status).stage = "answered"
           /\ Answered(old, status).kind = old.kind
           /\ Answered(old, status).page = old.page
           /\ Answered(old, status).answer = status
BY DEF Answered, Request

\* A request of the modal is answered, or checked.  Whoever writes for a page
\* writes for its user, and the success promises a list.
LEMMA ServeLists ==
    ASSUME ListInv, NEW c \in Call, call[c] \in CallType,
           call[c].kind # "list", call[c].stage \in {"sent", "checked"},
           UNCHANGED <<owner, registered, page, astray>>,
           \/ call' = [call EXCEPT ![c].stage = "checked"] /\ contacts' = contacts
           \/ \E status : Answer(c, status) /\ contacts' = contacts
           \/ /\ \E status \in {200, 201} : Answer(c, status)
              /\ \A p \in Page : owner[p] # Caller(c) => Mine(p)' = Mine(p)
    PROVE  /\ \A d \in Call : Plain(call'[d])
           /\ \A p \in Page : ListsOf(p)'
<1>1. PICK new : /\ call' = [call EXCEPT ![c] = new]
                 /\ new.kind # "list" /\ new.page = call[c].page
                 /\ \/ contacts' = contacts
                    \/ /\ new.stage = "answered" /\ new.answer \in {200, 201}
                       /\ \A p \in Page : owner[p] # Caller(c) => Mine(p)' = Mine(p)
  <2>1. CASE call' = [call EXCEPT ![c].stage = "checked"] /\ contacts' = contacts
    <3> DEFINE n == [call[c] EXCEPT !.stage = "checked"]
    <3>1. n.kind = call[c].kind /\ n.page = call[c].page
      BY DEF CallType
    <3>2. call' = [call EXCEPT ![c] = n]
      BY <2>1 DEF ListInv, TableInv, TypeOK
    <3> QED
      BY <2>1, <3>1, <3>2
  <2>2. ASSUME NEW status, Answer(c, status),
               \/ contacts' = contacts
               \/ /\ status \in {200, 201}
                  /\ \A p \in Page : owner[p] # Caller(c) => Mine(p)' = Mine(p)
        PROVE  \E new : /\ call' = [call EXCEPT ![c] = new]
                        /\ new.kind # "list" /\ new.page = call[c].page
                        /\ \/ contacts' = contacts
                           \/ /\ new.stage = "answered" /\ new.answer \in {200, 201}
                              /\ \A p \in Page : owner[p] # Caller(c) => Mine(p)' = Mine(p)
    <3> DEFINE n == Answered(call[c], status)
    <3>1. /\ n.stage = "answered" /\ n.kind = call[c].kind
          /\ n.page = call[c].page /\ n.answer = status
      BY AnsweredSays
    <3>2. call' = [call EXCEPT ![c] = n]
      BY <2>2 DEF Answer
    <3> HIDE DEF n
    <3> QED
      BY <2>2, <3>1, <3>2
  <2> QED
    BY <2>1, <2>2
<1>2. Plain(new)
  BY <1>1 DEF Plain
<1>3. ASSUME NEW p \in Page
      PROVE  /\ ~Listed(call[c], p) /\ ~Listed(new, p)
             /\ Promises(call[c], p) => Promises(new, p)
             /\ Alone(p) => Mine(p)' = Mine(p) \/ Promises(new, p)
             /\ page'[p].list = page[p].list
             /\ astray'[p] = astray[p]
  <2>1. ~Listed(call[c], p) /\ ~Listed(new, p) /\ ~Promises(call[c], p)
    BY <1>1 DEF Listed, Promises
  <2>2. CASE contacts' = contacts
    BY <2>1, <2>2, MineStands
  <2>3. CASE /\ new.stage = "answered" /\ new.answer \in {200, 201}
             /\ \A q \in Page : owner[q] # Caller(c) => Mine(q)' = Mine(q)
    <3>1. call[c].page \in Page
      BY DEF CallType
    <3>2. CASE p = call[c].page
      <4>1. Promises(new, p)
        BY <1>1, <2>3, <3>2 DEF Promises
      <4> QED
        BY <2>1, <4>1
    <3>3. CASE p # call[c].page
      <4>1. Alone(p) => owner[p] # Caller(c)
        BY <3>1, <3>3 DEF Alone, Caller
      <4> QED
        BY <2>1, <2>3, <4>1
    <3> QED
      BY <3>2, <3>3
  <2> QED
    BY <1>1, <2>2, <2>3
<1> QED
  BY <1>1, <1>2, <1>3, OneStands

\* The service writes: only rows of the caller's change (Sound).
LEMMA WritesLists ==
    ASSUME ListInv, NEW c \in Call,
           CheckExists(c) \/ FindOwned(c) \/ Insert(c) \/ UpdateRow(c) \/ DeleteRow(c)
    PROVE  /\ \A d \in Call : Plain(call'[d])
           /\ \A p \in Page : ListsOf(p)'
<1>1. /\ call[c] \in CallType /\ call[c].kind # "list" /\ call[c].stage \in {"sent", "checked"}
      /\ UNCHANGED <<owner, registered, page, astray>>
  BY StagedIsCall DEF ListInv, TableInv, CheckExists, FindOwned, Insert, UpdateRow, DeleteRow, At
<1>2. Sound(c)
  BY <1>1, StagedIsCall DEF ListInv, TableInv, CallsSound
<1>3. CASE CheckExists(c) \/ FindOwned(c)
  <2>1. /\ contacts' = contacts
        /\ call' = [call EXCEPT ![c].stage = "checked"] \/ Answer(c, 404)
    BY <1>3 DEF CheckExists, FindOwned
  <2> QED
    BY <1>1, <2>1, ServeLists
<1>4. CASE Insert(c)
  <2> DEFINE r == [id |-> born + 1, owner |-> Caller(c), address |-> call[c].address,
                   username |-> call[c].username]
  <2>1. r.owner = Caller(c)
    OBVIOUS
  <2>2. \/ Answer(c, 409) /\ contacts' = contacts
        \/ contacts' = contacts \cup {r} /\ Answer(c, 201)
    BY <1>4 DEF Insert
  <2> HIDE DEF r
  <2>3. CASE contacts' = contacts \cup {r} /\ Answer(c, 201)
    <3>1. \A p \in Page : owner[p] # Caller(c) => Mine(p)' = Mine(p)
      BY <1>1, <2>1, <2>3 DEF Mine
    <3> QED
      BY <1>1, <2>3, <3>1, ServeLists
  <2> QED
    BY <1>1, <2>2, <2>3, ServeLists
<1>5. CASE UpdateRow(c)
  <2>1. CASE contacts' = contacts
    <3>1. \E status : Answer(c, status)
      BY <1>5 DEF UpdateRow
    <3> QED
      BY <1>1, <2>1, <3>1, ServeLists
  <2>2. CASE contacts' # contacts
    <3>1. PICK old \in Found(c) :
            LET new == [old EXCEPT !.address = IF call[c].address = None THEN @ ELSE call[c].address,
                                   !.username = IF call[c].username = None THEN @ ELSE call[c].username]
            IN contacts' = (contacts \ {old}) \cup {new} /\ Answer(c, 200)
      BY <1>5, <2>2 DEF UpdateRow
    <3> DEFINE new == [old EXCEPT !.address = IF call[c].address = None THEN @ ELSE call[c].address,
                                  !.username = IF call[c].username = None THEN @ ELSE call[c].username]
    <3>2. old \in Row /\ old \in contacts /\ old.id = call[c].id
      BY DEF Found, ListInv, TableInv, TypeOK
    <3>3. new.owner = old.owner
      BY <3>2 DEF Row
    <3>4. contacts' = (contacts \ {old}) \cup {new} /\ Answer(c, 200)
      BY <3>1
    <3> HIDE DEF new
    <3>5. At(c, "checked", {"update", "delete"})
      BY <1>5 DEF UpdateRow, At
    <3>6. old.owner = Caller(c)
      BY <1>2, <3>2, <3>5 DEF Sound
    <3>7. \A p \in Page : owner[p] # Caller(c) => Mine(p)' = Mine(p)
      BY <1>1, <3>3, <3>4, <3>6 DEF Mine
    <3> QED
      BY <1>1, <3>4, <3>7, ServeLists
  <2> QED
    BY <2>1, <2>2
<1>6. CASE DeleteRow(c)
  <2>1. contacts' = contacts \ Found(c) /\ Answer(c, IF Found(c) = {} THEN 500 ELSE 200)
    BY <1>6 DEF DeleteRow
  <2>2. CASE Found(c) = {}
    BY <1>1, <2>1, <2>2, ServeLists
  <2>3. CASE Found(c) # {}
    <3>1. At(c, "checked", {"update", "delete"})
      BY <1>6 DEF DeleteRow, At
    <3>2. \A r \in Found(c) : r.owner = Caller(c)
      BY <1>2, <3>1 DEF Sound, Found
    <3>3. \A p \in Page : owner[p] # Caller(c) => Mine(p)' = Mine(p)
      BY <1>1, <2>1, <3>2 DEF Mine
    <3> QED
      BY <1>1, <2>1, <2>3, <3>3, ServeLists
  <2> QED
    BY <2>2, <2>3
<1> QED
  BY <1>3, <1>4, <1>5, <1>6

\* listContacts: what it reads is the newest list of its page.
LEMMA ReadListLists ==
    ASSUME ListInv, NEW c \in Call, ReadList(c)
    PROVE  /\ \A d \in Call : Plain(call'[d])
           /\ \A p \in Page : ListsOf(p)'
<1>1. /\ call[c] \in CallType /\ call[c].kind = "list" /\ call[c].stage = "sent"
      /\ UNCHANGED <<owner, registered, contacts, born, page, astray>>
  BY StagedIsCall DEF ListInv, TableInv, ReadList, At
<1>2. PICK q \in Page : call[c].page = q
  BY <1>1 DEF CallType
<1> DEFINE T == Travelling(q)
           new == [call[c] EXCEPT !.stage = "answered", !.answer = 200,
                                  !.order = 1 + Cardinality(T),
                                  !.list = {r \in contacts : r.owner = Caller(c)}]
<1>3. /\ new.stage = "answered" /\ new.kind = "list" /\ new.answer = 200 /\ new.page = q
      /\ new.order = 1 + Cardinality(T) /\ new.list = {r \in contacts : r.owner = Caller(c)}
  <2> HIDE DEF T
  <2> QED
    BY <1>1, <1>2 DEF CallType
<1>4. call' = [call EXCEPT ![c] = new]
  BY <1>2 DEF ReadList, ListInv, TableInv, TypeOK
<1> HIDE DEF new
<1>5. call'[c] = new /\ \A d \in Call : d # c => call'[d] = call[d]
  BY <1>4 DEF ListInv, TableInv, TypeOK
<1>6. \A d \in Call : Plain(call'[d])
  BY <1>3, <1>5 DEF ListInv, Plain
<1>7. ASSUME NEW p \in Page, p # q  PROVE ListsOf(p)'
  <2>1. \A d \in Call : /\ Listed(call'[d], p) <=> Listed(call[d], p)
                        /\ Listed(call[d], p) => call'[d] = call[d]
    BY <1>1, <1>2, <1>3, <1>5, <1>7 DEF Listed
  <2>2. Promise(p) => Promise(p)'
    BY <1>2, <1>5, <1>7 DEF Promise, Promises
  <2>3. ListsOf(p) /\ Mine(p)' = Mine(p)
    BY <1>1, MineStands DEF ListInv
  <2> QED
    BY <1>1, <2>1, <2>2, <2>3, ListsStand
<1>8. ListsOf(q)'
  <2>1. /\ T = {d \in Call : Listed(call[d], q)} /\ Travelling(q)' = {d \in Call : Listed(call'[d], q)}
        /\ IsFiniteSet(T)
    BY <1>2, TravellingAreListed
  <2>2. c \notin T /\ Travelling(q)' = T \cup {c}
    BY <1>1, <1>3, <1>5, <2>1 DEF Listed
  <2>3. Cardinality(T \cup {c}) = Cardinality(T) + 1 /\ Cardinality(T) \in Nat
    BY <2>1, <2>2, FS_AddElement, FS_CardinalityType
  <2>4. /\ \A d \in T : call[d].order \in 1..Cardinality(T) /\ call'[d] = call[d]
        /\ \A d, e \in T : call[d].order = call[e].order => d = e
    <3>1. Orders(q)
      BY <1>2 DEF ListInv, ListsOf
    <3>2. \A d \in T : d \in Call /\ d # c
      BY <2>1, <2>2
    <3>3. \A d \in T : call'[d] = call[d]
      BY <1>5, <3>2
    <3> QED
      BY <3>1, <3>3 DEF Orders
  <2>5. call'[c].order = 1 + Cardinality(T) /\ call'[c].list = Mine(q)'
    BY <1>1, <1>2, <1>3, <1>5 DEF Mine, Caller
  <2> HIDE DEF T
  <2>6. Orders(q)'
    <3>1. ASSUME NEW d \in T \cup {c}
          PROVE  call'[d].order \in 1..Cardinality(T \cup {c})
      BY <2>3, <2>4, <2>5
    <3>2. ASSUME NEW d \in T \cup {c}, NEW e \in T \cup {c}, call'[d].order = call'[e].order
          PROVE  d = e
      BY <2>3, <2>4, <2>5, <3>2
    <3> QED
      BY <2>2, <3>1, <3>2 DEF Orders
  <2>7. Fresh(q)'
    <3>1. ASSUME NEW d \in T \cup {c}, \A e \in T \cup {c} : call'[e].order <= call'[d].order
          PROVE  call'[d].list = Mine(q)'
      <4>1. call'[c].order <= call'[d].order
        BY <3>1
      <4>2. d = c
        BY <2>3, <2>4, <2>5, <4>1
      <4> QED
        BY <2>5, <4>2
    <3> QED
      BY <2>2, <3>1 DEF Fresh
  <2> QED
    BY <2>6, <2>7 DEF ListsOf
<1> QED
  BY <1>6, <1>7, <1>8

\* Lists that move up stay the lists they are.
LEMMA ClosedUpSays ==
    ASSUME ListInv, NEW c \in Call, call[c] \in CallType
    PROVE  \A d \in Call :
             /\ \A p \in Page : Listed(ClosedUp(c)[d], p) <=> Listed(call[d], p)
             /\ \A p \in Page : Promises(ClosedUp(c)[d], p) <=> Promises(call[d], p)
             /\ Plain(ClosedUp(c)[d])
             /\ \A p \in Page : Listed(call[d], p) => ClosedUp(c)[d].list = call[d].list
             /\ ~({c, d} \subseteq Travelling(call[c].page)) => ClosedUp(c)[d] = call[d]
<1> SUFFICES ASSUME NEW d \in Call
             PROVE  /\ \A p \in Page : Listed(ClosedUp(c)[d], p) <=> Listed(call[d], p)
                    /\ \A p \in Page : Promises(ClosedUp(c)[d], p) <=> Promises(call[d], p)
                    /\ Plain(ClosedUp(c)[d])
                    /\ \A p \in Page : Listed(call[d], p) => ClosedUp(c)[d].list = call[d].list
                    /\ ~({c, d} \subseteq Travelling(call[c].page)) => ClosedUp(c)[d] = call[d]
  OBVIOUS
<1>1. Plain(call[d]) /\ TypeOK
  BY DEF ListInv, TableInv
<1>2. CASE ClosedUp(c)[d] = call[d]
  BY <1>1, <1>2
<1>3. CASE ClosedUp(c)[d] # call[d]
  <2>1. PICK n \in Int : call[d] \in CallType /\ ClosedUp(c)[d] = [call[d] EXCEPT !.order = n]
    BY <1>1, <1>3, MovingUp
  <2> DEFINE new == [call[d] EXCEPT !.order = n]
  <2>2. /\ new.stage = call[d].stage /\ new.kind = call[d].kind /\ new.page = call[d].page
        /\ new.answer = call[d].answer /\ new.list = call[d].list
    BY <2>1 DEF CallType
  <2>3. ClosedUp(c)[d] = new
    BY <2>1
  <2> HIDE DEF new
  <2>4. {c, d} \subseteq Travelling(call[c].page)
    BY <1>3 DEF ClosedUp
  <2> QED
    BY <1>1, <2>2, <2>3, <2>4 DEF Listed, Promises, Plain
<1> QED
  BY <1>2, <1>3

\* A list has arrived or is lost: those behind it move up, in their order.
LEMMA MovingUpInOrder ==
    ASSUME ListInv, NEW c \in Call, NEW p \in Page, call[c] \in CallType, call[c].page = p,
           c \in Travelling(p), ~Listed(call'[c], p),
           \A d \in Call : d # c => call'[d] = ClosedUp(c)[d]
    PROVE  /\ Travelling(p)' = Travelling(p) \ {c}
           /\ Orders(p)'
           /\ \A d, e \in Travelling(p) \ {c} :
                call'[e].order <= call'[d].order => call[e].order <= call[d].order
<1> DEFINE T == Travelling(p)
           k == call[c].order
           n == Cardinality(T)
<1>1. /\ T = {d \in Call : Listed(call[d], p)} /\ Travelling(p)' = {d \in Call : Listed(call'[d], p)}
      /\ IsFiniteSet(T)
  BY TravellingAreListed
<1>2. Travelling(p)' = T \ {c}
  BY <1>1, ClosedUpSays
<1>3. Cardinality(T \ {c}) = n - 1 /\ n \in Nat
  BY <1>1, FS_RemoveElement, FS_CardinalityType
<1>4. /\ \A d \in T : call[d].order \in 1..n
      /\ \A d, e \in T : call[d].order = call[e].order => d = e
  BY DEF ListInv, ListsOf, Orders
<1>5. ASSUME NEW d \in T \ {c}
      PROVE  call'[d].order = IF call[d].order > k THEN call[d].order - 1 ELSE call[d].order
  <2>1. d \in Call /\ d # c /\ call'[d] = ClosedUp(c)[d]
    BY <1>1
  <2>2. call[d] \in CallType
    <3>1. call[d].stage = "answered"
      BY <1>1 DEF Listed
    <3> QED
      BY <2>1, <3>1, StagedIsCall DEF ListInv, TableInv
  <2>3. ClosedUp(c)[d] = IF call[d].order > k THEN [call[d] EXCEPT !.order = @ - 1] ELSE call[d]
    BY <2>1 DEF ClosedUp
  <2> QED
    BY <2>1, <2>2, <2>3 DEF CallType
<1>6. \A d \in T \ {c} : call[d].order \in 1..n /\ call[d].order # k /\ k \in 1..n
  BY <1>4
<1> HIDE DEF T, n, k
<1>7. Orders(p)'
  <2>1. ASSUME NEW d \in T \ {c}  PROVE call'[d].order \in 1..Cardinality(T \ {c})
    BY <1>3, <1>5, <1>6
  <2>2. ASSUME NEW d \in T \ {c}, NEW e \in T \ {c}, call'[d].order = call'[e].order
        PROVE  d = e
    <3>1. call[d].order = call[e].order
      BY <1>3, <1>5, <1>6, <2>2
    <3> QED
      BY <1>4, <3>1
  <2> QED
    BY <1>2, <2>1, <2>2 DEF Orders
<1>8. ASSUME NEW d \in T \ {c}, NEW e \in T \ {c}, call'[e].order <= call'[d].order
      PROVE  call[e].order <= call[d].order
  BY <1>3, <1>5, <1>6, <1>8
<1> QED
  BY <1>2, <1>7, <1>8 DEF T

\* The pages that a step on a list of another page leaves alone.
LEMMA OthersStand ==
    ASSUME ListInv, NEW c \in Call, call[c] \in CallType,
           NEW p \in Page, ~Listed(call[c], p), ~Listed(call'[c], p),
           Promises(call[c], p) => Promises(call'[c], p),
           \A d \in Call : d # c => call'[d] = ClosedUp(c)[d],
           p # call[c].page \/ c \notin Travelling(call[c].page),
           owner' = owner, contacts' = contacts,
           page'[p].list = page[p].list, astray'[p] = astray[p]
    PROVE  ListsOf(p)'
<1>1. \A d \in Call : Listed(call'[d], p) <=> Listed(call[d], p)
  BY ClosedUpSays
<1>2. ASSUME NEW d \in Call, Listed(call[d], p)  PROVE call'[d] = call[d]
  <2>1. d # c
    BY <1>2
  <2>2. ~({c, d} \subseteq Travelling(call[c].page))
    BY <1>2 DEF Travelling, At, Listed
  <2> QED
    BY <2>1, <2>2, ClosedUpSays
<1>3. Promise(p) => Promise(p)'
  BY ClosedUpSays DEF Promise
<1>4. ListsOf(p) /\ Mine(p)' = Mine(p)
  BY MineStands DEF ListInv
<1> QED
  BY <1>1, <1>2, <1>3, <1>4, ListsStand

\* The network fails; the page of the request is astray.
LEMMA LoseLists ==
    ASSUME ListInv, NEW c \in Call, Lose(c)
    PROVE  /\ \A d \in Call : Plain(call'[d])
           /\ \A p \in Page : ListsOf(p)'
<1>1. /\ call[c] \in CallType /\ UNCHANGED <<owner, registered, contacts, born, page>>
      /\ astray' = [astray EXCEPT ![call[c].page] = TRUE]
      /\ TypeOK
  BY StagedIsCall DEF ListInv, TableInv, Lose
<1>2. PICK q \in Page : call[c].page = q
  BY <1>1 DEF CallType
<1> DEFINE new == Answered(ClosedUp(c)[c], 500)
<1>3. ClosedUp(c)[c] \in CallType /\ ClosedUp(c)[c].kind = call[c].kind
      /\ ClosedUp(c)[c].page = q
  <2>1. CASE ClosedUp(c)[c] = call[c]
    BY <1>1, <1>2, <2>1
  <2>2. CASE \E n \in Int : ClosedUp(c)[c] = [call[c] EXCEPT !.order = n]
    <3>1. PICK n \in Int : ClosedUp(c)[c] = [call[c] EXCEPT !.order = n]
      BY <2>2
    <3> DEFINE moved == [call[c] EXCEPT !.order = n]
    <3>2. moved \in CallType /\ moved.kind = call[c].kind /\ moved.page = call[c].page
      BY <1>1 DEF CallType
    <3>3. ClosedUp(c)[c] = moved
      BY <3>1
    <3> HIDE DEF moved
    <3> QED
      BY <1>2, <3>2, <3>3
  <2> QED
    BY <1>1, <2>1, <2>2, MovingUp DEF ListInv, TableInv
<1>4. new.stage = "answered" /\ new.kind = call[c].kind /\ new.page = q /\ new.answer = 500
  BY <1>3, AnsweredSays
<1>5. call' = [ClosedUp(c) EXCEPT ![c] = new]
  BY DEF Lose
<1>6. DOMAIN ClosedUp(c) = Call
  BY DEF ClosedUp
<1> HIDE DEF new
<1>7. call'[c] = new /\ \A d \in Call : d # c => call'[d] = ClosedUp(c)[d]
  BY <1>5, <1>6 DEF ClosedUp
<1>8. \A p \in Page : ~Listed(new, p)
  BY <1>4 DEF Listed
<1>9. \A d \in Call : Plain(call'[d])
  BY <1>1, <1>4, <1>7, ClosedUpSays DEF Plain
<1>10. ASSUME NEW p \in Page, p # q  PROVE ListsOf(p)'
  <2>1. ~Listed(call[c], p) /\ ~Promises(call[c], p) /\ astray'[p] = astray[p]
    BY <1>1, <1>2, <1>10 DEF Listed, Promises, TypeOK
  <2> QED
    BY <1>1, <1>2, <1>7, <1>8, <1>10, <2>1, OthersStand
<1>11. ListsOf(q)'
  <2>1. astray'[q]
    BY <1>1, <1>2 DEF TypeOK
  <2>2. Orders(q)'
    <3>1. CASE c \in Travelling(q)
      BY <1>1, <1>2, <1>7, <1>8, <3>1, MovingUpInOrder
    <3>2. CASE c \notin Travelling(q)
      <4>1. \A d \in Call : Listed(call'[d], q) <=> Listed(call[d], q)
        <5>1. ~Listed(call[c], q)
          BY <1>2, <3>2, TravellingAreListed
        <5> QED
          BY <1>1, <1>2, <1>7, <1>8, <5>1, ClosedUpSays
      <4>2. \A d \in Call : Listed(call[d], q) => call'[d] = call[d]
        <5>1. ~Listed(call[c], q)
          BY <1>2, <3>2, TravellingAreListed
        <5> QED
          BY <1>1, <1>2, <1>7, <3>2, <5>1, ClosedUpSays
      <4>3. Orders(q)
        BY <1>2 DEF ListInv, ListsOf
      <4> QED
        BY <1>2, <4>1, <4>2, <4>3, OrdersStand
    <3> QED
      BY <3>1, <3>2
  <2>3. Fresh(q)'
    BY <2>1 DEF Fresh
  <2> QED
    BY <2>2, <2>3 DEF ListsOf
<1> QED
  BY <1>9, <1>10, <1>11

\* A list arrives.  If it is not astray it was the oldest, so that if it was
\* the newest, too, it was the only one.
LEMMA HearListLists ==
    ASSUME ListInv, NEW c \in Call, HearList(c)
    PROVE  /\ \A d \in Call : Plain(call'[d])
           /\ \A p \in Page : ListsOf(p)'
<1>1. /\ call[c] \in CallType /\ call[c].stage = "answered" /\ call[c].kind = "list"
      /\ UNCHANGED <<owner, registered, contacts, born>>
      /\ TypeOK
  BY StagedIsCall DEF ListInv, TableInv, HearList, At
<1>2. call[c].answer \in {200, 500}
  BY <1>1 DEF ListInv, Plain
<1>3. PICK q \in Page : call[c].page = q
  BY <1>1 DEF CallType
<1>4. call' = [ClosedUp(c) EXCEPT ![c] = Idle]
  BY DEF HearList
<1>5. DOMAIN ClosedUp(c) = Call
  BY DEF ClosedUp
<1>6. call'[c] = Idle /\ \A d \in Call : d # c => call'[d] = ClosedUp(c)[d]
  BY <1>4, <1>5 DEF ClosedUp
<1>7. /\ \A p \in Page : ~Listed(Idle, p) /\ ~Promises(call[c], p) /\ ~Promises(Idle, p)
      /\ Plain(Idle)
  BY <1>1 DEF Listed, Promises, Plain, Idle
<1>8. \A d \in Call : Plain(call'[d])
  BY <1>1, <1>6, <1>7, ClosedUpSays
<1>9. CASE ~Success(c)
  <2>1. page' = page /\ astray' = astray /\ call[c].answer = 500
    BY <1>2, <1>3, <1>9 DEF HearList, Success
  <2>2. \A p \in Page : ~Listed(call[c], p)
    BY <2>1 DEF Listed
  <2>3. c \notin Travelling(q)
    BY <2>1 DEF Travelling
  <2> QED
    BY <1>1, <1>3, <1>6, <1>7, <1>8, <2>1, <2>2, <2>3, OthersStand
<1>10. CASE Success(c)
  <2>1. /\ page' = [page EXCEPT ![q].list = call[c].list]
        /\ astray' = [astray EXCEPT ![q] =
                        @ \/ \E d \in Travelling(q) : call[d].order < call[c].order]
        /\ call[c].answer = 200
    BY <1>2, <1>3, <1>10 DEF HearList, Success
  <2>2. ASSUME NEW p \in Page, p # q  PROVE ListsOf(p)'
    <3>1. ~Listed(call[c], p) /\ page'[p].list = page[p].list /\ astray'[p] = astray[p]
      BY <1>1, <1>3, <2>1, <2>2 DEF Listed, TypeOK
    <3> QED
      BY <1>1, <1>3, <1>6, <1>7, <2>2, <3>1, OthersStand
  <2>3. c \in Travelling(q)
    BY <1>1, <1>3, <2>1 DEF Travelling, At
  <2>4. /\ Travelling(q)' = Travelling(q) \ {c}
        /\ Orders(q)'
        /\ \A d, e \in Travelling(q) \ {c} :
             call'[e].order <= call'[d].order => call[e].order <= call[d].order
    BY <1>1, <1>2, <1>3, <1>6, <1>7, <2>3, MovingUpInOrder
  <2>5. Fresh(q)'
    <3> SUFFICES ASSUME Alone(q)', ~astray'[q], ~Promise(q)'
                 PROVE  /\ Travelling(q)' = {} => page'[q].list = Mine(q)'
                        /\ \A d \in Travelling(q)' :
                             (\A e \in Travelling(q)' : call'[e].order <= call'[d].order) =>
                               call'[d].list = Mine(q)'
      BY DEF Fresh
    <3>1. ~astray[q] /\ \A d \in Travelling(q) : ~(call[d].order < call[c].order)
      <4> DEFINE overtakes == \E d \in Travelling(q) : call[d].order < call[c].order
      <4>1. astray' = [astray EXCEPT ![q] = @ \/ overtakes]
        BY <2>1
      <4> HIDE DEF overtakes
      <4>2. astray'[q] = (astray[q] \/ overtakes)
        BY <1>1, <1>3, <4>1, Zenon DEF TypeOK
      <4>3. ~astray[q] /\ ~overtakes
        BY <4>2, Zenon
      <4> QED
        BY <4>3 DEF overtakes
    <3>2. ~Promise(q)
      BY <1>1, <1>2, <1>3, <1>6, <1>7, ClosedUpSays DEF Promise
    <3>3. Alone(q) /\ Mine(q)' = Mine(q)
      BY <1>1, <1>2, <1>3, MineStands DEF Alone
    <3>4. \A d \in Travelling(q) :
            (\A e \in Travelling(q) : call[e].order <= call[d].order) => call[d].list = Mine(q)
      BY <1>2, <1>3, <3>1, <3>2, <3>3 DEF ListInv, ListsOf, Fresh
    <3>5. \A d \in Travelling(q) : call[d].order \in Int
      BY <1>2, <1>3 DEF ListInv, ListsOf, Orders
    <3>6. ASSUME Travelling(q)' = {}  PROVE page'[q].list = Mine(q)'
      <4>1. Travelling(q) = {c}
        BY <2>3, <2>4, <3>6
      <4>2. call[c].list = Mine(q)
        BY <3>4, <3>5, <4>1
      <4> QED
        BY <1>1, <1>2, <1>3, <2>1, <3>3, <4>2 DEF TypeOK
    <3>7. ASSUME NEW d \in Travelling(q) \ {c},
                 \A e \in Travelling(q) \ {c} : call'[e].order <= call'[d].order
          PROVE  call'[d].list = Mine(q)'
      <4>1. \A e \in Travelling(q) \ {c} : call[e].order <= call[d].order
        BY <2>4, <3>7
      <4>2. call[c].order <= call[d].order
        BY <2>3, <3>1, <3>5, <3>7
      <4>3. call[d].list = Mine(q)
        BY <3>4, <3>7, <4>1, <4>2
      <4>4. d \in Call /\ Listed(call[d], q)
        BY <1>2, <1>3, <3>7, TravellingAreListed
      <4>5. call'[d].list = call[d].list
        BY <1>1, <1>2, <1>3, <1>6, <3>7, <4>4, ClosedUpSays
      <4> QED
        BY <3>3, <4>3, <4>5
    <3> QED
      BY <2>4, <3>6, <3>7
  <2> QED
    BY <1>8, <2>2, <2>4, <2>5 DEF ListsOf
<1> QED
  BY <1>9, <1>10

\* A save has been answered: the list that its success promised is asked for.
LEMMA HearSaveLists ==
    ASSUME ListInv, NEW c \in Call, HearSave(c)
    PROVE  /\ \A d \in Call : Plain(call'[d])
           /\ \A p \in Page : ListsOf(p)'
<1> DEFINE new == IF Success(c) THEN Request(call[c].page, "list", 0, None, None) ELSE Idle
<1>1. /\ call[c] \in CallType /\ call[c].stage = "answered" /\ call[c].kind # "list"
      /\ UNCHANGED <<owner, registered, contacts, born, astray>> /\ TypeOK
  BY StagedIsCall DEF ListInv, TableInv, HearSave, At
<1>2. call' = [call EXCEPT ![c] = new]
  BY DEF HearSave
<1>3. \A p \in Page : page'[p].list = page[p].list
  BY <1>1 DEF HearSave, TypeOK
<1>4. Plain(new) /\ \A p \in Page : ~Listed(call[c], p) /\ ~Listed(new, p)
  BY <1>1 DEF Plain, Listed, Request, Idle
<1>5. \A p \in Page : Promises(call[c], p) => Promises(new, p)
  BY <1>1 DEF Promises, Success, Request
<1> HIDE DEF new
<1> QED
  BY <1>1, <1>2, <1>3, <1>4, <1>5, OneStands, MineStands

\* Every step keeps the lists in order and the newest one current.
LEMMA NextLists == ListInv /\ [Next]_vars => ListInv'
<1> SUFFICES ASSUME ListInv, [Next]_vars  PROVE ListInv'
  OBVIOUS
<1> DEFINE Goal == (\A d \in Call : Plain(call'[d])) /\ \A p \in Page : ListsOf(p)'
<1>1. TableInv'
  BY NextTable DEF ListInv
<1>2. ASSUME NEW p \in Page, NEW c \in Call, OpenPage(p, c)  PROVE Goal
  BY <1>2, SubmitLists DEF OpenPage
<1>3. ASSUME NEW p \in Page, NEW c \in Call, NEW address, NEW username,
             SaveNew(p, c, address, username)
      PROVE  Goal
  BY <1>3, SubmitLists DEF SaveNew, Submit
<1>4. ASSUME NEW p \in Page, NEW c \in Call, NEW id, NEW address, NEW username,
             SaveEdit(p, c, id, address, username)
      PROVE  Goal
  BY <1>4, SubmitLists DEF SaveEdit, Submit
<1>5. ASSUME NEW p \in Page, NEW c \in Call, NEW id, DeleteContact(p, c, id)  PROVE Goal
  BY <1>5, SubmitLists DEF DeleteContact, Submit
<1>6. ASSUME NEW c \in Call, Serve(c)  PROVE Goal
  BY <1>6, WritesLists, ReadListLists DEF Serve
<1>7. ASSUME NEW c \in Call, Lose(c) \/ Hear(c)  PROVE Goal
  BY <1>7, LoseLists, HearListLists, HearSaveLists DEF Hear
<1>8. ASSUME UNCHANGED <<owner, contacts, page, call, astray>>  PROVE Goal
  <2>1. \A d \in Call : Plain(call'[d])
    BY <1>8 DEF ListInv
  <2>2. \A p \in Page : Mine(p)' = Mine(p) /\ (Promise(p) => Promise(p)') /\ ListsOf(p)
    BY <1>8, MineStands DEF Promise, ListInv
  <2> QED
    BY <1>8, <2>1, <2>2, ListsStand
<1>9. ASSUME NEW a \in Account, Register(a)  PROVE Goal
  BY <1>8, <1>9 DEF Register
<1>10. ASSUME UNCHANGED vars  PROVE Goal
  BY <1>8, <1>10 DEF vars
<1>11. Goal
  <2> HIDE DEF Goal
  <2> QED
    BY <1>2, <1>3, <1>4, <1>5, <1>6, <1>7, <1>9, <1>10 DEF Next
<1> QED
  BY <1>1, <1>11 DEF ListInv

-----------------------------------------------------------------------------
(* The theorems.                                                           *)

LEMMA AlwaysTable == Spec => []TableInv
BY InitTable, NextTable, PTL DEF Spec

\* The types of the variables; and what a page shows was its user's when it
\* was read, whichever list came last (listContacts).
THEOREM TypeCorrect == Spec => []TypeOK
<1>1. TableInv => TypeOK
  BY DEF TableInv
<1> QED
  BY <1>1, AlwaysTable, PTL

\* For any number of pages of a user, and whatever happens between the checks
\* and the writes of the service: no two contacts name the same address or the
\* same username.
THEOREM ContactsStayDistinct == Spec => []ContactsAreDistinct
<1>1. TableInv => ContactsAreDistinct
  BY DEF TableInv
<1> QED
  BY <1>1, AlwaysTable, PTL

\* updateContact and deleteContact write by id alone, after findFirst: still
\* the contact a step changes or removes is its caller's.
THEOREM OnlyOwnersDo == Spec => OnlyOwnersWrite
<1>1. TableInv /\ [Next]_vars =>
        [\A r \in contacts \ contacts' :
           \E c \in Call : call[c].stage = "checked" /\ call'[c] # call[c] /\ Caller(c) = r.owner]_vars
  <2> SUFFICES ASSUME TableInv, Next, NEW r \in contacts, r \notin contacts'
               PROVE  \E c \in Call : /\ call[c].stage = "checked" /\ call'[c] # call[c]
                                     /\ Caller(c) = r.owner
    BY DEF vars
  <2>1. PICK c \in Call : UpdateRow(c) \/ DeleteRow(c)
    <3>1. ASSUME NEW c \in Call, Insert(c) PROVE contacts \subseteq contacts'
      BY <3>1 DEF Insert
    <3> QED
      BY <3>1 DEF Next, OpenPage, SaveNew, SaveEdit, DeleteContact, Submit, Serve, CheckExists,
                  FindOwned, ReadList, Lose, Hear, HearSave, HearList, Register
  <2>2. At(c, "checked", {"update", "delete"}) /\ r.id = call[c].id
    BY <2>1 DEF UpdateRow, DeleteRow, At, Found
  <2>3. call[c] \in CallType /\ Sound(c)
    BY <2>2, StagedIsCall DEF TableInv, CallsSound, At
  <2>4. Caller(c) = r.owner
    BY <2>2, <2>3 DEF Sound
  <2>5. call'[c] # call[c]
    <3>1. PICK status \in {200, 409, 500} : Answer(c, status)
      BY <2>1 DEF UpdateRow, DeleteRow
    <3>2. call'[c].stage = "answered"
      BY <2>3, <3>1, AnsweredIsCall DEF Answer, TableInv, TypeOK
    <3> QED
      BY <2>2, <3>2 DEF At
  <2> QED
    BY <2>2, <2>4, <2>5 DEF At
<1> QED
  BY <1>1, AlwaysTable, PTL DEF Spec, OnlyOwnersWrite

\* The page lists again after each success (handleSaveContact and the delete
\* handler of the contacts page), with nothing to keep the answers in order:
\* once nothing is under way it shows the contacts as they are, unless an
\* answer was lost, lists overtook each other or another page is at work.
THEOREM QuietListsAreCurrent == Spec => []QuietListIsCurrent
<1>1. ListInv => QuietListIsCurrent
  <2> SUFFICES ASSUME ListInv, NEW p \in Page, Quiet(p), Alone(p), ~astray[p]
               PROVE  page[p].list = {r \in contacts : r.owner = owner[p]}
    BY DEF QuietListIsCurrent
  <2>1. \A c \in Call : call[c] \in CallType \cup {Idle}
    BY DEF ListInv, TableInv, TypeOK
  <2>2. Travelling(p) = {} /\ ~Promise(p)
    BY <2>1 DEF Quiet, Travelling, Promise, Promises, At, Idle
  <2> QED
    BY <2>2 DEF ListInv, ListsOf, Fresh, Mine
<1> QED
  BY <1>1, InitLists, NextLists, PTL DEF Spec
=============================================================================
