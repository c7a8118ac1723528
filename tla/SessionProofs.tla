---------------------------- MODULE SessionProofs ----------------------------
(***************************************************************************)
(* Proofs about the two ends of a session: the tabs of the browser         *)
(* (Dashboard), for any number of tabs, users and requests under way, and  *)
(* the event streams of the server (Notifications), for any number of      *)
(* connections.  The two are proved side by side; no state is shared.      *)
(*                                                                         *)
(* The actions of Dashboard are summarised first, in the five ways in      *)
(* which they change a tab and its requests: a page is mounted, shows      *)
(* something else or sends a request, and a request is served or heard.    *)
(* The countdown of the gate is right because an expiry that was read      *)
(* stays behind the row's own, or behind that of a lock that was written   *)
(* over since.  A payment is made once because a page                      *)
(* waits for one request at a time: between that request and its answer    *)
(* one transfer at most is on no screen.  For the streams, the property    *)
(* and the types are their own invariant.                                  *)
(***************************************************************************)
EXTENDS Dashboard, Notifications, SequenceTheorems, TLAPS


-----------------------------------------------------------------------------
(* Pages and requests.                                                     *)

RowType == [pin : Pin \cup {NoPin}, failed : 0..MaxFailed, lockedUntil : Nat \cup {NoTime}]

PageType ==
    [at : {"login", "profile", "send"}, verified : BOOLEAN, mode : {"set", "verify"},
     busy : BOOLEAN, lock : Nat \cup {NoTime}, lockOf : User \cup {NoUser},
     knowsPin : BOOLEAN, form : {"fill", "pin", "result"}]

\* A failure that is not the last one leaves no lock, and the last one does.
Countable(r) == r.lockedUntil = NoTime => r.failed < MaxFailed

\* A second look at the row is taken for somebody.
Asked(r) == r.stage = "judged" => r.kind = "gateVerify" /\ r.user # NoUser

TypeInv ==
    /\ now \in Nat
    /\ row \in [User -> RowType]
    /\ replaced \in [User -> Nat]
    /\ stored \in [id : User \cup {NoUser}, hasPin : BOOLEAN]
    /\ tab \in [Tab -> PageType]
    /\ call \in [Call -> CallType \cup {Idle}]
    /\ timer \in [Tab -> BOOLEAN]
    /\ paid \in [Tab -> Nat]
    /\ unsure \in [Tab -> Nat]
    /\ \A u \in User : Countable(row[u])
    /\ \A c \in Call : Asked(call[c])

\* A request that has a stage is one.
LEMMA StagedIsCall ==
    ASSUME TypeInv, NEW c \in Call, call[c].stage # "idle"
    PROVE  call[c] \in CallType /\ call[c] # Idle
BY DEF TypeInv, Idle

\* A page that has just been mounted: nothing is under way and nothing filled
\* in.
Blank(p) ==
    /\ p \in PageType
    /\ ~p.busy /\ p.lock = NoTime /\ p.lockOf = NoUser /\ p.form = "fill"

\* The login page is blank.
LEMMA LoginPageIsBlank ==
    ASSUME NEW verified \in BOOLEAN
    PROVE  /\ Blank(LoginPage(verified))
           /\ LoginPage(verified).at = "login"
           /\ LoginPage(verified).verified = verified
BY DEF LoginPage, Blank, PageType

\* A page of the dashboard is blank at first.
LEMMA MountedIsBlank ==
    ASSUME NEW page \in {"profile", "send"}, NEW verified \in BOOLEAN,
           NEW user, user.hasPin \in BOOLEAN
    PROVE  /\ Blank(Mounted(page, verified, user))
           /\ Mounted(page, verified, user).at = page
<1> DEFINE p == LoginPage(verified)
           mode == IF verified \/ user.hasPin THEN "verify" ELSE "set"
<1>1. Blank(p) /\ mode \in {"set", "verify"}
  BY LoginPageIsBlank
<1>2. Mounted(page, verified, user) =
        [p EXCEPT !.at = page, !.mode = mode, !.knowsPin = user.hasPin]
  BY DEF Mounted
<1> HIDE DEF p, mode
<1> QED
  BY <1>1, <1>2 DEF Blank, PageType

\* What becomes of a request when tab t is left: those of other tabs are as
\* they were, and its own have nobody who waits for them.
SameBut(new, old) ==
    /\ new.stage = old.stage /\ new.tab = old.tab /\ new.kind = old.kind
    /\ new.user = old.user /\ new.answer = old.answer /\ new.until = old.until

Left(new, old, t) ==
    \/ new = old /\ (old = Idle \/ old.tab # t)
    \/ new = Idle /\ old \in CallType /\ old.tab = t
    \/ /\ new \in CallType /\ old \in CallType /\ old.tab = t
       /\ SameBut(new, old)
       /\ new.ear # "live"
       /\ new.ear = "orphan" => old.ear = "orphan" \/ old.kind # "send"
       /\ new.ear = "gone" => old.ear = "gone" \/ old.stage # "answered"

\* A request whose component is gone.
LEMMA EarChanges ==
    ASSUME NEW old \in CallType, NEW ear \in {"orphan", "gone"}
    PROVE  LET new == [old EXCEPT !.ear = ear]
           IN  new \in CallType /\ SameBut(new, old) /\ new.ear = ear
BY DEF CallType, SameBut

\* Leaving a page and leaving the script.
LEMMA TabIsLeft ==
    ASSUME TypeInv, NEW t \in Tab, NEW calls, calls = Orphaned(t) \/ calls = Silenced(t)
    PROVE  /\ calls \in [Call -> CallType \cup {Idle}]
           /\ \A d \in Call : Left(calls[d], call[d], t)
<1>1. \A d \in Call : /\ call[d] \in CallType \cup {Idle}
                      /\ d \in CallsOf(t) <=> call[d] # Idle /\ call[d].tab = t
  BY DEF TypeInv, CallsOf
<1>2. ASSUME NEW set, NEW d \in Call, set \subseteq CallsOf(t), d \in CallsOf(t) => d \in set
      PROVE  Left(Gone(set)[d], call[d], t)
  <2>1. Gone(set)[d] = IF d \notin set THEN call[d]
                       ELSE IF Unanswered(d) THEN [call[d] EXCEPT !.ear = "gone"] ELSE Idle
    BY DEF Gone
  <2>2. CASE d \notin set
    BY <1>1, <1>2, <2>1, <2>2 DEF Left
  <2>3. CASE d \in set /\ Unanswered(d)
    <3>1. call[d] \in CallType /\ call[d].tab = t /\ call[d].stage # "answered"
      BY <1>1, <1>2, <2>3 DEF Unanswered
    <3> DEFINE new == [call[d] EXCEPT !.ear = "gone"]
    <3>2. new \in CallType /\ SameBut(new, call[d]) /\ new.ear = "gone"
      BY <3>1, EarChanges
    <3>3. Gone(set)[d] = new
      BY <2>1, <2>3
    <3> HIDE DEF new
    <3> QED
      BY <3>1, <3>2, <3>3 DEF Left
  <2>4. CASE d \in set /\ ~Unanswered(d)
    BY <1>1, <1>2, <2>1, <2>4 DEF Left
  <2> QED
    BY <2>2, <2>3, <2>4
<1>3. \A d \in Call : Left(Silenced(t)[d], call[d], t)
  BY <1>2 DEF Silenced
<1>4. ASSUME NEW d \in Call  PROVE Left(Orphaned(t)[d], call[d], t)
  <2> DEFINE sends == {c \in CallsOf(t) : call[c].kind = "send"}
  <2>1. Orphaned(t)[d] = IF d \in CallsOf(t) \ sends /\ call[d].ear = "live"
                         THEN [call[d] EXCEPT !.ear = "orphan"] ELSE Gone(sends)[d]
    BY DEF Orphaned
  <2>2. CASE d \in CallsOf(t) \ sends /\ call[d].ear = "live"
    <3>1. call[d] \in CallType /\ call[d].tab = t /\ call[d].kind # "send"
      BY <1>1, <2>2
    <3> DEFINE new == [call[d] EXCEPT !.ear = "orphan"]
    <3>2. new \in CallType /\ SameBut(new, call[d]) /\ new.ear = "orphan"
      BY <3>1, EarChanges
    <3>3. Orphaned(t)[d] = new
      BY <2>1, <2>2
    <3> HIDE DEF new
    <3> QED
      BY <3>1, <3>2, <3>3 DEF Left
  <2>3. CASE d \in CallsOf(t) \ sends /\ call[d].ear # "live"
    <3>1. Orphaned(t)[d] = call[d]
      BY <2>1, <2>3 DEF Gone
    <3>2. call[d] \in CallType /\ call[d].tab = t /\ call[d].kind # "send"
      BY <1>1, <2>3
    <3> QED
      BY <2>3, <3>1, <3>2 DEF Left, SameBut
  <2>4. CASE d \notin CallsOf(t) \ sends
    <3>1. Orphaned(t)[d] = Gone(sends)[d]
      BY <2>1, <2>4
    <3>2. sends \subseteq CallsOf(t) /\ (d \in CallsOf(t) => d \in sends)
      BY <2>4
    <3> HIDE DEF sends
    <3> QED
      BY <1>2, <3>1, <3>2
  <2> QED
    BY <2>2, <2>3, <2>4
<1>5. \A d \in Call : Left(calls[d], call[d], t)
  BY <1>3, <1>4
<1>6. calls = [d \in Call |-> calls[d]]
  BY DEF Orphaned, Silenced, Gone
<1>7. \A d \in Call : calls[d] \in CallType \cup {Idle}
  BY <1>1, <1>5 DEF Left
<1> QED
  BY <1>5, <1>6, <1>7

-----------------------------------------------------------------------------
(* The server.                                                             *)

\* verifyPin leaves a row that counts.
LEMMA VerdictCounts ==
    ASSUME TypeInv, NEW u \in User, NEW pin
    PROVE  /\ AfterVerdict(row[u], pin) \in RowType
           /\ Countable(AfterVerdict(row[u], pin))
<1> DEFINE r == row[u]
<1>1. /\ r \in RowType /\ Countable(r) /\ now + Lockout \in Nat /\ 0 \in 0..MaxFailed /\ 0 < MaxFailed
      /\ NoTime \notin Nat
  BY DashboardAssumption DEF TypeInv
<1>2. Verdict(r, pin) \in {"unset", "locked", "right", "wrong"}
  BY DEF Verdict
<1>3. CASE Verdict(r, pin) \in {"unset", "locked"}
  BY <1>1, <1>3 DEF AfterVerdict
<1>4. CASE Verdict(r, pin) = "right"
  BY <1>1, <1>4 DEF AfterVerdict, RowType, Countable
<1>5. CASE Verdict(r, pin) = "wrong"
  <2>1. ~Locked(r)
    BY <1>5 DEF Verdict
  <2>2. Failed(r) \in 0..MaxFailed /\ Failed(r) < MaxFailed
    BY <1>1, <2>1 DEF Failed, RowType, Countable
  <2> DEFINE f == Failed(r) + 1
             until == IF f >= MaxFailed THEN now + Lockout ELSE NoTime
  <2>3. f \in 0..MaxFailed /\ until \in Nat \cup {NoTime} /\ (until = NoTime => f < MaxFailed)
    BY <1>1, <2>2, DashboardAssumption
  <2>4. AfterVerdict(r, pin) = [r EXCEPT !.failed = f, !.lockedUntil = until]
    BY <1>5 DEF AfterVerdict
  <2> HIDE DEF f, until
  <2> QED
    BY <1>1, <2>3, <2>4 DEF RowType, Countable
<1> QED
  BY <1>2, <1>3, <1>4, <1>5

\* What the answer to a request, or the verdict on it, leaves of it.
Kin(new, old) ==
    new.tab = old.tab /\ new.ear = old.ear /\ new.kind = old.kind /\ new.user = old.user

Replied(old, what, expiry) ==
    [old EXCEPT !.stage = "answered", !.pin = NoPin, !.answer = what, !.until = expiry]

Reply(new, old, what, expiry) ==
    /\ new \in CallType /\ Kin(new, old)
    /\ new.stage = "answered" /\ new.answer = what /\ new.until = expiry

\* An answer is the request's own.
LEMMA AnswerIs ==
    ASSUME NEW old \in CallType,
           NEW what \in {"none", "ok", "unset", "wrong", "locked", "refused", "doubtful", "network"},
           NEW expiry \in Nat \cup {NoTime}
    PROVE  Reply(Replied(old, what, expiry), old, what, expiry)
BY DEF CallType, Kin, Replied, Reply

Told(new, old, what, expiry) ==
    \/ new = Idle /\ old.ear = "gone"
    \/ old.ear # "gone" /\ Reply(new, old, what, expiry)

\* AnswerUntil, for any answer and expiry: the request is gone if nobody
\* waits for it.
LEMMA AnswerTells ==
    ASSUME TypeInv, NEW c \in Call, call[c] \in CallType,
           NEW what \in {"none", "ok", "unset", "wrong", "locked", "refused", "doubtful", "network"},
           NEW expiry \in Nat \cup {NoTime}, AnswerUntil(c, what, expiry)
    PROVE  \E new \in CallType \cup {Idle} :
             call' = [call EXCEPT ![c] = new] /\ Told(new, call[c], what, expiry)
<1> DEFINE told == Replied(call[c], what, expiry)
           new == IF call[c].ear = "gone" THEN Idle ELSE told
<1>1. Reply(told, call[c], what, expiry)
  BY AnswerIs
<1>2. call' = [call EXCEPT ![c] = new]
  BY DEF AnswerUntil, TypeInv, Replied
<1> HIDE DEF told
<1>3. new \in CallType \cup {Idle} /\ Told(new, call[c], what, expiry)
  BY <1>1 DEF Told, Reply
<1> QED
  BY <1>2, <1>3

-----------------------------------------------------------------------------
(* What each step does.                                                    *)

\* A page is mounted in tab t: from the login page, where nothing is under
\* way, or after its requests and its entry were given up.
Mounts(t) ==
    /\ \E p : Blank(p) /\ tab' = [tab EXCEPT ![t] = p]
    /\ UNCHANGED <<now, row, replaced>>
    /\ stored' \in [id : User \cup {NoUser}, hasPin : BOOLEAN]
    /\ timer' \in [Tab -> BOOLEAN]
    /\ \/ tab[t].at = "login" /\ UNCHANGED <<call, paid, unsure>>
       \/ (call' = Orphaned(t) \/ call' = Silenced(t)) /\ Forgotten(t)

\* Signing in, going to another page, signing out, reloading, and the end of
\* the session after a reset PIN.
LEMMA PageSteps ==
    ASSUME TypeInv, NEW t \in Tab,
           \/ \E u \in User : SignIn(t, u)
           \/ \E page \in {"profile", "send"} : Go(t, page)
           \/ Logout(t)
           \/ \E page \in {"login", "profile", "send"}, kept \in BOOLEAN : Reload(t, page, kept)
           \/ TimerFires(t)
    PROVE  Mounts(t)
<1>1. tab[t] \in PageType /\ tab[t].verified \in BOOLEAN /\ stored.hasPin \in BOOLEAN
      /\ tab[t].mode \in {"set", "verify"}
  BY DEF TypeInv, PageType
<1>2. Nobody \in [id : User \cup {NoUser}, hasPin : BOOLEAN]
  BY DEF Nobody
<1>3. ASSUME NEW u \in User, SignIn(t, u)  PROVE Mounts(t)
  <2> DEFINE who == [id |-> u, hasPin |-> FALSE]
             p == Mounted("profile", tab[t].verified, who)
  <2>1. who.hasPin \in BOOLEAN /\ who \in [id : User \cup {NoUser}, hasPin : BOOLEAN]
    OBVIOUS
  <2>2. stored' = who /\ tab' = [tab EXCEPT ![t] = Mounted("profile", tab[t].verified, stored')]
    BY <1>3 DEF SignIn
  <2>3. tab' = [tab EXCEPT ![t] = p]
    BY <2>2
  <2> HIDE DEF who
  <2>4. Blank(p)
    BY <1>1, <2>1, MountedIsBlank
  <2> HIDE DEF p
  <2> QED
    BY <1>3, <2>1, <2>2, <2>3, <2>4 DEF SignIn, Mounts, server, history, TypeInv
<1>4. ASSUME NEW page \in {"profile", "send"}, Go(t, page)  PROVE Mounts(t)
  <2>0. PICK verified \in BOOLEAN : verified = TRUE
    OBVIOUS
  <2> DEFINE m == Mounted(page, verified, stored)
             p == [m EXCEPT !.mode = tab[t].mode]
  <2>1. Blank(m)
    BY <1>1, MountedIsBlank
  <2>2. tab' = [tab EXCEPT ![t] = p]
    BY <1>4, <2>0 DEF Go
  <2> HIDE DEF m
  <2>3. Blank(p)
    BY <1>1, <2>1 DEF Blank, PageType
  <2> HIDE DEF p
  <2> QED
    BY <1>4, <2>2, <2>3 DEF Go, Mounts, server, TypeInv
<1>5. ASSUME Logout(t)  PROVE Mounts(t)
  <2>1. Blank(LoginPage(TRUE))
    BY LoginPageIsBlank
  <2> QED
    BY <1>2, <1>5, <2>1 DEF Logout, Mounts, server, TypeInv
<1>6. ASSUME NEW page \in {"login", "profile", "send"}, NEW kept \in BOOLEAN, Reload(t, page, kept)
      PROVE  Mounts(t)
  <2> DEFINE verified == kept /\ tab[t].verified
             p == IF page = "login" \/ stored = Nobody THEN LoginPage(verified)
                  ELSE Mounted(page, verified, stored)
  <2>1. verified \in BOOLEAN
    BY <1>1
  <2>2. tab' = [tab EXCEPT ![t] = p]
    BY <1>6 DEF Reload
  <2> HIDE DEF verified
  <2>3. Blank(p)
    BY <1>1, <2>1, LoginPageIsBlank, MountedIsBlank
  <2>4. timer' \in [Tab -> BOOLEAN]
    BY <1>6 DEF Reload, TypeInv
  <2> HIDE DEF p
  <2> QED
    BY <1>6, <2>2, <2>3, <2>4 DEF Reload, Mounts, server, TypeInv
<1>7. ASSUME TimerFires(t)  PROVE Mounts(t)
  <2>1. Blank(LoginPage(tab[t].verified))
    BY <1>1, LoginPageIsBlank
  <2>2. timer' \in [Tab -> BOOLEAN]
    BY <1>7 DEF TimerFires, TypeInv
  <2> QED
    BY <1>2, <1>7, <2>1, <2>2 DEF TimerFires, Mounts, server
<1> QED
  BY <1>3, <1>4, <1>5, <1>6, <1>7

\* Tab t sends a request, and is busy.
Sends(t, c) ==
    /\ call[c] = Idle /\ ~tab[t].busy
    /\ tab[t].at = "login" => tab[t].form = "pin"
    /\ \E p \in PageType :
         /\ tab' = [tab EXCEPT ![t] = p]
         /\ p.busy /\ p.at = tab[t].at /\ p.form = tab[t].form
         /\ p.lock = tab[t].lock /\ p.lockOf = tab[t].lockOf
    /\ \E new \in CallType :
         /\ call' = [call EXCEPT ![c] = new]
         /\ new.stage = "sent" /\ new.tab = t /\ new.ear = "live" /\ new.until = NoTime
         /\ new.answer = "none"
         /\ new.kind = "send" => tab[t].form = "pin"
    /\ UNCHANGED <<now, row, replaced, stored, timer, paid, unsure>>

\* fetch is called by the gate, the profile page and the payment form.
LEMMA FetchSteps ==
    ASSUME TypeInv, NEW t \in Tab, NEW c \in Call, NEW pin \in Pin,
           GatePin(t, c, pin) \/ ProfilePin(t, c, pin) \/ SendPin(t, c, pin)
    PROVE  Sends(t, c)
<1>1. PICK kind \in {"gateSet", "gateVerify", "set", "reset", "send"} :
        /\ Fetch(t, c, kind, pin)
        /\ kind = "send" => tab[t].form = "pin"
  BY DEF GatePin, ProfilePin, SendPin
<1>2. ~tab[t].busy /\ (tab[t].at = "login" => tab[t].form = "pin")
  BY DEF GatePin, ProfilePin, SendPin, Gated, Inside
<1> DEFINE new == [stage |-> "sent", tab |-> t, ear |-> "live", kind |-> kind,
                   user |-> stored.id, pin |-> pin, answer |-> "none", until |-> NoTime]
           p == [tab[t] EXCEPT !.busy = TRUE]
<1>3. stored.id \in User \cup {NoUser}
  BY DEF TypeInv
<1>4. /\ new \in CallType /\ new.stage = "sent" /\ new.tab = t /\ new.ear = "live"
      /\ new.until = NoTime /\ new.answer = "none" /\ new.kind = kind
  BY <1>3 DEF CallType
<1>5. /\ p \in PageType /\ p.busy /\ p.at = tab[t].at /\ p.form = tab[t].form
      /\ p.lock = tab[t].lock /\ p.lockOf = tab[t].lockOf
  BY DEF TypeInv, PageType
<1>6. /\ call[c] = Idle /\ call' = [call EXCEPT ![c] = new] /\ tab' = [tab EXCEPT ![t] = p]
      /\ UNCHANGED <<now, row, replaced, stored, timer, paid, unsure>>
  BY <1>1 DEF Fetch, server, history, TypeInv
<1> HIDE DEF new, p
<1> QED
  BY <1>1, <1>2, <1>4, <1>5, <1>6 DEF Sends

\* The form and the countdown change what tab t shows.
Shows(t) ==
    /\ \E p \in PageType :
         /\ tab' = [tab EXCEPT ![t] = p]
         /\ p.at = tab[t].at /\ p.busy = tab[t].busy
         /\ \/ p.lock = tab[t].lock /\ p.lockOf = tab[t].lockOf
            \/ p.lock = NoTime
         /\ \/ p.form = tab[t].form /\ UNCHANGED <<paid, unsure>>
            \/ /\ tab[t].form = "fill" /\ p.form = "pin" /\ tab[t].at # "login"
               /\ UNCHANGED <<paid, unsure>>
            \/ tab[t].form = "pin" /\ ~tab[t].busy /\ p.form = "fill" /\ UNCHANGED <<paid, unsure>>
            \/ tab[t].form = "result" /\ p.form = "fill" /\ Forgotten(t)
    /\ UNCHANGED <<now, row, replaced, stored, timer, call>>

\* handleFormSubmit, the modal that is closed, a new payment, and the end of
\* the countdown.
LEMMA ShowSteps ==
    ASSUME TypeInv, NEW t \in Tab,
           FormSubmit(t) \/ CloseModal(t) \/ NewPayment(t) \/ CountdownEnds(t)
    PROVE  Shows(t)
<1>1. tab[t] \in PageType /\ tab \in [Tab -> PageType]
  BY DEF TypeInv
<1>2. ASSUME NEW form \in {"fill", "pin"}
      PROVE  LET p == [tab[t] EXCEPT !.form = form]
             IN  /\ p \in PageType /\ p.form = form /\ p.at = tab[t].at /\ p.busy = tab[t].busy
                 /\ p.lock = tab[t].lock /\ p.lockOf = tab[t].lockOf
  BY <1>1 DEF PageType
<1>3. CASE FormSubmit(t)
  <2> DEFINE p == [tab[t] EXCEPT !.form = "pin"]
  <2>1. /\ p \in PageType /\ p.form = "pin" /\ p.at = tab[t].at /\ p.busy = tab[t].busy
        /\ p.lock = tab[t].lock /\ p.lockOf = tab[t].lockOf
    BY <1>2
  <2>2. /\ tab' = [tab EXCEPT ![t] = p] /\ tab[t].form = "fill" /\ tab[t].at # "login"
        /\ UNCHANGED <<now, row, replaced, stored, timer, call, paid, unsure>>
    BY <1>1, <1>3 DEF FormSubmit, Inside, server, history
  <2> HIDE DEF p
  <2> QED
    BY <2>1, <2>2 DEF Shows
<1>4. CASE CloseModal(t)
  <2> DEFINE p == [tab[t] EXCEPT !.form = "fill"]
  <2>1. /\ p \in PageType /\ p.form = "fill" /\ p.at = tab[t].at /\ p.busy = tab[t].busy
        /\ p.lock = tab[t].lock /\ p.lockOf = tab[t].lockOf
    BY <1>2
  <2>2. /\ tab' = [tab EXCEPT ![t] = p] /\ tab[t].form = "pin" /\ ~tab[t].busy
        /\ UNCHANGED <<now, row, replaced, stored, timer, call, paid, unsure>>
    BY <1>1, <1>4 DEF CloseModal, server, history
  <2> HIDE DEF p
  <2> QED
    BY <2>1, <2>2 DEF Shows
<1>5. CASE NewPayment(t)
  <2> DEFINE p == [tab[t] EXCEPT !.form = "fill"]
  <2>1. /\ p \in PageType /\ p.form = "fill" /\ p.at = tab[t].at /\ p.busy = tab[t].busy
        /\ p.lock = tab[t].lock /\ p.lockOf = tab[t].lockOf
    BY <1>2
  <2>2. /\ tab' = [tab EXCEPT ![t] = p] /\ tab[t].form = "result" /\ Forgotten(t)
        /\ UNCHANGED <<now, row, replaced, stored, timer, call>>
    BY <1>1, <1>5 DEF NewPayment, server
  <2> HIDE DEF p
  <2> QED
    BY <2>1, <2>2 DEF Shows
<1>6. CASE CountdownEnds(t)
  <2> DEFINE p == [tab[t] EXCEPT !.lock = NoTime, !.lockOf = NoUser]
  <2>1. /\ p \in PageType /\ p.form = tab[t].form /\ p.at = tab[t].at /\ p.busy = tab[t].busy
        /\ p.lock = NoTime
    BY <1>1 DEF PageType
  <2>2. /\ tab' = [tab EXCEPT ![t] = p]
        /\ UNCHANGED <<now, row, replaced, stored, timer, call, paid, unsure>>
    BY <1>1, <1>6 DEF CountdownEnds, server, history
  <2> HIDE DEF p
  <2> QED
    BY <2>1, <2>2 DEF Shows
<1> QED
  BY <1>3, <1>4, <1>5, <1>6

\* A lock of u that runs does not end before its time, but by being written
\* over.
LockAccounted(u) ==
    LET until == row[u].lockedUntil IN
    until # NoTime /\ until > now =>
        \/ row'[u].lockedUntil # NoTime /\ until <= row'[u].lockedUntil
        \/ until <= replaced'[u]

\* What the server, or the network, makes of the rows.
RowsMove ==
    /\ row' \in [User -> RowType] /\ replaced' \in [User -> Nat]
    /\ \A u \in User :
         /\ Countable(row'[u])
         /\ replaced[u] <= replaced'[u]
         /\ LockAccounted(u)

\* What an answer says of a payment.
TellsOfPayment(new, old, moved) ==
    \/ new.answer = "ok" /\ old.stage = "sent" /\ (old.ear = "live" => moved = 1)
    \/ new.answer \in {"unset", "wrong", "locked", "refused"} /\ old.stage = "sent" /\ moved = 0
    \/ new.answer \in {"doubtful", "network"}

\* The expiry an answer names is none, or the row's as it is.
Dated(new) ==
    new.until # NoTime =>
        /\ new.user \in User
        /\ row' = row /\ new.until = row[new.user].lockedUntil

\* A request goes on: it vanishes, waits for a second look, or is answered.
GoesOn(new, old, moved) ==
    \/ new = Idle /\ old.ear = "gone"
    \/ /\ new \in CallType /\ Kin(new, old)
       /\ new.stage = "judged" /\ new.kind = "gateVerify" /\ new.user # NoUser
       /\ new.until = old.until
    \/ /\ new \in CallType /\ Kin(new, old) /\ old.ear # "gone"
       /\ new.stage = "answered"
       /\ Dated(new)
       /\ new.kind = "send" => TellsOfPayment(new, old, moved)

Becomes(c, new, moved) ==
    /\ call' = [call EXCEPT ![c] = new]
    /\ GoesOn(new, call[c], moved)
    /\ moved = 1 => call[c].kind = "send" /\ call[c].ear = "live" /\ call[c].stage = "sent"
    /\ paid' = [paid EXCEPT ![call[c].tab] = @ + moved]

Serves(c) ==
    /\ call[c] \in CallType /\ call[c] # Idle
    /\ \E new \in CallType \cup {Idle}, moved \in {0, 1} : Becomes(c, new, moved)
    /\ RowsMove
    /\ UNCHANGED <<now, stored, tab, timer, unsure>>

\* A row that is left alone has moved, and so has one that is written over, or
\* that verifyPin writes.
LEMMA SameRowMoves ==
    ASSUME TypeInv, UNCHANGED <<row, replaced>>
    PROVE  RowsMove
<1>1. /\ row \in [User -> RowType] /\ replaced \in [User -> Nat]
      /\ \A u \in User : Countable(row[u])
  BY DEF TypeInv
<1>2. \A u \in User : row[u].lockedUntil # NoTime => row[u].lockedUntil <= row[u].lockedUntil
  BY <1>1 DEF RowType
<1> QED
  BY <1>1, <1>2 DEF RowsMove, LockAccounted

LEMMA OverwriteMoves ==
    ASSUME TypeInv, NEW u \in User, NEW r \in RowType, Countable(r), Overwrite(u, r)
    PROVE  RowsMove
<1>1. /\ row \in [User -> RowType] /\ replaced \in [User -> Nat]
      /\ \A v \in User : Countable(row[v])
  BY DEF TypeInv
<1>2. row' \in [User -> RowType] /\ row'[u] = r /\ \A v \in User \ {u} : row'[v] = row[v]
  BY <1>1 DEF Overwrite
<1>3. /\ replaced' \in [User -> Nat] /\ replaced[u] <= replaced'[u]
      /\ \A v \in User \ {u} : replaced'[v] = replaced[v]
      /\ row[u].lockedUntil # NoTime /\ row[u].lockedUntil > now
           => row[u].lockedUntil <= replaced'[u]
  <2>1. row[u].lockedUntil \in Nat \cup {NoTime} /\ replaced[u] \in Nat /\ now \in Nat
    BY <1>1 DEF RowType, TypeInv
  <2> QED
    BY <1>1, <2>1 DEF Overwrite, Locked
<1>4. ASSUME NEW v \in User
      PROVE  Countable(row'[v]) /\ replaced[v] <= replaced'[v] /\ LockAccounted(v)
  <2>1. CASE v = u
    BY <1>2, <1>3, <2>1 DEF LockAccounted
  <2>2. CASE v # u
    <3>1. row'[v] = row[v] /\ replaced'[v] = replaced[v] /\ replaced[v] \in Nat
      BY <1>1, <1>2, <1>3, <2>2
    <3>2. row[v].lockedUntil # NoTime => row[v].lockedUntil <= row[v].lockedUntil
      BY <1>1 DEF RowType
    <3> QED
      BY <1>1, <3>1, <3>2 DEF LockAccounted
  <2> QED
    BY <2>1, <2>2
<1> QED
  BY <1>2, <1>3, <1>4 DEF RowsMove

\* verifyPin writes no row that is locked.
LEMMA VerdictMoves ==
    ASSUME TypeInv, NEW u \in User, NEW pin, UNCHANGED replaced,
           row' = [row EXCEPT ![u] = AfterVerdict(row[u], pin)]
    PROVE  RowsMove
<1> DEFINE r == AfterVerdict(row[u], pin)
<1>1. r \in RowType /\ Countable(r)
  BY VerdictCounts
<1>2. /\ row \in [User -> RowType] /\ replaced \in [User -> Nat]
      /\ \A v \in User : Countable(row[v])
  BY DEF TypeInv
<1>3. row[u].pin # NoPin /\ Locked(row[u]) => r = row[u]
  BY DEF AfterVerdict, Verdict
<1>4. row[u].pin = NoPin => r = row[u]
  BY DEF AfterVerdict, Verdict
<1> HIDE DEF r
<1>5. row' \in [User -> RowType] /\ row'[u] = r /\ \A v \in User \ {u} : row'[v] = row[v]
  BY <1>1, <1>2 DEF r
<1>6. ASSUME NEW v \in User
      PROVE  Countable(row'[v]) /\ replaced[v] <= replaced'[v] /\ LockAccounted(v)
  <2>1. Countable(row'[v]) /\ replaced[v] <= replaced'[v]
    BY <1>1, <1>2, <1>5
  <2>2. row[v].lockedUntil # NoTime /\ row[v].lockedUntil > now => row'[v] = row[v]
    BY <1>3, <1>4, <1>5 DEF Locked
  <2>3. row[v].lockedUntil # NoTime => row[v].lockedUntil <= row[v].lockedUntil
    BY <1>2 DEF RowType
  <2> QED
    BY <2>1, <2>2, <2>3 DEF LockAccounted
<1> QED
  BY <1>2, <1>5, <1>6 DEF RowsMove

\* An attempt from elsewhere.
Elsewhere == RowsMove /\ UNCHANGED <<now, stored, tab, call, timer, paid, unsure>>

LEMMA OtherDeviceMoves ==
    ASSUME TypeInv, NEW u \in User, OtherDevice(u)
    PROVE  Elsewhere
<1>1. PICK failed \in 0..MaxFailed, read \in 0..now :
        Overwrite(u, [row[u] EXCEPT
            !.failed = failed,
            !.lockedUntil = IF failed = MaxFailed THEN read + Lockout ELSE NoTime])
  BY DEF OtherDevice
<1> DEFINE until == IF failed = MaxFailed THEN read + Lockout ELSE NoTime
           r == [row[u] EXCEPT !.failed = failed, !.lockedUntil = until]
<1>2. until \in Nat \cup {NoTime} /\ (until = NoTime => failed < MaxFailed)
  BY DashboardAssumption DEF TypeInv
<1>3. row[u] \in RowType
  BY DEF TypeInv
<1>4. Overwrite(u, r)
  BY <1>1
<1> HIDE DEF until
<1>5. r \in RowType /\ Countable(r)
  BY <1>2, <1>3 DEF RowType, Countable
<1> HIDE DEF r
<1> QED
  BY <1>4, <1>5, OverwriteMoves DEF OtherDevice, history, Elsewhere

\* A payment that nobody is told of was not made, as far as this goes.
LEMMA NothingPaid ==
    ASSUME TypeInv, NEW t \in Tab
    PROVE  paid = [paid EXCEPT ![t] = @ + 0]
<1>1. paid \in [Tab -> Nat] /\ paid[t] + 0 = paid[t]
  BY DEF TypeInv
<1> QED
  BY <1>1

\* A request that is answered without a date.
LEMMA ToldGoesOn ==
    ASSUME NEW old \in CallType, NEW moved \in {0, 1}, NEW new, NEW what,
           Told(new, old, what, NoTime),
           old.kind = "send" =>
              \/ what = "ok" /\ old.stage = "sent" /\ (old.ear = "live" => moved = 1)
              \/ what \in {"unset", "wrong", "locked", "refused"} /\ old.stage = "sent" /\ moved = 0
              \/ what \in {"doubtful", "network"}
    PROVE  GoesOn(new, old, moved)
BY DEF Told, Reply, GoesOn, Kin, Dated, TellsOfPayment

\* setPin and resetPin.
LEMMA SettingServes ==
    ASSUME TypeInv, NEW c \in Call, ServeSetting(c)
    PROVE  Serves(c)
<1> DEFINE cleared == [pin |-> call[c].pin, failed |-> 0, lockedUntil |-> NoTime]
<1>1. /\ call[c] \in CallType /\ call[c] # Idle /\ call[c].stage = "sent"
      /\ call[c].kind \in {"gateSet", "set", "reset"} /\ call[c].user # NoUser
  BY StagedIsCall DEF ServeSetting, Arrived
<1>2. call[c].user \in User /\ call[c].pin \in Pin \cup {NoPin} /\ call[c].tab \in Tab
  BY <1>1 DEF CallType
<1>3. /\ cleared \in RowType /\ Countable(cleared) /\ cleared.lockedUntil = NoTime
  BY <1>2, DashboardAssumption DEF RowType, Countable
<1>4. Overwrite(call[c].user, cleared)
  BY DEF ServeSetting
<1>5. /\ UNCHANGED <<now, stored, tab, timer, paid, unsure>>
      /\ AnswerUntil(c, "ok", NoTime)
  BY DEF ServeSetting, history, Answer
<1> HIDE DEF cleared
<1>6. RowsMove
  BY <1>2, <1>3, <1>4, OverwriteMoves
<1>7. PICK new \in CallType \cup {Idle} :
        call' = [call EXCEPT ![c] = new] /\ Told(new, call[c], "ok", NoTime)
  <2>1. NoTime \in Nat \cup {NoTime}
    OBVIOUS
  <2> QED
    BY <1>1, <1>5, <2>1, AnswerTells
<1>8. GoesOn(new, call[c], 0)
  BY <1>1, <1>7, ToldGoesOn
<1>9. paid' = [paid EXCEPT ![call[c].tab] = @ + 0]
  BY <1>2, <1>5, NothingPaid
<1>10. Becomes(c, new, 0)
  BY <1>7, <1>8, <1>9 DEF Becomes
<1> QED
  BY <1>1, <1>5, <1>6, <1>10 DEF Serves

\* A verdict that waits for a second look at the row.
LEMMA JudgedIs ==
    ASSUME NEW old \in CallType, NEW verdict \in {"wrong", "locked"}
    PROVE  LET new == [old EXCEPT !.stage = "judged", !.answer = verdict]
           IN  /\ new \in CallType /\ Kin(new, old)
               /\ new.stage = "judged" /\ new.until = old.until
BY DEF CallType, Kin

\* The first look of the verify route.
LEMMA VerifyServes ==
    ASSUME TypeInv, NEW c \in Call, ServeVerify(c)
    PROVE  Serves(c)
<1> DEFINE verdict == Verdict(row[call[c].user], call[c].pin)
<1>1. /\ call[c] \in CallType /\ call[c] # Idle /\ call[c].stage = "sent"
      /\ call[c].kind = "gateVerify" /\ call[c].user # NoUser
  BY StagedIsCall DEF ServeVerify, Arrived
<1>2. call[c].user \in User /\ call[c].tab \in Tab
  BY <1>1 DEF CallType
<1>3. RowsMove
  BY <1>2, VerdictMoves DEF ServeVerify
<1>4. UNCHANGED <<now, stored, tab, timer, paid, unsure>>
  BY DEF ServeVerify, history
<1>5. paid' = [paid EXCEPT ![call[c].tab] = @ + 0]
  BY <1>2, <1>4, NothingPaid
<1>6. ASSUME NEW what \in {"ok", "unset"}, Answer(c, what)  PROVE Serves(c)
  <2>0. what \in {"none", "ok", "unset", "wrong", "locked", "refused", "doubtful", "network"}
        /\ NoTime \in Nat \cup {NoTime}
    OBVIOUS
  <2>1. AnswerUntil(c, what, NoTime)
    BY <1>6 DEF Answer
  <2>2. PICK new \in CallType \cup {Idle} :
          call' = [call EXCEPT ![c] = new] /\ Told(new, call[c], what, NoTime)
    BY <1>1, <2>0, <2>1, AnswerTells
  <2>3. GoesOn(new, call[c], 0)
    BY <1>1, <2>2, ToldGoesOn
  <2>4. Becomes(c, new, 0)
    BY <1>5, <2>2, <2>3 DEF Becomes
  <2> QED
    BY <1>1, <1>3, <1>4, <2>4 DEF Serves
<1>7. ASSUME verdict \in {"wrong", "locked"},
             call' = [call EXCEPT ![c].stage = "judged", ![c].answer = verdict]
      PROVE  Serves(c)
  <2> DEFINE new == [call[c] EXCEPT !.stage = "judged", !.answer = verdict]
  <2>1. call' = [call EXCEPT ![c] = new]
    BY <1>7 DEF TypeInv
  <2>2. PICK v \in {"wrong", "locked"} : v = verdict
    BY <1>7
  <2>3. /\ new \in CallType /\ Kin(new, call[c])
        /\ new.stage = "judged" /\ new.until = call[c].until
    BY <1>1, <2>2, JudgedIs
  <2> HIDE DEF new, verdict
  <2>4. GoesOn(new, call[c], 0)
    BY <1>1, <2>3 DEF GoesOn, Kin
  <2>5. Becomes(c, new, 0)
    BY <1>5, <2>1, <2>4 DEF Becomes
  <2> QED
    BY <1>1, <1>3, <1>4, <2>3, <2>5 DEF Serves
<1>8. verdict \in {"unset", "locked", "right", "wrong"}
  BY DEF Verdict
<1>9. \/ Answer(c, "ok") \/ Answer(c, "unset")
      \/ /\ verdict \in {"wrong", "locked"}
         /\ call' = [call EXCEPT ![c].stage = "judged", ![c].answer = verdict]
  <2>1. IF verdict \in {"right", "unset"} THEN Answer(c, IF verdict = "right" THEN "ok" ELSE "unset")
        ELSE call' = [call EXCEPT ![c].stage = "judged", ![c].answer = verdict]
    BY DEF ServeVerify
  <2> HIDE DEF verdict
  <2> QED
    BY <1>8, <2>1
<1> HIDE DEF verdict
<1> QED
  BY <1>6, <1>7, <1>9

\* The second look.
LEMMA ReadBackServes ==
    ASSUME TypeInv, NEW c \in Call, ReadBack(c)
    PROVE  Serves(c)
<1> DEFINE date == IF call[c].answer = "locked" THEN row[call[c].user].lockedUntil ELSE NoTime
<1>1. /\ call[c] \in CallType /\ call[c] # Idle /\ call[c].stage = "judged"
      /\ call[c].kind = "gateVerify" /\ call[c].user # NoUser
  BY StagedIsCall DEF ReadBack, TypeInv, Asked
<1>2. /\ call[c].user \in User /\ call[c].tab \in Tab
      /\ call[c].answer \in {"none", "ok", "unset", "wrong", "locked", "refused", "doubtful", "network"}
  BY <1>1 DEF CallType
<1>3. date \in Nat \cup {NoTime}
  BY <1>2 DEF TypeInv, RowType
<1>4. /\ UNCHANGED <<now, row, replaced, stored, tab, timer, paid, unsure>>
      /\ AnswerUntil(c, call[c].answer, date)
  BY DEF ReadBack, server, history
<1>5. RowsMove
  BY <1>4, SameRowMoves
<1>6. date # NoTime => date = row[call[c].user].lockedUntil
  OBVIOUS
<1> HIDE DEF date
<1>7. PICK new \in CallType \cup {Idle} :
        call' = [call EXCEPT ![c] = new] /\ Told(new, call[c], call[c].answer, date)
  BY <1>1, <1>2, <1>3, <1>4, AnswerTells
<1>8. GoesOn(new, call[c], 0)
  BY <1>1, <1>2, <1>4, <1>6, <1>7 DEF Told, Reply, GoesOn, Kin, Dated
<1>9. paid' = [paid EXCEPT ![call[c].tab] = @ + 0]
  BY <1>2, <1>4, NothingPaid
<1>10. Becomes(c, new, 0)
  BY <1>7, <1>8, <1>9 DEF Becomes
<1> QED
  BY <1>1, <1>4, <1>5, <1>10 DEF Serves

\* The send route.
LEMMA SendServes ==
    ASSUME TypeInv, NEW c \in Call, ServeSend(c)
    PROVE  Serves(c)
<1> DEFINE verdict == Verdict(row[call[c].user], call[c].pin)
<1>1. /\ call[c] \in CallType /\ call[c] # Idle /\ call[c].stage = "sent"
      /\ call[c].kind = "send" /\ call[c].user # NoUser
  BY StagedIsCall DEF ServeSend, Arrived
<1>2. call[c].user \in User /\ call[c].tab \in Tab
  BY <1>1 DEF CallType
<1>3. RowsMove
  BY <1>2, VerdictMoves DEF ServeSend
<1>4. UNCHANGED <<now, stored, tab, timer, unsure>>
  BY DEF ServeSend
<1>5. ASSUME NEW what \in {"unset", "wrong", "locked", "ok", "refused", "doubtful"},
             NEW moved \in {0, 1}, Answer(c, what),
             paid' = [paid EXCEPT ![call[c].tab] = @ + moved],
             moved = 1 => call[c].ear = "live",
             \/ what = "ok" /\ (call[c].ear = "live" => moved = 1)
             \/ what \in {"unset", "wrong", "locked", "refused"} /\ moved = 0
             \/ what = "doubtful"
      PROVE  Serves(c)
  <2>0. what \in {"none", "ok", "unset", "wrong", "locked", "refused", "doubtful", "network"}
        /\ NoTime \in Nat \cup {NoTime}
    OBVIOUS
  <2>1. AnswerUntil(c, what, NoTime)
    BY <1>5 DEF Answer
  <2>2. PICK new \in CallType \cup {Idle} :
          call' = [call EXCEPT ![c] = new] /\ Told(new, call[c], what, NoTime)
    BY <1>1, <2>0, <2>1, AnswerTells
  <2>3. GoesOn(new, call[c], moved)
    BY <1>1, <1>5, <2>2, ToldGoesOn
  <2>4. Becomes(c, new, moved)
    BY <1>1, <1>5, <2>2, <2>3 DEF Becomes
  <2> QED
    BY <1>1, <1>3, <1>4, <2>4 DEF Serves
<1>6. verdict \in {"unset", "locked", "right", "wrong"}
  BY DEF Verdict
<1>7. CASE verdict # "right" /\ Answer(c, verdict) /\ paid' = paid
  <2>1. verdict \in {"unset", "wrong", "locked"} /\ Answer(c, verdict)
    BY <1>6, <1>7
  <2>2. paid' = [paid EXCEPT ![call[c].tab] = @ + 0]
    BY <1>2, <1>7, NothingPaid
  <2>3. ASSUME NEW what \in {"unset", "wrong", "locked"}, Answer(c, what)  PROVE Serves(c)
    BY <1>5, <2>2, <2>3
  <2> HIDE DEF verdict
  <2> QED
    BY <2>1, <2>3
<1>8. ASSUME NEW outcome \in {"ok", "refused", "doubtful"}, NEW through \in BOOLEAN,
             (outcome = "ok") => through, (outcome = "refused") => ~through,
             Answer(c, outcome),
             paid' = [paid EXCEPT ![call[c].tab] =
                        @ + IF through /\ call[c].ear = "live" THEN 1 ELSE 0]
      PROVE  Serves(c)
  <2> DEFINE moved == IF through /\ call[c].ear = "live" THEN 1 ELSE 0
  <2>1. moved \in {0, 1} /\ (moved = 1 <=> through /\ call[c].ear = "live")
    OBVIOUS
  <2>2. paid' = [paid EXCEPT ![call[c].tab] = @ + moved]
    BY <1>8
  <2> HIDE DEF moved
  <2> QED
    BY <1>5, <1>8, <2>1, <2>2
<1>9. \/ verdict # "right" /\ Answer(c, verdict) /\ paid' = paid
      \/ \E outcome \in {"ok", "refused", "doubtful"}, moved \in BOOLEAN :
           /\ (outcome = "ok") => moved
           /\ (outcome = "refused") => ~moved
           /\ Answer(c, outcome)
           /\ paid' = [paid EXCEPT ![call[c].tab] =
                         @ + IF moved /\ call[c].ear = "live" THEN 1 ELSE 0]
  BY DEF ServeSend
<1> HIDE DEF verdict
<1> QED
  BY <1>7, <1>8, <1>9

\* A guard or the network ends the request.
LEMMA OthersServe ==
    ASSUME TypeInv, NEW c \in Call, TurnDown(c) \/ Lose(c)
    PROVE  Serves(c)
<1>1. /\ call[c] \in CallType /\ call[c] # Idle
      /\ UNCHANGED <<now, row, replaced, stored, tab, timer, paid, unsure>>
  BY StagedIsCall DEF TurnDown, Lose, server, history
<1>2. call[c].tab \in Tab
  BY <1>1 DEF CallType
<1>3. RowsMove
  BY <1>1, SameRowMoves
<1>4. paid' = [paid EXCEPT ![call[c].tab] = @ + 0]
  BY <1>1, <1>2, NothingPaid
<1>5. ASSUME NEW what \in {"refused", "network"}, Answer(c, what),
             what = "refused" => call[c].stage = "sent"
      PROVE  Serves(c)
  <2>0. what \in {"none", "ok", "unset", "wrong", "locked", "refused", "doubtful", "network"}
        /\ NoTime \in Nat \cup {NoTime}
    OBVIOUS
  <2>1. AnswerUntil(c, what, NoTime)
    BY <1>5 DEF Answer
  <2>2. PICK new \in CallType \cup {Idle} :
          call' = [call EXCEPT ![c] = new] /\ Told(new, call[c], what, NoTime)
    BY <1>1, <2>0, <2>1, AnswerTells
  <2>3. GoesOn(new, call[c], 0)
    BY <1>1, <1>5, <2>2, ToldGoesOn
  <2>4. Becomes(c, new, 0)
    BY <1>4, <2>2, <2>3 DEF Becomes
  <2> QED
    BY <1>1, <1>3, <2>4 DEF Serves
<1>6. CASE TurnDown(c)
  BY <1>5, <1>6 DEF TurnDown
<1>7. CASE Lose(c)
  BY <1>5, <1>7 DEF Lose
<1> QED
  BY <1>6, <1>7

\* What the page makes of an answer.
Listens(p, t, r) ==
    /\ p \in PageType /\ p.at = tab[t].at
    /\ \/ p.lock = tab[t].lock /\ p.lockOf = tab[t].lockOf
       \/ p.lock = r.until /\ p.lockOf = r.user /\ r.until # NoTime
    /\ r.kind # "send" => p.form = tab[t].form /\ (p.busy <=> tab[t].busy /\ r.ear # "live")
    /\ r.kind = "send" => p.form = FormAfter(r.answer) /\ ~p.busy

Doubt(r) == IF r.kind = "send" /\ r.answer \in {"doubtful", "network"} THEN 1 ELSE 0

Hears(c) ==
    /\ call[c] \in CallType /\ call[c] # Idle /\ call[c].stage = "answered"
    /\ call' = [call EXCEPT ![c] = Idle]
    /\ \E p : tab' = [tab EXCEPT ![call[c].tab] = p] /\ Listens(p, call[c].tab, call[c])
    /\ unsure' = [unsure EXCEPT ![call[c].tab] = @ + Doubt(call[c])]
    /\ stored' \in [id : User \cup {NoUser}, hasPin : BOOLEAN]
    /\ timer' \in [Tab -> BOOLEAN]
    /\ UNCHANGED <<now, row, replaced, paid>>

\* The copy of the user in localStorage is one, marked or not.
LEMMA MarkIsStored ==
    ASSUME TypeInv, MarkPin \/ UNCHANGED stored
    PROVE  stored' \in [id : User \cup {NoUser}, hasPin : BOOLEAN]
BY DEF TypeInv, MarkPin

\* A payment of which nothing is in doubt.
LEMMA NoDoubt ==
    ASSUME TypeInv, NEW c \in Call, call[c] \in CallType, call[c].kind # "send"
    PROVE  unsure = [unsure EXCEPT ![call[c].tab] = @ + Doubt(call[c])]
<1>1. Doubt(call[c]) = 0 /\ call[c].tab \in Tab
  BY DEF Doubt, CallType
<1>2. unsure \in [Tab -> Nat] /\ unsure[call[c].tab] + 0 = unsure[call[c].tab]
  BY <1>1 DEF TypeInv
<1> QED
  BY <1>1, <1>2

\* The handlers of the gate, the profile page and the payment form.
LEMMA HearSteps ==
    ASSUME TypeInv, NEW c \in Call, Hear(c)
    PROVE  Hears(c)
<1>1. /\ call[c] \in CallType /\ call[c] # Idle /\ call[c].stage = "answered"
      /\ call' = [call EXCEPT ![c] = Idle]
      /\ UNCHANGED <<now, row, replaced, paid>>
  BY StagedIsCall
     DEF Hear, HearGateOk, HearGateError, HearProfile, HearSend, Heard, Freed, server, history
<1>2. PICK t \in Tab : t = call[c].tab
  BY <1>1 DEF CallType
<1>3. /\ tab \in [Tab -> PageType] /\ tab[t] \in PageType /\ call[c].user \in User \cup {NoUser}
      /\ call[c].until \in Nat \cup {NoTime} /\ timer \in [Tab -> BOOLEAN]
      /\ stored \in [id : User \cup {NoUser}, hasPin : BOOLEAN]
  BY <1>1 DEF TypeInv, CallType
<1>4. ASSUME NEW p, tab' = [tab EXCEPT ![t] = p], Listens(p, t, call[c]),
             unsure' = [unsure EXCEPT ![t] = @ + Doubt(call[c])],
             stored' \in [id : User \cup {NoUser}, hasPin : BOOLEAN],
             timer' \in [Tab -> BOOLEAN]
      PROVE  Hears(c)
  BY <1>1, <1>2, <1>4 DEF Hears
<1>5. CASE HearGateOk(c)
  <2> DEFINE p == [tab[t] EXCEPT !.verified = TRUE, !.busy = tab[t].busy /\ ~Live(c)]
  <2>1. /\ call[c].kind \in {"gateSet", "gateVerify"}
        /\ tab' = [tab EXCEPT ![t].verified = TRUE, ![t].busy = @ /\ ~Live(c)]
        /\ MarkPin \/ UNCHANGED stored
        /\ UNCHANGED <<timer, unsure>>
    BY <1>2, <1>5 DEF HearGateOk, Heard, history
  <2>2. tab' = [tab EXCEPT ![t] = p]
    BY <1>3, <2>1
  <2>3. Listens(p, t, call[c])
    BY <1>3, <2>1 DEF Listens, PageType, Live
  <2>4. /\ stored' \in [id : User \cup {NoUser}, hasPin : BOOLEAN]
        /\ unsure' = [unsure EXCEPT ![t] = @ + Doubt(call[c])]
    BY <1>1, <1>2, <2>1, MarkIsStored, NoDoubt
  <2> HIDE DEF p
  <2> QED
    BY <1>3, <1>4, <2>1, <2>2, <2>3, <2>4
<1>6. CASE HearGateError(c)
  <2> DEFINE dated == Live(c) /\ Answers(c, {"locked"}) /\ call[c].until # NoTime
             p == [tab[t] EXCEPT !.busy = tab[t].busy /\ ~Live(c),
                                 !.lock = IF dated THEN call[c].until ELSE tab[t].lock,
                                 !.lockOf = IF dated THEN call[c].user ELSE tab[t].lockOf]
  <2>1. /\ call[c].kind \in {"gateSet", "gateVerify"}
        /\ tab' = [tab EXCEPT ![t].busy = @ /\ ~Live(c),
                              ![t].lock = IF dated THEN call[c].until ELSE @,
                              ![t].lockOf = IF dated THEN call[c].user ELSE @]
        /\ UNCHANGED <<stored, timer, unsure>>
    BY <1>2, <1>6 DEF HearGateError, Heard, history
  <2>2. tab' = [tab EXCEPT ![t] = p]
    BY <1>3, <2>1
  <2>3. dated => call[c].until # NoTime
    OBVIOUS
  <2> HIDE DEF dated
  <2>4. Listens(p, t, call[c])
    BY <1>3, <2>1, <2>3 DEF Listens, PageType, Live
  <2>5. /\ stored' \in [id : User \cup {NoUser}, hasPin : BOOLEAN]
        /\ unsure' = [unsure EXCEPT ![t] = @ + Doubt(call[c])]
    BY <1>1, <1>2, <1>3, <2>1, NoDoubt
  <2> HIDE DEF p
  <2> QED
    BY <1>3, <1>4, <2>1, <2>2, <2>4, <2>5
<1>7. CASE HearProfile(c)
  <2> DEFINE set == Answers(c, {"ok"}) /\ call[c].kind = "set"
             reset == Answers(c, {"ok"}) /\ call[c].kind = "reset"
             p == [tab[t] EXCEPT !.busy = tab[t].busy /\ ~Live(c),
                                 !.knowsPin = tab[t].knowsPin \/ (set /\ Live(c))]
  <2>1. /\ call[c].kind \in {"set", "reset"}
        /\ tab' = [tab EXCEPT ![t].busy = @ /\ ~Live(c), ![t].knowsPin = @ \/ (set /\ Live(c))]
        /\ MarkPin \/ UNCHANGED stored
        /\ timer' = [timer EXCEPT ![t] = @ \/ reset]
        /\ UNCHANGED unsure
    BY <1>2, <1>7 DEF HearProfile, Heard, history
  <2>2. tab' = [tab EXCEPT ![t] = p]
    BY <1>3, <2>1
  <2>3. Listens(p, t, call[c])
    BY <1>3, <2>1 DEF Listens, PageType, Live
  <2>4. /\ stored' \in [id : User \cup {NoUser}, hasPin : BOOLEAN]
        /\ unsure' = [unsure EXCEPT ![t] = @ + Doubt(call[c])]
    BY <1>1, <1>2, <2>1, MarkIsStored, NoDoubt
  <2>5. timer' \in [Tab -> BOOLEAN]
    BY <1>3, <2>1
  <2> HIDE DEF p, set, reset
  <2> QED
    BY <1>4, <2>2, <2>3, <2>4, <2>5
<1>8. CASE HearSend(c)
  <2> DEFINE p == [tab[t] EXCEPT !.busy = FALSE, !.form = FormAfter(call[c].answer)]
  <2>1. /\ call[c].kind = "send"
        /\ tab' = [tab EXCEPT ![t].busy = FALSE, ![t].form = FormAfter(call[c].answer)]
        /\ UNCHANGED <<stored, timer>>
    BY <1>2, <1>8 DEF HearSend, Heard
  <2>2. tab' = [tab EXCEPT ![t] = p]
    BY <1>3, <2>1
  <2>3. FormAfter(call[c].answer) \in {"fill", "pin", "result"}
    BY DEF FormAfter
  <2>4. Listens(p, t, call[c])
    BY <1>3, <2>1, <2>3 DEF Listens, PageType
  <2>5. unsure' = [unsure EXCEPT ![t] = @ + IF Answers(c, {"doubtful", "network"}) THEN 1 ELSE 0]
    BY <1>2, <1>8 DEF HearSend
  <2>6. Doubt(call[c]) = IF Answers(c, {"doubtful", "network"}) THEN 1 ELSE 0
    BY <2>1 DEF Doubt, Answers
  <2> HIDE DEF p
  <2> QED
    BY <1>3, <1>4, <2>1, <2>2, <2>4, <2>5, <2>6
<1> QED
  BY <1>5, <1>6, <1>7, <1>8 DEF Hear

\* Every step is one of these.
LEMMA Steps ==
    ASSUME TypeInv, Next
    PROVE  \/ \E t \in Tab : Mounts(t) \/ Shows(t) \/ \E c \in Call : Sends(t, c)
           \/ \E c \in Call : Serves(c) \/ Hears(c)
           \/ Elsewhere
           \/ Tick
<1>1. ASSUME NEW t \in Tab,
             \/ \E u \in User : SignIn(t, u)
             \/ \E page \in {"profile", "send"} : Go(t, page)
             \/ Logout(t)
             \/ \E page \in {"login", "profile", "send"}, kept \in BOOLEAN : Reload(t, page, kept)
             \/ TimerFires(t)
      PROVE  Mounts(t)
  BY <1>1, PageSteps
<1>2. ASSUME NEW t \in Tab, NEW c \in Call, NEW pin \in Pin,
             GatePin(t, c, pin) \/ ProfilePin(t, c, pin) \/ SendPin(t, c, pin)
      PROVE  Sends(t, c)
  BY <1>2, FetchSteps
<1>3. ASSUME NEW t \in Tab, FormSubmit(t) \/ CloseModal(t) \/ NewPayment(t) \/ CountdownEnds(t)
      PROVE  Shows(t)
  BY <1>3, ShowSteps
<1>4. ASSUME NEW c \in Call, Serve(c)  PROVE Serves(c)
  BY <1>4, SettingServes, VerifyServes, ReadBackServes, SendServes, OthersServe DEF Serve
<1>5. ASSUME NEW c \in Call, Hear(c)  PROVE Hears(c)
  BY <1>5, HearSteps
<1> QED
  BY <1>1, <1>2, <1>3, <1>4, <1>5, OtherDeviceMoves DEF Next

-----------------------------------------------------------------------------
(* The types.                                                              *)

\* At first nobody has a PIN and nothing is under way.
LEMMA InitTypes == Init => TypeInv
<1> SUFFICES ASSUME Init PROVE TypeInv
  OBVIOUS
<1>1. LoginPage(FALSE) \in PageType
  BY DEF LoginPage, PageType
<1>2. Nobody \in [id : User \cup {NoUser}, hasPin : BOOLEAN]
  BY DEF Nobody
<1>3. call \in [Call -> CallType \cup {Idle}] /\ \A c \in Call : call[c] = Idle
  BY DEF Init
<1>4. \A c \in Call : Asked(call[c])
  BY <1>3 DEF Asked, Idle
<1>5. \A u \in User : row[u] \in RowType /\ Countable(row[u])
  BY DashboardAssumption DEF Init, RowType, Countable
<1>6. row \in [User -> RowType]
  BY <1>5 DEF Init
<1>7. /\ now \in Nat /\ replaced \in [User -> Nat] /\ timer \in [Tab -> BOOLEAN]
      /\ paid \in [Tab -> Nat] /\ unsure \in [Tab -> Nat]
  BY DEF Init
<1>8. tab \in [Tab -> PageType]
  BY <1>1 DEF Init
<1>9. stored \in [id : User \cup {NoUser}, hasPin : BOOLEAN]
  BY <1>2 DEF Init
<1> QED
  BY <1>3, <1>4, <1>5, <1>6, <1>7, <1>8, <1>9 DEF TypeInv

\* A count of one tab goes up.
LEMMA CountRises ==
    ASSUME NEW f \in [Tab -> Nat], NEW t \in Tab, NEW n \in {0, 1}
    PROVE  LET g == [f EXCEPT ![t] = @ + n]
           IN  /\ g \in [Tab -> Nat] /\ g[t] = f[t] + n
               /\ \A s \in Tab \ {t} : g[s] = f[s]
<1>1. f[t] + n \in Nat
  OBVIOUS
<1> QED
  BY <1>1

\* Every step keeps the types.
LEMMA NextTypes == TypeInv /\ [Next]_vars => TypeInv'
<1> SUFFICES ASSUME TypeInv, [Next]_vars PROVE TypeInv'
  OBVIOUS
<1>0. /\ now \in Nat /\ row \in [User -> RowType] /\ replaced \in [User -> Nat]
      /\ stored \in [id : User \cup {NoUser}, hasPin : BOOLEAN]
      /\ tab \in [Tab -> PageType] /\ call \in [Call -> CallType \cup {Idle}]
      /\ timer \in [Tab -> BOOLEAN] /\ paid \in [Tab -> Nat] /\ unsure \in [Tab -> Nat]
      /\ \A u \in User : Countable(row[u])
      /\ \A c \in Call : Asked(call[c])
  BY DEF TypeInv
<1>1. ASSUME NEW t \in Tab, Mounts(t)  PROVE TypeInv'
  <2>1. tab' \in [Tab -> PageType]
    BY <1>0, <1>1 DEF Mounts, Blank
  <2>2. paid' \in [Tab -> Nat] /\ unsure' \in [Tab -> Nat]
    BY <1>0, <1>1 DEF Mounts, Forgotten
  <2>3. call' \in [Call -> CallType \cup {Idle}] /\ \A d \in Call : Asked(call'[d])
    <3>1. CASE call' = call
      BY <1>0, <3>1
    <3>2. CASE call' = Orphaned(t) \/ call' = Silenced(t)
      <4>1. /\ call' \in [Call -> CallType \cup {Idle}]
            /\ \A d \in Call : Left(call'[d], call[d], t)
        BY <3>2, TabIsLeft
      <4>2. \A d \in Call : Asked(call'[d])
        BY <1>0, <4>1 DEF Left, SameBut, Asked, Idle
      <4> QED
        BY <4>1, <4>2
    <3> QED
      BY <1>1, <3>1, <3>2 DEF Mounts
  <2> QED
    BY <1>0, <1>1, <2>1, <2>2, <2>3 DEF Mounts, TypeInv
<1>2. ASSUME NEW t \in Tab, Shows(t)  PROVE TypeInv'
  <2>1. tab' \in [Tab -> PageType]
    BY <1>0, <1>2 DEF Shows
  <2>2. paid' \in [Tab -> Nat] /\ unsure' \in [Tab -> Nat]
    BY <1>0, <1>2 DEF Shows, Forgotten
  <2> QED
    BY <1>0, <1>2, <2>1, <2>2 DEF Shows, TypeInv
<1>3. ASSUME NEW t \in Tab, NEW c \in Call, Sends(t, c)  PROVE TypeInv'
  <2>1. tab' \in [Tab -> PageType]
    BY <1>0, <1>3 DEF Sends
  <2>2. PICK new \in CallType : call' = [call EXCEPT ![c] = new] /\ new.stage = "sent"
    BY <1>3 DEF Sends
  <2>3. call' \in [Call -> CallType \cup {Idle}] /\ \A d \in Call : Asked(call'[d])
    BY <1>0, <2>2 DEF Asked
  <2> QED
    BY <1>0, <1>3, <2>1, <2>3 DEF Sends, TypeInv
<1>4. ASSUME NEW c \in Call, Serves(c)  PROVE TypeInv'
  <2>1. PICK new \in CallType \cup {Idle}, moved \in {0, 1} : Becomes(c, new, moved)
    BY <1>4 DEF Serves
  <2>2. Asked(new)
    BY <2>1 DEF Becomes, GoesOn, Asked, Idle
  <2>3. call' \in [Call -> CallType \cup {Idle}] /\ \A d \in Call : Asked(call'[d])
    BY <1>0, <2>1, <2>2 DEF Becomes
  <2>4. paid' \in [Tab -> Nat]
    <3>1. call[c].tab \in Tab
      BY <1>4 DEF Serves, CallType
    <3>2. paid' = [paid EXCEPT ![call[c].tab] = @ + moved]
      BY <2>1 DEF Becomes
    <3> QED
      BY <1>0, <3>1, <3>2, CountRises
  <2>5. /\ row' \in [User -> RowType] /\ replaced' \in [User -> Nat]
        /\ \A u \in User : Countable(row'[u])
    BY <1>4 DEF Serves, RowsMove
  <2> QED
    BY <1>0, <1>4, <2>3, <2>4, <2>5 DEF Serves, TypeInv
<1>5. ASSUME NEW c \in Call, Hears(c)  PROVE TypeInv'
  <2>1. PICK p : tab' = [tab EXCEPT ![call[c].tab] = p] /\ p \in PageType
    BY <1>5 DEF Hears, Listens
  <2>2. tab' \in [Tab -> PageType]
    BY <1>0, <2>1
  <2>3. Doubt(call[c]) \in {0, 1} /\ call[c].tab \in Tab
    BY <1>5 DEF Doubt, Hears, CallType
  <2>4. unsure' \in [Tab -> Nat]
    BY <1>0, <1>5, <2>3, CountRises DEF Hears
  <2>5. call' \in [Call -> CallType \cup {Idle}] /\ \A d \in Call : Asked(call'[d])
    <3>1. Asked(Idle)
      BY DEF Asked, Idle
    <3> QED
      BY <1>0, <1>5, <3>1 DEF Hears
  <2> QED
    BY <1>0, <1>5, <2>2, <2>4, <2>5 DEF Hears, TypeInv
<1>6. CASE Tick
  BY <1>0, <1>6 DEF Tick, TypeInv, history
<1>7. CASE UNCHANGED vars
  BY <1>0, <1>7 DEF vars, server, history, TypeInv
<1>8. CASE Elsewhere
  BY <1>0, <1>8 DEF Elsewhere, RowsMove, TypeInv
<1> QED
  BY <1>1, <1>2, <1>3, <1>4, <1>5, <1>6, <1>7, <1>8, Steps

\* The server's rows, the tabs and the requests under way keep their types.
THEOREM TypeCorrect == Spec => []TypeOK
<1>1. TypeInv => TypeOK
  BY DEF TypeInv, TypeOK, RowType, PageType
<1> QED
  BY <1>1, InitTypes, NextTypes, PTL DEF Spec

-----------------------------------------------------------------------------
(* The countdown of the gate.                                              *)

\* An expiry that a tab or an answer holds was the row's when it was read.  As
\* long as it is to come, it is not beyond the row's, or that of a lock that
\* was written over while it ran.
KnownLock(until, u) ==
    until # NoTime =>
        /\ u \in User
        /\ until > now =>
             \/ row[u].lockedUntil # NoTime /\ until <= row[u].lockedUntil
             \/ until <= replaced[u]

LockInv ==
    /\ TypeInv
    /\ \A t \in Tab : KnownLock(tab[t].lock, tab[t].lockOf)
    /\ \A c \in Call : call[c] # Idle => KnownLock(call[c].until, call[c].user)

\* At first there are no locks.
LEMMA InitLocks == Init => LockInv
<1> SUFFICES ASSUME Init PROVE LockInv
  OBVIOUS
<1>2. \A t \in Tab : tab[t].lock = NoTime
  BY DEF Init, LoginPage
<1>3. \A c \in Call : call[c] = Idle
  BY DEF Init
<1> QED
  BY <1>2, <1>3, InitTypes DEF LockInv, KnownLock

\* What is known of a lock stays known while rows move.
LEMMA KnownStays ==
    ASSUME LockInv, RowsMove, UNCHANGED now,
           NEW until \in Nat \cup {NoTime}, NEW u, KnownLock(until, u)
    PROVE  KnownLock(until, u)'
<1>1. /\ now \in Nat /\ row \in [User -> RowType] /\ replaced \in [User -> Nat]
      /\ row' \in [User -> RowType] /\ replaced' \in [User -> Nat]
  BY DEF LockInv, TypeInv, RowsMove
<1>2. SUFFICES ASSUME until # NoTime, until > now'
               PROVE  /\ u \in User
                      /\ \/ row'[u].lockedUntil # NoTime /\ until <= row'[u].lockedUntil
                         \/ until <= replaced'[u]
  BY DEF KnownLock
<1>3. u \in User /\ until \in Nat /\ until > now
  BY <1>2 DEF KnownLock
<1>4. row[u].lockedUntil \in Nat \cup {NoTime} /\ row'[u].lockedUntil \in Nat \cup {NoTime}
  BY <1>1, <1>3 DEF RowType
<1>5. CASE until <= replaced[u]
  <2>1. replaced[u] <= replaced'[u] /\ replaced[u] \in Nat /\ replaced'[u] \in Nat
    BY <1>1, <1>3 DEF RowsMove
  <2> QED
    BY <1>3, <1>5, <2>1
<1>6. CASE row[u].lockedUntil # NoTime /\ until <= row[u].lockedUntil
  <2>1. row[u].lockedUntil > now /\ replaced'[u] \in Nat
    BY <1>1, <1>3, <1>4, <1>6
  <2>2. \/ row'[u].lockedUntil # NoTime /\ row[u].lockedUntil <= row'[u].lockedUntil
        \/ row[u].lockedUntil <= replaced'[u]
    BY <1>3, <1>6, <2>1 DEF RowsMove, LockAccounted
  <2> QED
    BY <1>3, <1>4, <1>6, <2>1, <2>2
<1> QED
  BY <1>2, <1>3, <1>5, <1>6 DEF KnownLock

\* The locks of all tabs are known after a step that replaces one page by a
\* page whose lock is known, or has none; and those of all requests after one
\* that replaces one request.
LEMMA TabsStay ==
    ASSUME LockInv, RowsMove, UNCHANGED now, NEW t \in Tab, NEW p,
           tab' = [tab EXCEPT ![t] = p], KnownLock(p.lock, p.lockOf)'
    PROVE  \A s \in Tab : KnownLock(tab[s].lock, tab[s].lockOf)'
<1>1. ASSUME NEW s \in Tab, s # t  PROVE KnownLock(tab[s].lock, tab[s].lockOf)'
  <2>1. PICK q \in PageType : q = tab[s]
    BY DEF LockInv, TypeInv
  <2>2. KnownLock(q.lock, q.lockOf) /\ q.lock \in Nat \cup {NoTime}
    BY <2>1 DEF LockInv, PageType
  <2>3. KnownLock(q.lock, q.lockOf)'
    BY <2>2, KnownStays
  <2>4. tab'[s] = q
    BY <1>1, <2>1 DEF LockInv, TypeInv
  <2> QED
    BY <2>3, <2>4
<1>2. tab'[t] = p
  BY DEF LockInv, TypeInv
<1>3. KnownLock(tab[t].lock, tab[t].lockOf)'
  BY <1>2
<1> QED
  BY <1>1, <1>3

LEMMA CallsStay ==
    ASSUME LockInv, RowsMove, UNCHANGED now, NEW d \in Call, call'[d] # Idle,
           call[d] # Idle, call'[d].until = call[d].until, call'[d].user = call[d].user
    PROVE  KnownLock(call[d].until, call[d].user)'
<1>1. PICK q \in CallType : q = call[d]
  BY DEF LockInv, TypeInv
<1>2. KnownLock(q.until, q.user) /\ q.until \in Nat \cup {NoTime}
  BY <1>1 DEF LockInv, CallType
<1>3. KnownLock(q.until, q.user)'
  BY <1>2, KnownStays
<1> QED
  BY <1>1, <1>3

\* Every step keeps what is known of the locks.
LEMMA NextLocks == LockInv /\ [Next]_vars => LockInv'
<1> SUFFICES ASSUME LockInv, [Next]_vars PROVE LockInv'
  OBVIOUS
<1>0. TypeInv /\ TypeInv' /\ NoTime \notin Nat
  BY NextTypes, DashboardAssumption DEF LockInv
<1>1. ASSUME NEW t \in Tab, Mounts(t)  PROVE LockInv'
  <2>1. RowsMove /\ UNCHANGED now
    BY <1>0, <1>1, SameRowMoves DEF Mounts
  <2>2. PICK p : Blank(p) /\ tab' = [tab EXCEPT ![t] = p]
    BY <1>1 DEF Mounts
  <2>3. KnownLock(p.lock, p.lockOf)'
    BY <2>2 DEF Blank, KnownLock
  <2>4. \A s \in Tab : KnownLock(tab[s].lock, tab[s].lockOf)'
    BY <2>1, <2>2, <2>3, TabsStay
  <2>5. ASSUME NEW d \in Call, call'[d] # Idle  PROVE KnownLock(call[d].until, call[d].user)'
    <3>1. call' = call \/ Left(call'[d], call[d], t)
      BY <1>0, <1>1, TabIsLeft DEF Mounts
    <3>2. call[d] # Idle /\ call'[d].until = call[d].until /\ call'[d].user = call[d].user
      BY <2>5, <3>1 DEF Left, SameBut, Idle, CallType
    <3> QED
      BY <2>1, <2>5, <3>2, CallsStay
  <2> QED
    BY <1>0, <2>1, <2>4, <2>5 DEF LockInv
<1>2. ASSUME NEW t \in Tab, Shows(t)  PROVE LockInv'
  <2>1. RowsMove /\ UNCHANGED now /\ UNCHANGED call
    BY <1>0, <1>2, SameRowMoves DEF Shows
  <2>2. PICK p \in PageType : /\ tab' = [tab EXCEPT ![t] = p]
                              /\ \/ p.lock = tab[t].lock /\ p.lockOf = tab[t].lockOf
                                 \/ p.lock = NoTime
    BY <1>2 DEF Shows
  <2>3. KnownLock(p.lock, p.lockOf)
    BY <2>2 DEF LockInv, KnownLock
  <2>4. KnownLock(p.lock, p.lockOf)'
    BY <2>1, <2>3, KnownStays DEF PageType
  <2>5. \A s \in Tab : KnownLock(tab[s].lock, tab[s].lockOf)'
    BY <2>1, <2>2, <2>4, TabsStay
  <2>6. \A d \in Call : call'[d] # Idle => KnownLock(call[d].until, call[d].user)'
    BY <2>1, CallsStay
  <2> QED
    BY <1>0, <2>1, <2>5, <2>6 DEF LockInv
<1>3. ASSUME NEW t \in Tab, NEW c \in Call, Sends(t, c)  PROVE LockInv'
  <2>1. RowsMove /\ UNCHANGED now
    BY <1>0, <1>3, SameRowMoves DEF Sends
  <2>2. PICK p \in PageType : /\ tab' = [tab EXCEPT ![t] = p]
                              /\ p.lock = tab[t].lock /\ p.lockOf = tab[t].lockOf
    BY <1>3 DEF Sends
  <2>3. KnownLock(p.lock, p.lockOf)
    BY <2>2 DEF LockInv
  <2>4. KnownLock(p.lock, p.lockOf)'
    BY <2>1, <2>3, KnownStays DEF PageType
  <2>5. \A s \in Tab : KnownLock(tab[s].lock, tab[s].lockOf)'
    BY <2>1, <2>2, <2>4, TabsStay
  <2>6. PICK new \in CallType : call' = [call EXCEPT ![c] = new] /\ new.until = NoTime
    BY <1>3 DEF Sends
  <2>7. ASSUME NEW d \in Call, call'[d] # Idle  PROVE KnownLock(call[d].until, call[d].user)'
    <3>1. CASE d = c
      BY <1>0, <2>6, <3>1 DEF KnownLock, TypeInv
    <3>2. CASE d # c
      <4>1. call'[d] = call[d]
        BY <1>0, <2>6, <3>2 DEF TypeInv
      <4> QED
        BY <2>1, <2>7, <4>1, CallsStay
    <3> QED
      BY <3>1, <3>2
  <2> QED
    BY <1>0, <2>1, <2>5, <2>7 DEF LockInv
<1>4. ASSUME NEW c \in Call, Serves(c)  PROVE LockInv'
  <2>1. RowsMove /\ UNCHANGED <<now, tab>>
    BY <1>4 DEF Serves
  <2>2. ASSUME NEW s \in Tab  PROVE KnownLock(tab[s].lock, tab[s].lockOf)'
    <3>1. PICK q \in PageType : q = tab[s]
      BY <1>0 DEF TypeInv
    <3>2. KnownLock(q.lock, q.lockOf) /\ q.lock \in Nat \cup {NoTime}
      BY <3>1 DEF LockInv, PageType
    <3>3. KnownLock(q.lock, q.lockOf)'
      BY <2>1, <3>2, KnownStays
    <3>4. tab'[s] = q
      BY <2>1, <3>1
    <3> QED
      BY <3>3, <3>4
  <2>3. PICK new \in CallType \cup {Idle}, moved \in {0, 1} : Becomes(c, new, moved)
    BY <1>4 DEF Serves
  <2>4. call' = [call EXCEPT ![c] = new] /\ GoesOn(new, call[c], moved)
    BY <2>3 DEF Becomes
  <2>5. ASSUME NEW d \in Call, call'[d] # Idle  PROVE KnownLock(call[d].until, call[d].user)'
    <3>1. CASE d # c
      <4>1. call'[d] = call[d]
        BY <1>0, <2>4, <3>1 DEF TypeInv
      <4> QED
        BY <2>1, <2>5, <4>1, CallsStay
    <3>2. CASE d = c
      <4>1. call'[d] = new /\ new # Idle /\ new.user = call[c].user /\ call[c] # Idle
        BY <1>0, <1>4, <2>4, <2>5, <3>2 DEF TypeInv, GoesOn, Kin, Serves
      <4>2. CASE new.until = call[c].until
        BY <2>1, <2>5, <3>2, <4>1, <4>2, CallsStay
      <4>3. CASE new.until # call[c].until
        <5>1. Dated(new)
          BY <2>4, <4>1, <4>3 DEF GoesOn
        <5>2. KnownLock(new.until, new.user)'
          <6>1. CASE new.until = NoTime
            BY <6>1 DEF KnownLock
          <6>2. CASE new.until # NoTime
            <7>1. /\ new.user \in User /\ row' = row
                  /\ new.until = row[new.user].lockedUntil
              BY <5>1, <6>2 DEF Dated
            <7>2. new.until \in Nat /\ new.until <= new.until
              BY <1>0, <6>2, <7>1 DEF TypeInv, RowType
            <7> QED
              BY <2>1, <7>1, <7>2 DEF KnownLock
          <6> QED
            BY <6>1, <6>2
        <5> QED
          BY <3>2, <4>1, <5>2
      <4> QED
        BY <4>2, <4>3
    <3> QED
      BY <3>1, <3>2
  <2> QED
    BY <1>0, <2>1, <2>2, <2>5 DEF LockInv
<1>5. ASSUME NEW c \in Call, Hears(c)  PROVE LockInv'
  <2>1. RowsMove /\ UNCHANGED now
    BY <1>0, <1>5, SameRowMoves DEF Hears
  <2>2. PICK t \in Tab : t = call[c].tab
    BY <1>5 DEF Hears, CallType
  <2>3. PICK p : tab' = [tab EXCEPT ![t] = p] /\ Listens(p, t, call[c])
    BY <1>5, <2>2 DEF Hears
  <2>4. KnownLock(p.lock, p.lockOf) /\ p.lock \in Nat \cup {NoTime}
    BY <1>5, <2>3 DEF Hears, Listens, LockInv, PageType
  <2>5. KnownLock(p.lock, p.lockOf)'
    BY <2>1, <2>4, KnownStays
  <2>6. \A s \in Tab : KnownLock(tab[s].lock, tab[s].lockOf)'
    BY <2>1, <2>3, <2>5, TabsStay
  <2>7. ASSUME NEW d \in Call, call'[d] # Idle  PROVE KnownLock(call[d].until, call[d].user)'
    <3>1. call'[d] = call[d]
      BY <1>0, <1>5, <2>7 DEF Hears, TypeInv
    <3> QED
      BY <2>1, <2>7, <3>1, CallsStay
  <2> QED
    BY <1>0, <2>1, <2>6, <2>7 DEF LockInv
<1>6. CASE Tick
  <2>1. now \in Nat /\ now' = now + 1 /\ UNCHANGED <<row, replaced, tab, call>>
    BY <1>0, <1>6 DEF Tick, TypeInv
  <2>2. ASSUME NEW until \in Nat \cup {NoTime}, NEW u, KnownLock(until, u)  PROVE KnownLock(until, u)'
    BY <1>0, <2>1, <2>2 DEF KnownLock
  <2>3. ASSUME NEW s \in Tab  PROVE KnownLock(tab[s].lock, tab[s].lockOf)'
    <3>1. PICK q \in PageType : q = tab[s]
      BY <1>0 DEF TypeInv
    <3>2. KnownLock(q.lock, q.lockOf)'
      BY <2>2, <3>1 DEF LockInv, PageType
    <3> QED
      BY <2>1, <3>1, <3>2
  <2>4. ASSUME NEW d \in Call, call'[d] # Idle  PROVE KnownLock(call[d].until, call[d].user)'
    <3>1. PICK q \in CallType : q = call[d]
      BY <1>0, <2>1, <2>4 DEF TypeInv
    <3>2. KnownLock(q.until, q.user)'
      BY <2>1, <2>2, <2>4, <3>1 DEF LockInv, CallType
    <3> QED
      BY <2>1, <3>1, <3>2
  <2> QED
    BY <1>0, <2>3, <2>4 DEF LockInv
<1>7. CASE UNCHANGED vars
  BY <1>0, <1>7 DEF vars, server, LockInv, KnownLock
<1>8. CASE Elsewhere
  <2>1. RowsMove /\ UNCHANGED <<now, tab, call>>
    BY <1>8 DEF Elsewhere
  <2>2. ASSUME NEW s \in Tab  PROVE KnownLock(tab[s].lock, tab[s].lockOf)'
    <3>1. PICK q \in PageType : q = tab[s]
      BY <1>0 DEF TypeInv
    <3>2. KnownLock(q.lock, q.lockOf)'
      BY <2>1, <3>1, KnownStays DEF LockInv, PageType
    <3> QED
      BY <2>1, <3>1, <3>2
  <2>3. ASSUME NEW d \in Call, call'[d] # Idle  PROVE KnownLock(call[d].until, call[d].user)'
    BY <2>1, <2>3, CallsStay
  <2> QED
    BY <1>0, <2>2, <2>3 DEF LockInv
<1> QED
  BY <1>0, <1>1, <1>2, <1>3, <1>4, <1>5, <1>6, <1>7, <1>8, Steps

\* The countdown of the gate is a lock of the server's, for every number of
\* tabs, users and requests: an expiry that was read for one answer and heard
\* after any other ends no later than the row's lock, or than a lock of that
\* user that was written over while it ran.
THEOREM CountdownIsNeverAhead == Spec => []CountdownIsTheServers
<1>1. LockInv => CountdownIsTheServers
  BY DEF LockInv, KnownLock, CountdownIsTheServers
<1> QED
  BY <1>1, InitLocks, NextLocks, PTL DEF Spec

-----------------------------------------------------------------------------
(* The entry of a payment.                                                 *)

\* Requests whose answer the page of tab t waits for.
Ours(c, t) == call[c] # Idle /\ call[c].tab = t /\ call[c].ear = "live"
Paying(c, t) == Ours(c, t) /\ call[c].kind = "send"

\* A page that waits is busy, and for one request only: nothing else can be
\* sent from it.
Waiting(t) ==
    /\ \A c \in Call : Ours(c, t) => tab[t].busy /\ tab[t].at # "login"
    /\ \A c, d \in Call : Ours(c, t) /\ Ours(d, t) => c = d

\* The payment form, its request and the transfers it made.  Between a
\* request and its answer at most one transfer is not accounted for.
Entry(t) ==
    /\ tab[t].at = "login" => tab[t].form = "fill"
    /\ paid[t] <= 1 + unsure[t]
    /\ tab[t].form = "result" => paid[t] >= 1
    /\ tab[t].form # "result" /\ (\A c \in Call : ~Paying(c, t)) => paid[t] <= unsure[t]
    /\ \A c \in Call : Paying(c, t) =>
         /\ tab[t].form = "pin"
         /\ call[c].stage = "sent" \/ call[c].answer \notin {"ok", "doubtful", "network"}
              => paid[t] <= unsure[t]
         /\ call[c].answer = "ok" => paid[t] >= 1

\* An answer that is out has somebody who waits for it, and an orphaned
\* request is no payment: its handler would write to a page that is gone.
Ears(r) ==
    r # Idle => /\ r.kind = "send" => r.ear # "orphan"
                /\ r.stage = "answered" => r.ear # "gone"

EntryInv ==
    /\ TypeInv
    /\ \A t \in Tab : Waiting(t) /\ Entry(t)
    /\ \A c \in Call : Ears(call[c])

\* At first nothing is filled in.
LEMMA InitEntries == Init => EntryInv
<1> SUFFICES ASSUME Init PROVE EntryInv
  OBVIOUS
<1>1. \A c \in Call : call[c] = Idle
  BY DEF Init
<1>2. \A t \in Tab : tab[t].form = "fill" /\ paid[t] = 0 /\ unsure[t] = 0
  BY DEF Init, LoginPage
<1>3. \A t \in Tab : Waiting(t) /\ Entry(t)
  BY <1>1, <1>2 DEF Waiting, Entry, Ours, Paying
<1> QED
  BY <1>1, <1>3, InitTypes DEF EntryInv, Ears

\* A tab is as it was when its page, its count and the requests it waits for
\* are.
LEMMA Untouched ==
    ASSUME EntryInv, NEW s \in Tab,
           tab'[s] = tab[s], paid'[s] = paid[s], unsure'[s] = unsure[s],
           \A d \in Call : Ours(d, s)' <=> Ours(d, s),
           \A d \in Call : Ours(d, s) => call'[d] = call[d]
    PROVE  Waiting(s)' /\ Entry(s)'
<1>1. Waiting(s) /\ Entry(s)
  BY DEF EntryInv
<1>2. Waiting(s)'
  BY <1>1 DEF Waiting
<1>3. \A d \in Call : Paying(d, s)' <=> Paying(d, s)
  BY DEF Paying
<1>4. \A d \in Call : Paying(d, s) => call'[d] = call[d]
  BY DEF Paying
<1>5. Entry(s)'
  BY <1>1, <1>3, <1>4 DEF Entry
<1> QED
  BY <1>2, <1>5

\* A page that waits for nothing.
LEMMA Quiet ==
    ASSUME NEW s \in Tab, \A d \in Call : ~Ours(d, s)',
           tab'[s].at = "login" => tab'[s].form = "fill",
           paid'[s] <= 1 + unsure'[s],
           tab'[s].form = "result" => paid'[s] >= 1,
           tab'[s].form # "result" => paid'[s] <= unsure'[s]
    PROVE  Waiting(s)' /\ Entry(s)'
<1>1. \A d \in Call : ~Paying(d, s)'
  BY DEF Paying
<1> QED
  BY <1>1 DEF Waiting, Entry

\* A page is left, and another is mounted.
LEMMA MountsEntry ==
    ASSUME EntryInv, NEW t \in Tab, Mounts(t)
    PROVE  (\A s \in Tab : Waiting(s)' /\ Entry(s)') /\ \A c \in Call : Ears(call'[c])
<1>1. /\ TypeInv /\ paid \in [Tab -> Nat] /\ unsure \in [Tab -> Nat]
      /\ \A d \in Call : Ears(call[d]) /\ call[d] \in CallType \cup {Idle}
      /\ \A s \in Tab : Waiting(s) /\ Entry(s)
  BY DEF EntryInv, TypeInv
<1>2. PICK p : Blank(p) /\ tab' = [tab EXCEPT ![t] = p]
  BY DEF Mounts
<1>3. tab'[t] = p /\ \A s \in Tab \ {t} : tab'[s] = tab[s]
  BY <1>1, <1>2 DEF TypeInv
<1>4. CASE tab[t].at = "login" /\ UNCHANGED <<call, paid, unsure>>
  <2>1. \A d \in Call : ~Ours(d, t) /\ ~Ours(d, t)'
    BY <1>1, <1>4 DEF Waiting, Ours
  <2>2. paid[t] <= unsure[t] /\ paid[t] \in Nat /\ unsure[t] \in Nat
    BY <1>1, <1>4, <2>1 DEF Entry, Paying
  <2>3. Waiting(t)' /\ Entry(t)'
    BY <1>2, <1>3, <1>4, <2>1, <2>2, Quiet DEF Blank
  <2>4. ASSUME NEW s \in Tab \ {t}  PROVE Waiting(s)' /\ Entry(s)'
    BY <1>3, <1>4, Untouched DEF Ours
  <2> QED
    BY <1>1, <1>4, <2>3, <2>4
<1>5. CASE (call' = Orphaned(t) \/ call' = Silenced(t)) /\ Forgotten(t)
  <2>1. \A d \in Call : Left(call'[d], call[d], t)
    BY <1>1, <1>5, TabIsLeft
  <2>2. ASSUME NEW d \in Call  PROVE ~Ours(d, t)' /\ Ears(call'[d])
    <3> DEFINE new == call'[d]
               old == call[d]
    <3>1. Ears(old) /\ Left(new, old, t)
      BY <1>1, <2>1
    <3> HIDE DEF new, old
    <3>2. Ears(new)
      <4>1. old \in CallType => old # Idle
        BY DEF CallType, Idle
      <4> QED
        BY <3>1, <4>1 DEF Left, SameBut, Ears
    <3>3. ~(new # Idle /\ new.tab = t /\ new.ear = "live")
      BY <3>1 DEF Left, SameBut
    <3> QED
      BY <3>2, <3>3 DEF Ours, new
  <2>3. paid'[t] = 0 /\ unsure'[t] = 0
    BY <1>1, <1>5 DEF Forgotten
  <2>4. Waiting(t)' /\ Entry(t)'
    BY <1>2, <1>3, <2>2, <2>3, Quiet DEF Blank
  <2>5. ASSUME NEW s \in Tab \ {t}  PROVE Waiting(s)' /\ Entry(s)'
    <3>1. paid'[s] = paid[s] /\ unsure'[s] = unsure[s]
      BY <1>1, <1>5 DEF Forgotten
    <3>2. \A d \in Call : call'[d] # call[d] =>
            ~Ours(d, s) /\ ~Ours(d, s)'
      BY <2>1 DEF Left, Ours, SameBut
    <3>3. \A d \in Call : Ours(d, s)' <=> Ours(d, s)
      BY <3>2 DEF Ours
    <3> QED
      BY <1>3, <3>1, <3>2, <3>3, Untouched
  <2> QED
    BY <2>2, <2>4, <2>5
<1> QED
  BY <1>4, <1>5 DEF Mounts

\* The form and the countdown.
LEMMA ShowsEntry ==
    ASSUME EntryInv, NEW t \in Tab, Shows(t)
    PROVE  (\A s \in Tab : Waiting(s)' /\ Entry(s)') /\ \A c \in Call : Ears(call'[c])
<1>1. /\ TypeInv /\ paid \in [Tab -> Nat] /\ unsure \in [Tab -> Nat]
      /\ \A d \in Call : Ears(call[d])
      /\ \A s \in Tab : Waiting(s) /\ Entry(s)
  BY DEF EntryInv, TypeInv
<1>2. PICK p \in PageType :
         /\ tab' = [tab EXCEPT ![t] = p]
         /\ p.at = tab[t].at /\ p.busy = tab[t].busy
         /\ \/ p.form = tab[t].form /\ UNCHANGED <<paid, unsure>>
            \/ /\ tab[t].form = "fill" /\ p.form = "pin" /\ tab[t].at # "login"
               /\ UNCHANGED <<paid, unsure>>
            \/ tab[t].form = "pin" /\ ~tab[t].busy /\ p.form = "fill" /\ UNCHANGED <<paid, unsure>>
            \/ tab[t].form = "result" /\ p.form = "fill" /\ Forgotten(t)
  BY DEF Shows
<1>3. tab'[t] = p /\ \A s \in Tab \ {t} : tab'[s] = tab[s]
  BY <1>1, <1>2 DEF TypeInv
<1>4. call' = call /\ \A d \in Call, s \in Tab : Ours(d, s)' <=> Ours(d, s)
  BY DEF Shows, Ours
<1>5. \A s \in Tab \ {t} : paid'[s] = paid[s] /\ unsure'[s] = unsure[s]
  BY <1>1, <1>2 DEF Forgotten
<1>6. \A s \in Tab \ {t} : Waiting(s)' /\ Entry(s)'
  BY <1>3, <1>4, <1>5, Untouched
<1>7. Waiting(t)'
  BY <1>1, <1>2, <1>3, <1>4 DEF Waiting
<1>8. paid[t] \in Nat /\ unsure[t] \in Nat
  BY <1>1
<1>9. Entry(t)'
  <2>1. \A d \in Call : Paying(d, t)' <=> Paying(d, t)
    BY <1>4 DEF Paying
  <2>2. CASE p.form = tab[t].form /\ UNCHANGED <<paid, unsure>>
    BY <1>1, <1>2, <1>3, <1>4, <2>1, <2>2 DEF Entry
  <2>3. CASE /\ tab[t].form = "fill" /\ p.form = "pin" /\ tab[t].at # "login"
             /\ UNCHANGED <<paid, unsure>>
    <3>1. \A d \in Call : ~Paying(d, t)
      BY <1>1, <2>3 DEF Entry
    <3> QED
      BY <1>1, <1>2, <1>3, <2>1, <2>3, <3>1 DEF Entry
  <2>4. CASE tab[t].form = "pin" /\ ~tab[t].busy /\ p.form = "fill" /\ UNCHANGED <<paid, unsure>>
    <3>1. \A d \in Call : ~Paying(d, t)
      BY <1>1, <2>4 DEF Waiting, Paying
    <3> QED
      BY <1>1, <1>2, <1>3, <2>1, <2>4, <3>1 DEF Entry
  <2>5. CASE tab[t].form = "result" /\ p.form = "fill" /\ Forgotten(t)
    <3>1. \A d \in Call : ~Paying(d, t)
      BY <1>1, <2>5 DEF Entry
    <3>2. paid'[t] = 0 /\ unsure'[t] = 0
      BY <1>1, <2>5 DEF Forgotten
    <3> QED
      BY <1>3, <2>1, <2>5, <3>1, <3>2 DEF Entry
  <2> QED
    BY <1>2, <2>2, <2>3, <2>4, <2>5
<1> QED
  BY <1>1, <1>4, <1>6, <1>7, <1>9

\* A request is sent: the page waits for nothing else.
LEMMA SendsEntry ==
    ASSUME EntryInv, NEW t \in Tab, NEW c \in Call, Sends(t, c)
    PROVE  (\A s \in Tab : Waiting(s)' /\ Entry(s)') /\ \A d \in Call : Ears(call'[d])
<1>1. /\ TypeInv /\ \A d \in Call : Ears(call[d])
      /\ \A s \in Tab : Waiting(s) /\ Entry(s)
  BY DEF EntryInv
<1>2. PICK p \in PageType : /\ tab' = [tab EXCEPT ![t] = p]
                            /\ p.busy /\ p.at = tab[t].at /\ p.form = tab[t].form
  BY DEF Sends
<1>3. PICK new \in CallType :
        /\ call' = [call EXCEPT ![c] = new]
        /\ new.stage = "sent" /\ new.tab = t /\ new.ear = "live" /\ new.answer = "none"
        /\ new.kind = "send" => tab[t].form = "pin"
  BY DEF Sends
<1>4. /\ call[c] = Idle /\ ~tab[t].busy /\ UNCHANGED <<paid, unsure>>
      /\ tab[t].at = "login" => tab[t].form = "pin"
  BY DEF Sends
<1>5. tab'[t] = p /\ \A s \in Tab \ {t} : tab'[s] = tab[s]
  BY <1>1, <1>2 DEF TypeInv
<1>6. call'[c] = new /\ \A d \in Call \ {c} : call'[d] = call[d]
  BY <1>1, <1>3 DEF TypeInv
<1>7. new # Idle
  BY <1>3 DEF Idle
<1>8. \A d \in Call : Ears(call'[d])
  BY <1>1, <1>3, <1>6 DEF Ears
<1>9. \A d \in Call : ~Ours(d, t)
  BY <1>1, <1>4 DEF Waiting
<1>10. \A d \in Call : Ours(d, t)' <=> d = c
  BY <1>3, <1>6, <1>7, <1>9 DEF Ours
<1>11. tab[t].at # "login"
  BY <1>1, <1>4 DEF Entry
<1>12. Waiting(t)'
  BY <1>2, <1>5, <1>10, <1>11 DEF Waiting
<1>13. Entry(t)'
  <2>1. \A d \in Call : ~Paying(d, t)
    BY <1>9 DEF Paying
  <2>2. CASE new.kind = "send"
    <3>1. tab[t].form = "pin" /\ paid[t] <= unsure[t]
      BY <1>1, <1>3, <2>1, <2>2 DEF Entry
    <3>2. \A d \in Call : Paying(d, t)' <=> d = c
      BY <1>6, <1>10, <2>2 DEF Paying
    <3> QED
      BY <1>1, <1>2, <1>3, <1>4, <1>5, <1>6, <3>1, <3>2 DEF Entry
  <2>3. CASE new.kind # "send"
    <3>1. \A d \in Call : ~Paying(d, t)'
      BY <1>6, <1>10, <2>3 DEF Paying
    <3> QED
      BY <1>1, <1>2, <1>4, <1>5, <2>1, <3>1 DEF Entry
  <2> QED
    BY <2>2, <2>3
<1>14. ASSUME NEW s \in Tab \ {t}  PROVE Waiting(s)' /\ Entry(s)'
  <2>1. \A d \in Call : Ours(d, s)' <=> Ours(d, s)
    BY <1>3, <1>4, <1>6 DEF Ours
  <2>2. \A d \in Call : Ours(d, s) => call'[d] = call[d]
    BY <1>4, <1>6 DEF Ours
  <2> QED
    BY <1>4, <1>5, <2>1, <2>2, Untouched
<1> QED
  BY <1>8, <1>12, <1>13, <1>14

\* A payment that is served is counted once, and its answer says so.
LEMMA ServesEntry ==
    ASSUME EntryInv, NEW c \in Call, Serves(c)
    PROVE  (\A s \in Tab : Waiting(s)' /\ Entry(s)') /\ \A d \in Call : Ears(call'[d])
<1>1. /\ TypeInv /\ \A d \in Call : Ears(call[d])
      /\ \A s \in Tab : Waiting(s) /\ Entry(s)
      /\ paid \in [Tab -> Nat] /\ unsure \in [Tab -> Nat]
  BY DEF EntryInv, TypeInv
<1>2. PICK t \in Tab : t = call[c].tab
  BY DEF Serves, CallType
<1>3. PICK new \in CallType \cup {Idle}, moved \in {0, 1} : Becomes(c, new, moved)
  BY DEF Serves
<1>4. /\ call' = [call EXCEPT ![c] = new] /\ GoesOn(new, call[c], moved)
      /\ moved = 1 => call[c].kind = "send" /\ call[c].ear = "live" /\ call[c].stage = "sent"
      /\ paid' = [paid EXCEPT ![t] = @ + moved]
      /\ UNCHANGED <<tab, unsure>>
  BY <1>2, <1>3 DEF Becomes, Serves
<1>5. call'[c] = new /\ \A d \in Call \ {c} : call'[d] = call[d]
  BY <1>1, <1>4 DEF TypeInv
<1>6. /\ paid'[t] = paid[t] + moved /\ \A s \in Tab \ {t} : paid'[s] = paid[s]
      /\ paid[t] \in Nat /\ unsure[t] \in Nat /\ moved \in {0, 1}
  BY <1>1, <1>4, CountRises
<1>7. call[c] # Idle /\ call[c] \in CallType /\ Ears(call[c])
  BY <1>1 DEF Serves
<1>8. new = Idle => call[c].ear = "gone"
  <2>1. \A r \in CallType : r # Idle
    BY DEF CallType, Idle
  <2> QED
    BY <1>4, <2>1 DEF GoesOn
<1>9. new # Idle => new.tab = t /\ new.ear = call[c].ear /\ new.kind = call[c].kind
  BY <1>2, <1>4 DEF GoesOn, Kin
<1>10. Ears(new)
  BY <1>4, <1>7, <1>9 DEF Ears, GoesOn
<1>11. \A d \in Call : Ears(call'[d])
  BY <1>1, <1>5, <1>10
<1>12. \A d \in Call, s \in Tab : Ours(d, s)' <=> Ours(d, s)
  <2>1. \A s \in Tab : Ours(c, s)' <=> Ours(c, s)
    BY <1>2, <1>5, <1>7, <1>8, <1>9 DEF Ours
  <2> QED
    BY <1>5, <2>1 DEF Ours
<1>13. \A s \in Tab \ {t} : Waiting(s)' /\ Entry(s)'
  <2>1. \A s \in Tab \ {t}, d \in Call : Ours(d, s) => call'[d] = call[d]
    BY <1>2, <1>5 DEF Ours
  <2> QED
    BY <1>4, <1>6, <1>12, <2>1, Untouched
<1>14. CASE call[c].ear # "live"
  <2>1. paid'[t] = paid[t]
    BY <1>4, <1>6, <1>14
  <2>2. \A d \in Call : Ours(d, t) => call'[d] = call[d]
    BY <1>5, <1>14 DEF Ours
  <2>3. Waiting(t)' /\ Entry(t)'
    BY <1>4, <1>12, <2>1, <2>2, Untouched
  <2> QED
    BY <1>11, <1>13, <2>3
<1>15. CASE call[c].ear = "live"
  <2>1. Ours(c, t) /\ new # Idle
    BY <1>2, <1>7, <1>8, <1>15 DEF Ours
  <2>2. Waiting(t)'
    BY <1>1, <1>4, <1>12 DEF Waiting
  <2>3. \A d \in Call : Paying(d, t)' <=> Paying(d, t)
    BY <1>5, <1>9, <1>12, <2>1 DEF Paying
  <2>4. \A d \in Call : Paying(d, t) => d = c
    BY <1>1, <2>1 DEF Waiting, Paying
  <2>5. CASE call[c].kind # "send"
    <3>1. \A d \in Call : ~Paying(d, t)
      BY <2>4, <2>5 DEF Paying
    <3>2. paid'[t] = paid[t]
      BY <1>4, <1>6, <2>5
    <3>3. Entry(t)'
      BY <1>1, <1>4, <2>3, <3>1, <3>2 DEF Entry
    <3> QED
      BY <1>11, <1>13, <2>2, <3>3
  <2>6. CASE call[c].kind = "send"
    <3>1. Paying(c, t)
      BY <2>1, <2>6 DEF Paying
    <3>2. /\ tab[t].form = "pin" /\ tab[t].at # "login" /\ paid[t] <= 1 + unsure[t]
          /\ call[c].stage = "sent" => paid[t] <= unsure[t]
      BY <1>1, <2>1, <3>1 DEF Entry, Waiting
    <3>3. new.stage = "answered" /\ TellsOfPayment(new, call[c], moved)
      BY <1>4, <1>9, <1>15, <2>1, <2>6 DEF GoesOn
    <3>4. /\ paid'[t] <= 1 + unsure[t]
          /\ new.answer = "ok" => paid'[t] >= 1
          /\ new.answer \notin {"ok", "doubtful", "network"} => paid'[t] <= unsure[t]
      <4>1. moved = 1 => paid[t] <= unsure[t]
        BY <1>4, <3>2
      <4>2. CASE new.answer = "ok" /\ call[c].stage = "sent" /\ moved = 1
        BY <1>6, <3>2, <4>2
      <4>3. CASE new.answer \in {"unset", "wrong", "locked", "refused"} /\ call[c].stage = "sent" /\ moved = 0
        BY <1>6, <3>2, <4>3
      <4>4. CASE new.answer \in {"doubtful", "network"}
        BY <1>6, <3>2, <4>1, <4>4
      <4> QED
        BY <1>15, <3>3, <4>2, <4>3, <4>4 DEF TellsOfPayment
    <3>5. \A d \in Call : Paying(d, t)' => call'[d] = new
      BY <1>5, <2>3, <2>4
    <3>6. unsure'[t] = unsure[t] /\ tab'[t] = tab[t] /\ Paying(c, t)'
      BY <1>4, <2>3, <3>1
    <3>7. Entry(t)'
      BY <3>2, <3>3, <3>4, <3>5, <3>6 DEF Entry
    <3> QED
      BY <1>11, <1>13, <2>2, <3>7
  <2> QED
    BY <2>5, <2>6
<1> QED
  BY <1>14, <1>15

\* An answer is heard: the form shows what was paid, or the doubt is counted.
LEMMA HearsEntry ==
    ASSUME EntryInv, NEW c \in Call, Hears(c)
    PROVE  (\A s \in Tab : Waiting(s)' /\ Entry(s)') /\ \A d \in Call : Ears(call'[d])
<1>1. /\ TypeInv /\ \A d \in Call : Ears(call[d])
      /\ \A s \in Tab : Waiting(s) /\ Entry(s)
      /\ paid \in [Tab -> Nat] /\ unsure \in [Tab -> Nat]
  BY DEF EntryInv, TypeInv
<1>2. PICK t \in Tab : t = call[c].tab
  BY DEF Hears, CallType
<1>3. PICK p : tab' = [tab EXCEPT ![t] = p] /\ Listens(p, t, call[c])
  BY <1>2 DEF Hears
<1>4. PICK doubt \in {0, 1} : doubt = Doubt(call[c])
  BY DEF Doubt
<1>5. /\ call' = [call EXCEPT ![c] = Idle] /\ paid' = paid
      /\ unsure' = [unsure EXCEPT ![t] = @ + doubt]
      /\ call[c] # Idle /\ call[c].stage = "answered"
  BY <1>2, <1>4 DEF Hears
<1>6. tab'[t] = p /\ \A s \in Tab \ {t} : tab'[s] = tab[s]
  BY <1>1, <1>3 DEF TypeInv
<1>7. call'[c] = Idle /\ \A d \in Call \ {c} : call'[d] = call[d]
  BY <1>1, <1>5 DEF TypeInv
<1>8. /\ unsure'[t] = unsure[t] + doubt /\ \A s \in Tab \ {t} : unsure'[s] = unsure[s]
      /\ paid[t] \in Nat /\ unsure[t] \in Nat
  BY <1>1, <1>5, CountRises
<1>9. \A d \in Call : Ears(call'[d])
  BY <1>1, <1>7 DEF Ears
<1>10. \A d \in Call, s \in Tab : Ours(d, s)' <=> Ours(d, s) /\ d # c
  BY <1>7 DEF Ours
<1>11. \A s \in Tab \ {t} : Waiting(s)' /\ Entry(s)'
  <2>1. \A s \in Tab \ {t}, d \in Call :
          (Ours(d, s)' <=> Ours(d, s)) /\ (Ours(d, s) => call'[d] = call[d])
    BY <1>2, <1>7, <1>10 DEF Ours
  <2> QED
    BY <1>5, <1>6, <1>8, <2>1, Untouched
<1>12. CASE call[c].kind = "send"
  <2>1. Ours(c, t) /\ Paying(c, t)
    <3>1. call[c].ear \in {"live", "orphan", "gone"}
      BY DEF Hears, CallType
    <3> QED
      BY <1>1, <1>2, <1>5, <1>12, <3>1 DEF Ears, Ours, Paying
  <2>2. \A d \in Call : ~Ours(d, t)'
    BY <1>1, <1>10, <2>1 DEF Waiting
  <2>3. /\ paid[t] <= 1 + unsure[t]
        /\ call[c].answer \notin {"ok", "doubtful", "network"} => paid[t] <= unsure[t]
        /\ call[c].answer = "ok" => paid[t] >= 1
        /\ tab[t].at # "login"
    BY <1>1, <2>1 DEF Entry, Waiting
  <2>4. p.form = FormAfter(call[c].answer) /\ p.at = tab[t].at
    BY <1>3, <1>12 DEF Listens
  <2>5. doubt = 1 <=> call[c].answer \in {"doubtful", "network"}
    BY <1>4, <1>12 DEF Doubt
  <2>6. p.form = "result" <=> call[c].answer = "ok"
    BY <2>4 DEF FormAfter
  <2>7. /\ paid'[t] <= 1 + unsure'[t]
        /\ tab'[t].form = "result" => paid'[t] >= 1
        /\ tab'[t].form # "result" => paid'[t] <= unsure'[t]
    <3>1. CASE doubt = 1
      BY <1>5, <1>6, <1>8, <2>3, <2>5, <2>6, <3>1
    <3>2. CASE doubt = 0
      BY <1>5, <1>6, <1>8, <2>3, <2>5, <2>6, <3>2
    <3> QED
      BY <3>1, <3>2
  <2>8. Waiting(t)' /\ Entry(t)'
    BY <1>6, <2>2, <2>3, <2>4, <2>7, Quiet
  <2> QED
    BY <1>9, <1>11, <2>8
<1>13. CASE call[c].kind # "send"
  <2>1. doubt = 0
    BY <1>4, <1>13 DEF Doubt
  <2>2. unsure'[t] = unsure[t] /\ paid'[t] = paid[t]
    BY <1>5, <1>8, <2>1
  <2>3. /\ p.form = tab[t].form /\ p.at = tab[t].at
        /\ p.busy <=> tab[t].busy /\ call[c].ear # "live"
    BY <1>3, <1>13 DEF Listens
  <2>4. Waiting(t)'
    <3>1. CASE call[c].ear = "live"
      <4>1. Ours(c, t)
        BY <1>2, <1>5, <3>1 DEF Ours
      <4>2. \A d \in Call : ~Ours(d, t)'
        BY <1>1, <1>10, <4>1 DEF Waiting
      <4> QED
        BY <4>2 DEF Waiting
    <3>2. CASE call[c].ear # "live"
      BY <1>1, <1>6, <1>10, <2>3, <3>2 DEF Waiting
    <3> QED
      BY <3>1, <3>2
  <2>5. \A d \in Call : Paying(d, t)' <=> Paying(d, t)
    BY <1>7, <1>10, <1>13 DEF Paying
  <2>6. \A d \in Call : Paying(d, t) => call'[d] = call[d]
    BY <1>7, <1>13 DEF Paying
  <2>7. Entry(t)'
    BY <1>1, <1>6, <2>2, <2>3, <2>5, <2>6 DEF Entry
  <2> QED
    BY <1>9, <1>11, <2>4, <2>7
<1> QED
  BY <1>12, <1>13

\* Every step keeps the entries in order.
LEMMA NextEntries == EntryInv /\ [Next]_vars => EntryInv'
<1> SUFFICES ASSUME EntryInv, [Next]_vars PROVE EntryInv'
  OBVIOUS
<1>0. TypeInv /\ TypeInv'
  BY NextTypes DEF EntryInv
<1>1. ASSUME NEW t \in Tab, Mounts(t)  PROVE EntryInv'
  BY <1>0, <1>1, MountsEntry DEF EntryInv
<1>2. ASSUME NEW t \in Tab, Shows(t)  PROVE EntryInv'
  BY <1>0, <1>2, ShowsEntry DEF EntryInv
<1>3. ASSUME NEW t \in Tab, NEW c \in Call, Sends(t, c)  PROVE EntryInv'
  BY <1>0, <1>3, SendsEntry DEF EntryInv
<1>4. ASSUME NEW c \in Call, Serves(c)  PROVE EntryInv'
  BY <1>0, <1>4, ServesEntry DEF EntryInv
<1>5. ASSUME NEW c \in Call, Hears(c)  PROVE EntryInv'
  BY <1>0, <1>5, HearsEntry DEF EntryInv
<1>6. CASE UNCHANGED <<tab, call, paid, unsure>>
  BY <1>0, <1>6 DEF EntryInv, Waiting, Entry, Paying, Ours
<1>7. Tick \/ Elsewhere \/ UNCHANGED vars => UNCHANGED <<tab, call, paid, unsure>>
  BY DEF Tick, Elsewhere, vars, history
<1> QED
  BY <1>0, <1>1, <1>2, <1>3, <1>4, <1>5, <1>6, <1>7, Steps

\* A payment that is filled in once is made once, in every tab, however often
\* its PIN is entered and whatever becomes of its requests, unless an answer
\* left it in doubt; and a result that is shown was paid.
THEOREM EntriesArePaidOnce == Spec => []EntryPaidOnce
<1>1. EntryInv => EntryPaidOnce
  BY DEF EntryInv, Entry, EntryPaidOnce
<1> QED
  BY <1>1, InitEntries, NextEntries, PTL DEF Spec

-----------------------------------------------------------------------------
(* The event streams.                                                      *)

\* The Map of the service and the streams.
MapInv == StreamTypeOK /\ MapIsOpenStreams

\* close() keeps a state a state, and leaves no stream open that it is asked
\* to close.
LEMMA CloseEnds ==
    ASSUME NEW state \in [Connection -> StreamState], NEW c \in Connection
    PROVE  /\ Close(state, c) \in [Connection -> StreamState]
           /\ Close(state, c)[c] # "open"
           /\ \A d \in Connection \ {c} : Close(state, c)[d] = state[d]
BY DEF Close, StreamState

\* At first the Map is empty and no stream is open.
LEMMA InitMap == StreamInit => MapInv
BY NotificationAssumption DEF StreamInit, MapInv, StreamTypeOK, MapIsOpenStreams, StreamState

\* Every function of the service and every event of a stream keeps the types.
LEMMA NextTypeOK == MapInv /\ [StreamNext]_streamVars => StreamTypeOK'
<1> SUFFICES ASSUME MapInv, [StreamNext]_streamVars PROVE StreamTypeOK'
  OBVIOUS
<1> USE NotificationAssumption DEF MapInv, StreamTypeOK, Chunk
<1>1. ASSUME NEW c \in Connection, Open(c) PROVE StreamTypeOK'
  <2>1. stream' \in [Connection -> StreamState]
    <3>1. CASE registered[owner[c]] = NoConnection
      BY <1>1, <3>1 DEF Open, StreamState
    <3>2. CASE registered[owner[c]] # NoConnection
      <4>0. registered[owner[c]] \in Connection /\ stream \in [Connection -> StreamState]
        BY <3>2
      <4>1. Close(stream, registered[owner[c]]) \in [Connection -> StreamState]
        BY <4>0, CloseEnds, Zenon
      <4>2. stream' = [Close(stream, registered[owner[c]]) EXCEPT ![c] = "open"]
        BY <1>1, <3>2 DEF Open
      <4> QED
        BY <4>1, <4>2 DEF StreamState
    <3> QED
      BY <3>1, <3>2
  <2>2. queue' \in [Connection -> Seq(Nat)]
    <3>1. <<0>> \in Seq(Nat)
      OBVIOUS
    <3> QED
      BY <1>1, <3>1 DEF Open
  <2> QED
    BY <1>1, <2>1, <2>2 DEF Open
<1>2. ASSUME NEW c \in Connection, Deliver(c) PROVE StreamTypeOK'
  <2>1. Head(queue[c]) \in Nat /\ Tail(queue[c]) \in Seq(Nat)
    BY <1>2, HeadTailProperties DEF Deliver
  <2>2. Append(received[c], Head(queue[c])) \in Seq(Nat)
    BY <2>1, AppendProperties
  <2>3. stream' \in [Connection -> StreamState]
    BY <1>2 DEF Deliver, StreamState
  <2>4. received' \in [Connection -> Seq(Nat)] /\ queue' \in [Connection -> Seq(Nat)]
    BY <1>2, <2>1, <2>2 DEF Deliver
  <2> QED
    BY <1>2, <2>3, <2>4 DEF Deliver
<1>3. ASSUME NEW c \in Connection, HangUp(c) PROVE StreamTypeOK'
  <2>1. stream' \in [Connection -> StreamState]
    <3> DEFINE gone == [stream EXCEPT ![c] = "cancelled"]
    <3>1. gone \in [Connection -> StreamState]
      BY DEF StreamState
    <3>2. CASE registered[owner[c]] = NoConnection
      BY <1>3, <3>1, <3>2 DEF HangUp
    <3>3. CASE registered[owner[c]] # NoConnection
      <4>0. registered[owner[c]] \in Connection
        BY <3>3
      <4>1. Close(gone, registered[owner[c]]) \in [Connection -> StreamState]
        BY <3>1, <4>0, CloseEnds, Zenon
      <4> QED
        BY <1>3, <3>3, <4>1 DEF HangUp
    <3> QED
      BY <3>2, <3>3
  <2>2. queue' \in [Connection -> Seq(Nat)]
    <3>1. <<>> \in Seq(Nat)
      OBVIOUS
    <3> QED
      BY <1>3, <3>1 DEF HangUp
  <2> QED
    BY <1>3, <2>1, <2>2 DEF HangUp
<1>4. ASSUME NEW u \in Listener, Notify(u) PROVE StreamTypeOK'
  <2>1. sent' \in Nat
    BY <1>4 DEF Notify
  <2>2. ASSUME NEW c \in Connection PROVE Append(queue[c], sent') \in Seq(Nat)
    BY <2>1, AppendProperties
  <2>3. queue' \in [Connection -> Seq(Nat)]
    <3>1. CASE queue' = queue
      BY <3>1
    <3>2. CASE queue' # queue
      <4>1. registered[u] \in Connection
        BY <1>4, <3>2 DEF Notify
      <4>2. queue' = [queue EXCEPT ![registered[u]] = Append(@, sent')]
        BY <1>4, <3>2, Zenon DEF Notify
      <4>3. Append(queue[registered[u]], sent') \in Seq(Nat)
        BY <2>2, <4>1
      <4> DEFINE longer == Append(queue[registered[u]], sent')
      <4>4. queue' = [queue EXCEPT ![registered[u]] = longer]
        BY <4>2
      <4> HIDE DEF longer
      <4> QED
        BY <4>1, <4>3, <4>4 DEF longer
    <3> QED
      BY <3>1, <3>2
  <2>4. registered' \in [Listener -> Connection \cup {NoConnection}]
    BY <1>4 DEF Notify
  <2> QED
    BY <1>4, <2>1, <2>3, <2>4 DEF Notify
<1>5. CASE Shutdown
  <2>1. \A c \in Connection : Close(stream, c)[c] \in StreamState
    BY CloseEnds
  <2> QED
    BY <1>5, <2>1 DEF Shutdown
<1>6. CASE Restart
  BY <1>6 DEF Restart, StreamState
<1>7. CASE UNCHANGED streamVars
  BY <1>7 DEF streamVars
<1> QED
  BY <1>1, <1>2, <1>3, <1>4, <1>5, <1>6, <1>7 DEF StreamNext

\* Every step leaves the Map and the open streams in agreement.
LEMMA NextMap == MapInv /\ [StreamNext]_streamVars => MapInv'
<1> SUFFICES ASSUME MapInv, [StreamNext]_streamVars PROVE MapIsOpenStreams'
  BY NextTypeOK DEF MapInv
<1> USE NotificationAssumption DEF MapInv, StreamTypeOK, MapIsOpenStreams
<1>1. ASSUME NEW c \in Connection, Open(c) PROVE MapIsOpenStreams'
  <2>1. CASE registered[owner[c]] = NoConnection
    BY <1>1, <2>1 DEF Open
  <2>2. CASE registered[owner[c]] # NoConnection
    <3> DEFINE old == registered[owner[c]]
    <3>1. old \in Connection \ {c} /\ owner[old] = owner[c]
      BY <1>1, <2>2 DEF Open
    <3>2. stream' = [Close(stream, old) EXCEPT ![c] = "open"]
      BY <1>1, <2>2 DEF Open
    <3>3. /\ Close(stream, old) \in [Connection -> StreamState]
          /\ Close(stream, old)[old] # "open"
          /\ \A d \in Connection \ {old} : Close(stream, old)[d] = stream[d]
      BY <3>1, CloseEnds
    <3>4. /\ stream'[c] = "open" /\ stream'[old] # "open"
          /\ \A d \in Connection \ {c, old} : stream'[d] = stream[d]
      BY <3>1, <3>2, <3>3
    <3> HIDE DEF old
    <3> QED
      BY <1>1, <3>1, <3>4 DEF Open, old
  <2> QED
    BY <2>1, <2>2
<1>2. ASSUME NEW c \in Connection, Deliver(c) PROVE MapIsOpenStreams'
  BY <1>2 DEF Deliver
<1>3. ASSUME NEW c \in Connection, HangUp(c) PROVE MapIsOpenStreams'
  <2> DEFINE gone == [stream EXCEPT ![c] = "cancelled"]
             current == registered[owner[c]]
  <2>1. gone \in [Connection -> StreamState]
    BY DEF StreamState
  <2>2. CASE current = NoConnection
    BY <1>3, <2>2 DEF HangUp
  <2>3. CASE current # NoConnection
    <3>1. current \in Connection /\ owner[current] = owner[c]
      BY <2>3
    <3>2. stream' = Close(gone, current)
      BY <1>3, <2>3 DEF HangUp
    <3>3. /\ Close(gone, current)[current] # "open"
          /\ \A d \in Connection \ {current} : Close(gone, current)[d] = gone[d]
      <4> HIDE DEF gone, current, StreamTypeOK, MapInv, MapIsOpenStreams
      <4> QED
        BY <2>1, <3>1, CloseEnds
    <3>4. /\ stream'[c] # "open" /\ stream'[current] # "open"
          /\ \A d \in Connection \ {c, current} : stream'[d] = stream[d]
      BY <3>1, <3>2, <3>3
    <3> QED
      BY <1>3, <3>1, <3>4 DEF HangUp
  <2> QED
    BY <2>2, <2>3
<1>4. ASSUME NEW u \in Listener, Notify(u) PROVE MapIsOpenStreams'
  BY <1>4 DEF Notify
<1>5. CASE Shutdown
  <2>1. ASSUME NEW c \in Connection PROVE stream'[c] # "open"
    BY <1>5, CloseEnds DEF Shutdown
  <2> QED
    BY <1>5, <2>1 DEF Shutdown
<1>6. CASE Restart
  BY <1>6 DEF Restart
<1>7. CASE UNCHANGED streamVars
  BY <1>7 DEF streamVars
<1> QED
  BY <1>1, <1>2, <1>3, <1>4, <1>5, <1>6, <1>7 DEF StreamNext

\* The connections keep their types.
THEOREM StreamTypesCorrect == StreamSpec => []StreamTypeOK
<1>1. MapInv => StreamTypeOK
  BY DEF MapInv
<1> QED
  BY <1>1, InitMap, NextMap, PTL DEF StreamSpec

\* The Map knows exactly the open streams, one per user, whatever the order
\* in which streams are opened, closed and cancelled.
THEOREM OneOpenStreamPerUser == StreamSpec => []MapIsOpenStreams
<1>1. MapInv => MapIsOpenStreams
  BY DEF MapInv
<1> QED
  BY <1>1, InitMap, NextMap, PTL DEF StreamSpec
=============================================================================
