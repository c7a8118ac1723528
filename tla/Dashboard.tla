----------------------------- MODULE Dashboard -----------------------------
(***************************************************************************)
(* The browser's side of a session: signing in, the PIN gate that the      *)
(* dashboard layout puts before its pages, the form that sends a payment   *)
(* and the profile page that sets or resets the PIN.  Tabs share           *)
(* localStorage (the token and a copy of the user); each has its own       *)
(* sessionStorage (pinVerified) and its own mounted components.            *)
(*                                                                         *)
(* A fetch is a call: the component that made it may be gone when the      *)
(* answer arrives, and its handler runs all the same.  The server is what  *)
(* PinService promises: an attempt of this browser is judged and written   *)
(* in one step, while attempts of the user's other devices may be written  *)
(* at any time, on what they read before (OtherDevice).  The outcome of a  *)
(* payment is a choice.  Clocks of browser and server agree here.          *)
(* Administrators, whom no gate stops, and the other pages are left out.   *)
(***************************************************************************)
EXTENDS Integers, FiniteSets

CONSTANTS
    User,
    Tab,
    Call,        \* requests that may be under way together
    Pin,         \* the PINs a user may enter ...
    NewPin,      \* ... and those among them a user may choose
    NoPin,       \* pinHash = null
    NoTime,      \* no lock
    NoUser,
    MaxFailed,   \* MAX_FAILED_ATTEMPTS
    Lockout,     \* LOCKOUT_DURATION_MINUTES, in units of the clock
    MaxTime,     \* bound: where the clock of a run stops
    MaxUnsure    \* bound: payments of one entry whose outcome the user is not told

ASSUME DashboardAssumption ==
    /\ NewPin \subseteq Pin
    /\ NoPin \notin Pin
    /\ NoUser \notin User
    /\ NoTime \notin Nat
    /\ MaxFailed \in Nat \ {0}
    /\ Lockout \in Nat \ {0}
    /\ MaxTime \in Nat

VARIABLES
    now,
    row,       \* per user, what the server keeps of the PIN
    replaced,  \* history, per user: latest end of a lock that was overwritten while it ran
    stored,    \* localStorage: whose token, and the copy of user.pinHash
    tab,       \* per tab: sessionStorage and the mounted page
    call,      \* per call: idle, or where the request is
    timer,     \* per tab: the two seconds after a reset PIN are running
    paid,      \* history, per tab: transfers that the entry on the screen made
    unsure     \* history, per tab: answers that left their payment in doubt

vars == <<now, row, replaced, stored, tab, call, timer, paid, unsure>>

Nobody == [id |-> NoUser, hasPin |-> FALSE]
Idle == [stage |-> "idle"]

LoginPage(verified) ==
    [at |-> "login", verified |-> verified, mode |-> "verify", busy |-> FALSE,
     lock |-> NoTime, lockOf |-> NoUser, knowsPin |-> FALSE, form |-> "fill"]

\* The layout and a page of the dashboard mount: sessionStorage and
\* localStorage are read, once.
Mounted(page, verified, user) ==
    [LoginPage(verified) EXCEPT
        !.at = page,
        !.mode = IF verified \/ user.hasPin THEN "verify" ELSE "set",
        !.knowsPin = user.hasPin]

Gated(t) == tab[t].at # "login" /\ ~tab[t].verified
Inside(t, page) == tab[t].at = page /\ tab[t].verified

Init ==
    /\ now = 0
    /\ row = [u \in User |-> [pin |-> NoPin, failed |-> 0, lockedUntil |-> NoTime]]
    /\ replaced = [u \in User |-> 0]
    /\ stored = Nobody
    /\ tab = [t \in Tab |-> LoginPage(FALSE)]
    /\ call = [c \in Call |-> Idle]
    /\ timer = [t \in Tab |-> FALSE]
    /\ paid = [t \in Tab |-> 0]
    /\ unsure = [t \in Tab |-> 0]

server == <<now, row, replaced>>
history == <<paid, unsure>>

-----------------------------------------------------------------------------
(* Pages.                                                                  *)

Unanswered(c) == call[c].stage \in {"sent", "judged"}

\* Calls whose answers nobody waits for; one that is out is dropped.
Gone(calls) ==
    [c \in Call |->
        IF c \notin calls THEN call[c]
        ELSE IF Unanswered(c) THEN [call[c] EXCEPT !.ear = "gone"] ELSE Idle]

CallsOf(t) == {c \in Call : call[c] # Idle /\ call[c].tab = t}

\* The page is left: its components are gone.  The handler of a payment only
\* sets their state; that of a PIN writes to localStorage, too.
Orphaned(t) ==
    LET sends == {c \in CallsOf(t) : call[c].kind = "send"} IN
    [c \in Call |->
        IF c \in CallsOf(t) \ sends /\ call[c].ear = "live"
        THEN [call[c] EXCEPT !.ear = "orphan"] ELSE Gone(sends)[c]]

\* The whole script is gone.
Silenced(t) == Gone(CallsOf(t))

\* The entry on the screen is given up.
Forgotten(t) ==
    /\ paid' = [paid EXCEPT ![t] = 0]
    /\ unsure' = [unsure EXCEPT ![t] = 0]

\* A registration or a login has succeeded (Accounts): the token and the user
\* that the server returns, who carries no pinHash, are stored and the
\* dashboard is entered.
SignIn(t, u) ==
    /\ tab[t].at = "login"
    /\ stored' = [id |-> u, hasPin |-> FALSE]
    /\ tab' = [tab EXCEPT ![t] = Mounted("profile", tab[t].verified, stored')]
    /\ UNCHANGED <<server, call, timer, history>>

\* The links of the dashboard keep the layout and mount another page.
Go(t, page) ==
    /\ tab[t].at \in {"profile", "send"} \ {page} /\ tab[t].verified
    /\ tab' = [tab EXCEPT ![t] = [Mounted(page, TRUE, stored) EXCEPT !.mode = tab[t].mode]]
    /\ call' = Orphaned(t)
    /\ Forgotten(t)
    /\ UNCHANGED <<server, stored, timer>>

Logout(t) ==
    /\ Inside(t, "profile")
    /\ stored' = Nobody
    /\ tab' = [tab EXCEPT ![t] = LoginPage(TRUE)]
    /\ call' = Orphaned(t)
    /\ Forgotten(t)
    /\ UNCHANGED <<server, timer>>

\* The tab is reloaded, at the login page or at one of the dashboard, or is
\* closed and another opened; without a token the layout sends it to the login
\* page.
Reload(t, page, kept) ==
    /\ LET verified == kept /\ tab[t].verified IN
         tab' = [tab EXCEPT ![t] = IF page = "login" \/ stored = Nobody THEN LoginPage(verified)
                                   ELSE Mounted(page, verified, stored)]
    /\ call' = Silenced(t)
    /\ timer' = [timer EXCEPT ![t] = FALSE]
    /\ Forgotten(t)
    /\ UNCHANGED <<server, stored>>

-----------------------------------------------------------------------------
(* Requests.                                                               *)

\* A fetch: the token is read from localStorage as it is now.
Fetch(t, c, kind, pin) ==
    /\ call[c] = Idle
    /\ call' = [call EXCEPT ![c] =
         [stage |-> "sent", tab |-> t, ear |-> "live", kind |-> kind,
          user |-> stored.id, pin |-> pin, answer |-> "none", until |-> NoTime]]
    /\ tab' = [tab EXCEPT ![t].busy = TRUE]
    /\ UNCHANGED <<server, stored, timer, history>>

\* The PIN gate: handleComplete.
GatePin(t, c, pin) ==
    /\ Gated(t)
    /\ ~tab[t].busy
    /\ tab[t].lock = NoTime
    /\ tab[t].mode = "set" => pin \in NewPin
    /\ Fetch(t, c, IF tab[t].mode = "set" THEN "gateSet" ELSE "gateVerify", pin)

\* The profile page: handleSetPin, or handleResetPin.
ProfilePin(t, c, pin) ==
    /\ Inside(t, "profile")
    /\ ~tab[t].busy
    /\ pin \in NewPin
    /\ Fetch(t, c, IF tab[t].knowsPin THEN "reset" ELSE "set", pin)

\* The payment form: handleFormSubmit opens the modal, which may be closed
\* while nothing is under way.
FormSubmit(t) ==
    /\ Inside(t, "send") /\ tab[t].form = "fill"
    /\ unsure[t] < MaxUnsure
    /\ tab' = [tab EXCEPT ![t].form = "pin"]
    /\ UNCHANGED <<server, stored, call, timer, history>>

CloseModal(t) ==
    /\ tab[t].form = "pin" /\ ~tab[t].busy
    /\ tab' = [tab EXCEPT ![t].form = "fill"]
    /\ UNCHANGED <<server, stored, call, timer, history>>

\* Mutant: the input stays open while a payment is under way.
SendPinAnytime(t, c, pin) ==
    /\ tab[t].form = "pin"
    /\ Fetch(t, c, "send", pin)

\* handlePinSubmit.
SendPin(t, c, pin) ==
    /\ tab[t].form = "pin" /\ ~tab[t].busy
    /\ Fetch(t, c, "send", pin)

NewPayment(t) ==
    /\ tab[t].form = "result"
    /\ tab' = [tab EXCEPT ![t].form = "fill"]
    /\ Forgotten(t)
    /\ UNCHANGED <<server, stored, call, timer>>

-----------------------------------------------------------------------------
(* The server.                                                             *)

Locked(r) == r.lockedUntil # NoTime /\ r.lockedUntil > now

\* Mutant: a lock that has run out leaves its failures behind.
FailedForever(r) == r.failed

Failed(r) == IF r.lockedUntil # NoTime /\ ~Locked(r) THEN 0 ELSE r.failed

\* verifyPin: its verdict, and what it leaves in the row.
Verdict(r, pin) ==
    IF r.pin = NoPin THEN "unset"
    ELSE IF Locked(r) THEN "locked"
    ELSE IF r.pin = pin THEN "right" ELSE "wrong"

AfterVerdict(r, pin) ==
    CASE Verdict(r, pin) = "right" -> [r EXCEPT !.failed = 0, !.lockedUntil = NoTime]
      [] Verdict(r, pin) = "wrong" ->
           [r EXCEPT !.failed = Failed(r) + 1,
                     !.lockedUntil = IF Failed(r) + 1 >= MaxFailed THEN now + Lockout ELSE NoTime]
      [] OTHER -> r

\* The answer is out, without the PIN, if somebody waits for it.
AnswerUntil(c, answer, until) ==
    call' = [call EXCEPT ![c] =
               IF @.ear = "gone" THEN Idle
               ELSE [@ EXCEPT !.stage = "answered", !.pin = NoPin, !.answer = answer, !.until = until]]

Answer(c, answer) == AnswerUntil(c, answer, NoTime)

Arrived(c) == call[c].stage = "sent" /\ call[c].user # NoUser

\* An update that does not look whether u is locked by now.
Overwrite(u, r) ==
    /\ row' = [row EXCEPT ![u] = r]
    /\ replaced' = [replaced EXCEPT ![u] =
                      IF Locked(row[u]) /\ row[u].lockedUntil > @ THEN row[u].lockedUntil ELSE @]

\* POST and PUT /api/users/pin: setPin and resetPin.
ServeSetting(c) ==
    /\ Arrived(c) /\ call[c].kind \in {"gateSet", "set", "reset"}
    /\ Overwrite(call[c].user, [pin |-> call[c].pin, failed |-> 0, lockedUntil |-> NoTime])
    /\ Answer(c, "ok")
    /\ UNCHANGED <<now, stored, tab, timer, history>>

\* POST /api/users/pin/verify: what the PIN is not right or not set needs a
\* second look at the row.
ServeVerify(c) ==
    /\ Arrived(c) /\ call[c].kind = "gateVerify"
    /\ LET r == row[call[c].user]
           verdict == Verdict(r, call[c].pin) IN
         /\ row' = [row EXCEPT ![call[c].user] = AfterVerdict(r, call[c].pin)]
         /\ IF verdict \in {"right", "unset"} THEN Answer(c, IF verdict = "right" THEN "ok" ELSE "unset")
            ELSE call' = [call EXCEPT ![c].stage = "judged", ![c].answer = verdict]
    /\ UNCHANGED <<now, replaced, stored, tab, timer, history>>

\* Mutant: the expiry is computed afresh instead of read.
ReadBackComputed(c) ==
    /\ call[c].stage = "judged"
    /\ AnswerUntil(c, call[c].answer,
                   IF call[c].answer = "locked" THEN now + Lockout ELSE NoTime)
    /\ UNCHANGED <<server, stored, tab, timer, history>>

\* The second read: the expiry of the lock, if the row still has one.
ReadBack(c) ==
    /\ call[c].stage = "judged"
    /\ AnswerUntil(c, call[c].answer,
                   IF call[c].answer = "locked" THEN row[call[c].user].lockedUntil ELSE NoTime)
    /\ UNCHANGED <<server, stored, tab, timer, history>>

\* POST /api/payments/send: with the right PIN the payment is made and
\* confirmed, refused before it is submitted, or fails after that, when it may
\* have been made (Payments).
ServeSend(c) ==
    /\ Arrived(c) /\ call[c].kind = "send"
    /\ LET r == row[call[c].user]
           verdict == Verdict(r, call[c].pin) IN
         /\ row' = [row EXCEPT ![call[c].user] = AfterVerdict(r, call[c].pin)]
         /\ \/ /\ verdict # "right"
               /\ Answer(c, verdict)
               /\ UNCHANGED paid
            \/ /\ verdict = "right"
               /\ \E outcome \in {"ok", "refused", "doubtful"}, moved \in BOOLEAN :
                    /\ (outcome = "ok") => moved
                    /\ (outcome = "refused") => ~moved
                    /\ Answer(c, outcome)
                    /\ paid' = [paid EXCEPT ![call[c].tab] =
                                  @ + IF moved /\ call[c].ear = "live" THEN 1 ELSE 0]
    /\ UNCHANGED <<now, replaced, stored, tab, timer, unsure>>

\* An attempt of the user from elsewhere is written, on the counter and at the
\* time of its own reading: a match lifts a lock it has not seen, a mismatch
\* puts one that ends earlier in its place, or none.
OtherDevice(u) ==
    /\ row[u].pin # NoPin
    /\ \E failed \in 0..MaxFailed, read \in 0..now :
         Overwrite(u, [row[u] EXCEPT
             !.failed = failed,
             !.lockedUntil = IF failed = MaxFailed THEN read + Lockout ELSE NoTime])
    /\ UNCHANGED <<now, stored, tab, call, timer, history>>

\* The proxy (always, without a token), another guard, or a fault of the
\* server before anything is done.
TurnDown(c) ==
    /\ call[c].stage = "sent"
    /\ Answer(c, "refused")
    /\ UNCHANGED <<server, stored, tab, timer, history>>

\* The network fails, before the server has the request or after.
Lose(c) ==
    /\ call[c].stage \in {"sent", "judged", "answered"} /\ call[c].answer # "network"
    /\ Answer(c, "network")
    /\ UNCHANGED <<server, stored, tab, timer, history>>

-----------------------------------------------------------------------------
(* Answers.                                                                *)

Heard(c, kinds) == call[c].stage = "answered" /\ call[c].kind \in kinds
Answers(c, answers) == call[c].answer \in answers

Live(c) == call[c].ear = "live"

Freed(c) == call' = [call EXCEPT ![c] = Idle]

\* The copy of the user in localStorage, whoever it is by now, has a PIN.
MarkPin ==
    stored' = IF stored = Nobody THEN stored ELSE [stored EXCEPT !.hasPin = TRUE]

\* The gate opens: handlePinSuccess of the layout.
HearGateOk(c) ==
    LET t == call[c].tab IN
    /\ Heard(c, {"gateSet", "gateVerify"}) /\ Answers(c, {"ok"})
    /\ tab' = [tab EXCEPT ![t].verified = TRUE, ![t].busy = @ /\ ~Live(c)]
    /\ IF call[c].kind = "gateSet" THEN MarkPin ELSE UNCHANGED stored
    /\ Freed(c)
    /\ UNCHANGED <<server, timer, history>>

\* The gate stays shut, with a countdown if the answer names an expiry.
HearGateError(c) ==
    LET t == call[c].tab IN
    /\ Heard(c, {"gateSet", "gateVerify"}) /\ ~Answers(c, {"ok"})
    /\ LET dated == Live(c) /\ Answers(c, {"locked"}) /\ call[c].until # NoTime IN
         tab' = [tab EXCEPT ![t].busy = @ /\ ~Live(c),
                            ![t].lock = IF dated THEN call[c].until ELSE @,
                            ![t].lockOf = IF dated THEN call[c].user ELSE @]
    /\ Freed(c)
    /\ UNCHANGED <<server, stored, timer, history>>

\* Mutant: the countdown shows zero and the lock behind it stays.
CountdownStays(t) ==
    /\ Gated(t) /\ tab[t].lock # NoTime /\ tab[t].lock <= now
    /\ UNCHANGED vars

\* updateCountdown, when the lock has run out.
CountdownEnds(t) ==
    /\ Gated(t) /\ tab[t].lock # NoTime /\ tab[t].lock <= now
    /\ tab' = [tab EXCEPT ![t].lock = NoTime, ![t].lockOf = NoUser]
    /\ UNCHANGED <<server, stored, call, timer, history>>

HearProfile(c) ==
    LET t == call[c].tab IN
    /\ Heard(c, {"set", "reset"})
    /\ LET set == Answers(c, {"ok"}) /\ call[c].kind = "set"
           reset == Answers(c, {"ok"}) /\ call[c].kind = "reset" IN
         /\ tab' = [tab EXCEPT ![t].busy = @ /\ ~Live(c), ![t].knowsPin = @ \/ (set /\ Live(c))]
         /\ IF set THEN MarkPin ELSE UNCHANGED stored
         /\ timer' = [timer EXCEPT ![t] = @ \/ reset]
    /\ Freed(c)
    /\ UNCHANGED <<server, history>>

\* Two seconds after a reset the session ends, on whichever page the tab is.
TimerFires(t) ==
    /\ timer[t]
    /\ timer' = [timer EXCEPT ![t] = FALSE]
    /\ stored' = Nobody
    /\ tab' = [tab EXCEPT ![t] = LoginPage(tab[t].verified)]
    /\ call' = Orphaned(t)
    /\ Forgotten(t)
    /\ UNCHANGED server

\* What the form makes of an answer: the modal stays for another try, or the
\* form comes back with an error, or the result is shown.
FormAfter(answer) ==
    CASE answer = "ok" -> "result"
      [] answer \in {"wrong", "locked"} -> "pin"
      [] OTHER -> "fill"

HearSend(c) ==
    LET t == call[c].tab IN
    /\ Heard(c, {"send"})
    /\ tab' = [tab EXCEPT ![t].busy = FALSE, ![t].form = FormAfter(call[c].answer)]
    /\ unsure' = [unsure EXCEPT ![t] = @ + IF Answers(c, {"doubtful", "network"}) THEN 1 ELSE 0]
    /\ Freed(c)
    /\ UNCHANGED <<server, stored, timer, paid>>

Tick ==
    /\ now < MaxTime
    /\ now' = now + 1
    /\ UNCHANGED <<row, replaced, stored, tab, call, timer, history>>

-----------------------------------------------------------------------------
Serve(c) == \/ ServeSetting(c) \/ ServeVerify(c) \/ ReadBack(c) \/ ServeSend(c)
            \/ TurnDown(c) \/ Lose(c)
Hear(c) == HearGateOk(c) \/ HearGateError(c) \/ HearProfile(c) \/ HearSend(c)

Next ==
    \/ \E t \in Tab :
         \/ \E u \in User : SignIn(t, u)
         \/ \E page \in {"profile", "send"} : Go(t, page)
         \/ Logout(t)
         \/ \E page \in {"login", "profile", "send"}, kept \in BOOLEAN : Reload(t, page, kept)
         \/ \E c \in Call, pin \in Pin : GatePin(t, c, pin) \/ ProfilePin(t, c, pin) \/ SendPin(t, c, pin)
         \/ FormSubmit(t) \/ CloseModal(t) \/ NewPayment(t)
         \/ CountdownEnds(t) \/ TimerFires(t)
    \/ \E c \in Call : Serve(c) \/ Hear(c)
    \/ \E u \in User : OtherDevice(u)
    \/ Tick

Spec == Init /\ [][Next]_vars

\* Requests end, answers are heard, timers run and time passes; nobody has to
\* press anything.
FairSpec ==
    /\ Spec
    /\ WF_vars(Tick)
    /\ \A c \in Call : WF_vars(Serve(c)) /\ WF_vars(Hear(c))
    /\ \A t \in Tab : WF_vars(CountdownEnds(t)) /\ WF_vars(TimerFires(t))

-----------------------------------------------------------------------------
(* Properties.                                                             *)

CallType ==
    [stage : {"sent", "judged", "answered"}, tab : Tab, ear : {"live", "orphan", "gone"},
     kind : {"gateSet", "gateVerify", "set", "reset", "send"}, user : User \cup {NoUser}, pin : Pin \cup {NoPin},
     answer : {"none", "ok", "unset", "wrong", "locked", "refused", "doubtful", "network"},
     until : Nat \cup {NoTime}]

\* The types of the variables.
TypeOK ==
    /\ now \in Nat
    /\ row \in [User -> [pin : Pin \cup {NoPin}, failed : 0..MaxFailed, lockedUntil : Nat \cup {NoTime}]]
    /\ replaced \in [User -> Nat]
    /\ stored \in [id : User \cup {NoUser}, hasPin : BOOLEAN]
    /\ tab \in [Tab -> [at : {"login", "profile", "send"}, verified : BOOLEAN, mode : {"set", "verify"},
                        busy : BOOLEAN, lock : Nat \cup {NoTime}, lockOf : User \cup {NoUser},
                        knowsPin : BOOLEAN, form : {"fill", "pin", "result"}]]
    /\ \A c \in Call : call[c] = Idle \/ call[c] \in CallType
    /\ timer \in [Tab -> BOOLEAN]
    /\ paid \in [Tab -> Nat]
    /\ unsure \in [Tab -> Nat]

\* A payment that is filled in once is made once, however often the PIN is
\* entered: a second transfer of one entry takes an answer that left the first
\* in doubt (a network error, or a submission that failed on Stellar's side),
\* and a result is on the screen only if it was made.
EntryPaidOnce ==
    \A t \in Tab :
        /\ paid[t] <= 1 + unsure[t]
        /\ tab[t].form = "result" => paid[t] >= 1

\* The countdown that disables the gate is never longer than a lock the server
\* really set, though the expiry is read after the verdict and heard later
\* still: it ends when the server's lock does, or earlier, unless a new PIN or
\* an attempt from elsewhere has overwritten a lock that ran as long.  That is
\* the one way in which the gate keeps a user out whom the server would admit:
\* nobody tells it.
CountdownIsTheServers ==
    \A t \in Tab :
        tab[t].lock # NoTime /\ tab[t].lock > now =>
            LET u == tab[t].lockOf IN
            \/ row[u].lockedUntil # NoTime /\ tab[t].lock <= row[u].lockedUntil
            \/ tab[t].lock <= replaced[u]

Disabled(t) == tab[t].busy \/ (Gated(t) /\ tab[t].lock \in 0..MaxTime)

\* Nobody waits for good: an input that is disabled, for a request or for a
\* lock (that ends before the clock of the run stops), is enabled again, or
\* its page is left.
InputsComeBack == \A t \in Tab : Disabled(t) ~> ~Disabled(t)

\* requirements.md of the overhaul, 14.2: after a login, whoever has a PIN is
\* asked for it.
GateAsksForThePin ==
    [][\A t \in Tab :
        (tab[t].at = "login" /\ Gated(t)' /\ row[stored'.id].pin # NoPin)
            => tab'[t].mode = "verify"]_vars
=============================================================================
