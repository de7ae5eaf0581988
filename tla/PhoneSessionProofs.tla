------------------------- MODULE PhoneSessionProofs -------------------------
(***************************************************************************)
(* What the session of a customer's phone guarantees for any users, any    *)
(* number of tokens and restarts and any number of requests on their way.  *)
(***************************************************************************)
EXTENDS PhoneSession, TLAPS

\* The tokens there are.
Issued == 1..issued

Request == [kind : {"idle", "order", "me", "register", "signOut", "unregister"}, as : Issued \cup {None},
            of : Issued \cup {None, Restoring}, waiting : BOOLEAN, alone : BOOLEAN,
            answer : {None, "ok", "expired", "wrongRole"}]

\* A request as it may be on its way: it was refused for its token or its user's role, and a sign-out
\* is the session's that was left, and no request until it has its push token.
Fit(q) ==
    /\ q \in Request
    /\ q.kind = "idle" => ~q.waiting
    /\ q.kind = "me" => q.as # None
    /\ q.kind \in {"signOut", "unregister"} => q.of \in left
    /\ q.kind = "signOut" => q.as = None /\ q.answer = None
    /\ q.answer = "ok" => q.as # None
    /\ q.answer = "expired" => q.as \in dead \cup {None}
    /\ q.answer = "wrongRole" => q.kind = "order" /\ q.as # None /\ who[q.as] \notin Customers

\* Only the first token may be of someone who is no customer.
TokensInv ==
    /\ day \in Days /\ issued \in 0..MaxSessions /\ dead \subseteq Issued
    /\ who \in [Sessions -> Users \cup {None}]
    /\ \A s \in Issued : who[s] \in Users /\ (s # 1 => who[s] \in Customers)

ServerTyped == owner \in Users \cup {None} /\ push \in {None, "read", "DeviceNotRegistered"}

PhoneTyped ==
    /\ installed \in BOOLEAN /\ restarts \in Nat
    /\ disk \in Issued \cup {None} /\ legacy \in BOOLEAN
    /\ authToken \in Issued \cup {None} /\ token \in Issued \cup {None, Restoring}
    /\ saving \in Issued \cup {None} /\ prompts \in Nat

HistoryTyped ==
    /\ left \subseteq Issued /\ registered \in Issued \cup {None}
    /\ late \in BOOLEAN /\ strayed \in BOOLEAN /\ quiet \in Users \cup {None}

RequestsInv ==
    /\ req = [r \in Slots |-> req[r]]
    /\ \A r \in Slots : Fit(req[r])

TypeInv == TokensInv /\ ServerTyped /\ PhoneTyped /\ HistoryTyped /\ RequestsInv

Waiting(kind) == {r \in Slots : req[r].waiting /\ req[r].kind = kind}

\* At launch nothing is asked but whose the saved session is.
LaunchInv ==
    /\ token = Restoring =>
          /\ prompts = 0 /\ saving = None
          /\ \A r \in Slots : req[r].waiting => req[r].kind = "me" /\ req[r].as = authToken
    /\ \A r \in Waiting("me") : token = Restoring /\ \A s \in Waiting("me") : r = s
    /\ ~installed => registered = None /\ token = Restoring /\ \A r \in Slots : ~req[r].waiting

\* The three places agree, or one is empty: the token put on requests is the one that is shown or
\* being saved, unless it was dead or another's answer took it away; and none is older than the disk's.
PlacesInv ==
    /\ saving # None => /\ token = None /\ saving = issued /\ who[saving] \in Customers
                        /\ authToken \in {saving, None}
                        /\ authToken = None => strayed \/ saving \in dead
    /\ token \in Issued => /\ authToken \in {token, None}
                           /\ authToken = None => strayed \/ token \in dead
    /\ disk # None => \A t \in {token, authToken} \cap Issued : disk <= t

\* A sign-out that is waited for is not of a session being saved, and was of what the disk has, of a
\* later one, or there is a session by now that is not its own.
LeavingInv ==
    \A r \in Waiting("signOut") \cup Waiting("unregister") :
        /\ saving # req[r].of
        /\ disk # None => disk <= req[r].of \/ authToken \notin {req[r].of, None}

SessionInv == LaunchInv /\ PlacesInv /\ LeavingInv

\* Nothing on the phone, or on its way, could make the phone ring for u.
Silent(u) ==
    /\ owner # u
    /\ \A t \in {authToken, token, saving, disk} \cap Issued : who[t] # u
    /\ \A r \in Slots : Unserved(r) /\ req[r].kind = "register" /\ req[r].as # None => who[req[r].as] # u

\* A sign-out with no registration beside it is made with its own token, and once it is answered the
\* phone rings for its customer no more.
AloneInv ==
    \A r \in Waiting("unregister") :
        req[r].alone /\ token = req[r].of /\ req[r].of \notin dead /\ ~strayed =>
            /\ req[r].as = req[r].of /\ ~Registering
            /\ req[r].answer # None => owner # who[req[r].of]

QuietInv == (quiet # None => Silent(quiet)) /\ AloneInv

\* The phone rings for s, and nothing on its way could change that.
Reached(s) ==
    /\ owner = who[s] /\ push # "DeviceNotRegistered"
    /\ \A r \in Slots : Unserved(r) /\ req[r].as # None =>
          /\ req[r].kind = "register" => who[req[r].as] = who[s]
          /\ req[r].kind = "unregister" => who[req[r].as] # who[s]
    /\ \A r \in Slots : req[r].kind # "signOut"

\* A session that the phone has somewhere.
Live(s) == s \in {token, saving, authToken, disk}

ReachInv ==
    /\ registered # None /\ Live(registered) =>
          /\ token \in {registered, None, Restoring}
          /\ authToken \in {registered, None} /\ saving \in {registered, None}
          /\ registered \notin left /\ ~late => Reached(registered)
    /\ \A r \in Waiting("register") :
          req[r].answer = "ok" /\ req[r].as = authToken /\ req[r].as \notin left /\ ~late =>
              Reached(req[r].as)

PhoneInv == TypeInv /\ SessionInv /\ QuietInv /\ ReachInv

-----------------------------------------------------------------------------
(* Requests *)

\* Tokens are issued and die, and sessions are left, for good.
Grows ==
    /\ Issued \subseteq Issued' /\ left \subseteq left' /\ dead \subseteq dead'
    /\ \A s \in Issued : who'[s] = who[s]

LEMMA SameGrows == ASSUME UNCHANGED <<tokens, left>> PROVE Grows /\ Issued' = Issued
  BY DEF Grows, tokens, Issued

LEMMA FitKept ==
    ASSUME Grows, NEW r \in Slots, Fit(req[r]), req'[r] = req[r]
    PROVE  Fit(req[r])'
  BY DEF Grows, Fit, Request

LEMMA FitIdle ==
    ASSUME NEW r \in Slots, req'[r] = Idle
    PROVE  Fit(req[r])'
  BY NoneIsNothing DEF Fit, Request, Idle

LEMMA FitUnwaited ==
    ASSUME Grows, NEW r \in Slots, Fit(req[r]), req'[r] = [req[r] EXCEPT !.waiting = FALSE]
    PROVE  Fit(req[r])'
  BY DEF Grows, Fit, Request

\* Requests are heard, given up or lost, and nothing new is asked.
Ebbs ==
    /\ req' = [s \in Slots |-> req'[s]]
    /\ \A s \in Slots : req'[s] \in {req[s], Idle, [req[s] EXCEPT !.waiting = FALSE]}

LEMMA EbbsFit ==
    ASSUME RequestsInv, Grows, Ebbs
    PROVE  RequestsInv'
  <1>1. ASSUME NEW s \in Slots PROVE Fit(req[s])'
    BY FitKept, FitIdle, FitUnwaited DEF RequestsInv, Ebbs
  <1>2. QED
    BY <1>1 DEF Ebbs, RequestsInv

\* What is waited for was, and what is still to be served was.
LEMMA EbbsFewer ==
    ASSUME RequestsInv, Ebbs, NEW s \in Slots
    PROVE  /\ req'[s].waiting => req'[s] = req[s]
           /\ Unserved(s)' => Unserved(s) /\ req'[s].kind = req[s].kind /\ req'[s].as = req[s].as
           /\ req'[s].kind \in {req[s].kind, "idle"}
  <1>1. req[s] \in Request
    BY DEF RequestsInv, Fit
  <1>2. CASE req'[s] = req[s]
    BY <1>2 DEF Unserved
  <1>3. CASE req'[s] = Idle
    BY <1>3 DEF Unserved, Idle
  <1>4. CASE req'[s] = [req[s] EXCEPT !.waiting = FALSE]
    BY <1>1, <1>4 DEF Unserved, Request
  <1>5. QED
    BY <1>2, <1>3, <1>4 DEF Ebbs

LEMMA OneEbbs ==
    ASSUME RequestsInv, NEW r \in Slots, Heard(r) \/ GivenUp(r) \/ Lost(r)
    PROVE  Ebbs /\ ~req'[r].waiting /\ \A s \in Slots \ {r} : req'[s] = req[s]
  <1>1. req[r] \in Request
    BY DEF RequestsInv, Fit
  <1>2. CASE Heard(r) \/ Lost(r)
    BY <1>2 DEF Heard, Lost, Ebbs, RequestsInv, Idle
  <1>3. CASE GivenUp(r)
    BY <1>1, <1>3 DEF GivenUp, Ebbs, RequestsInv, Idle, Request
  <1>4. QED
    BY <1>2, <1>3

LEMMA RestartEbbs ==
    ASSUME RequestsInv, Restarted
    PROVE  Ebbs /\ \A s \in Slots : ~req'[s].waiting
  <1>1. \A s \in Slots : req[s] \in Request
    BY DEF RequestsInv, Fit
  <1>2. req' = [s \in Slots |-> IF Unserved(s) THEN [req[s] EXCEPT !.waiting = FALSE] ELSE Idle]
    BY DEF Restarted
  <1>3. QED
    BY <1>1, <1>2 DEF Ebbs, Idle, Request

LEMMA SameEbbs == ASSUME RequestsInv, UNCHANGED req PROVE Ebbs
  BY DEF RequestsInv, Ebbs

\* A new request, with the token there is.
LEMMA OneSent ==
    ASSUME TypeInv, Grows, NEW r \in Slots, NEW as \in Issued \cup {None},
           NEW kind \in {"order", "me", "register", "signOut"},
           kind = "me" => as # None, kind = "signOut" => as = None /\ token \in left',
           Sends(r, kind, as)
    PROVE  /\ RequestsInv' /\ req[r] = Idle /\ \A s \in Slots \ {r} : req'[s] = req[s]
           /\ req'[r].kind = kind /\ req'[r].as = as /\ req'[r].of = token /\ req'[r].waiting
           /\ req'[r].answer = None
  <1>2. /\ req[r] = Idle
        /\ req' = [req EXCEPT ![r] = [kind |-> kind, as |-> as, of |-> token, waiting |-> TRUE,
                                      alone |-> FALSE, answer |-> None]]
    BY DEF Sends
  <1>3. /\ req'[r] = [kind |-> kind, as |-> as, of |-> token, waiting |-> TRUE, alone |-> FALSE,
                      answer |-> None]
        /\ req' = [s \in Slots |-> req'[s]] /\ \A s \in Slots \ {r} : req'[s] = req[s]
    BY <1>2 DEF TypeInv, RequestsInv
  <1>4. Fit(req[r])'
    <2>1. token \in Issued' \cup {None, Restoring} /\ as \in Issued' \cup {None}
      BY DEF Grows, TypeInv, PhoneTyped
    <2>2. QED
      BY <1>2, <1>3, <2>1, NoneIsNothing DEF Fit, Request
  <1>5. RequestsInv'
    BY <1>3, <1>4, FitKept DEF TypeInv, RequestsInv
  <1>6. QED
    BY <1>2, <1>3, <1>5

\* A request is served once, and what comes back says whether it was done.
LEMMA Served ==
    ASSUME TypeInv, NEW r \in Slots, Serve(r)
    PROVE  /\ Grows /\ Issued' = Issued /\ dead' \subseteq Issued /\ RequestsInv'
           /\ UNCHANGED <<day, issued, who, push, installed, storage, app, restarts, left, registered,
                          quiet, strayed>>
           /\ \A s \in Slots \ {r} : req'[s] = req[s]
           /\ Unserved(r) /\ ~Unserved(r)'
           /\ IF req[r].waiting
              THEN /\ req'[r].waiting /\ req'[r].kind = req[r].kind /\ req'[r].as = req[r].as
                   /\ req'[r].of = req[r].of /\ req'[r].alone = req[r].alone
                   /\ req'[r].answer = Refused(req[r])
              ELSE req'[r] = Idle
           /\ Refused(req[r]) = "ok" => req[r].as \in Issued \ dead'
           /\ Refused(req[r]) = "expired" => req[r].as \in dead' \cup {None}
           /\ req[r].kind # "order" => Refused(req[r]) # "wrongRole"
  <1>1. Fit(req[r]) /\ req[r] \in Request
    BY DEF TypeInv, RequestsInv, Fit
  <1>2. /\ dead' = dead \/ (req[r].as \notin {None} /\ dead' = dead \cup {req[r].as})
        /\ Unserved(r)
        /\ UNCHANGED <<day, issued, who, push, installed, storage, app, restarts, left, registered,
                       quiet, strayed>>
    BY DEF Serve
  <1>3. Issued' = Issued /\ dead' \subseteq Issued /\ dead \subseteq dead' /\ Grows
    BY <1>1, <1>2 DEF Grows, TypeInv, TokensInv, Request, Issued
  <1> DEFINE a == Refused(req[r])
             q == IF req[r].waiting THEN [req[r] EXCEPT !.answer = a] ELSE Idle
  <1>4. req' = [req EXCEPT ![r] = q]
    BY DEF Serve
  <1>5. req'[r] = q /\ req' = [s \in Slots |-> req'[s]] /\ \A s \in Slots \ {r} : req'[s] = req[s]
    BY <1>4 DEF TypeInv, RequestsInv
  <1>6. /\ a \in {"ok", "expired", "wrongRole"}
        /\ a = "ok" => req[r].as # None /\ req[r].as \notin dead'
        /\ a = "expired" => req[r].as \in dead' \cup {None}
        /\ a = "wrongRole" => req[r].kind = "order" /\ req[r].as # None /\ who[req[r].as] \notin Customers
    BY DEF Refused, WrongRole
  <1> HIDE DEF a
  <1>7. IF req[r].waiting
        THEN /\ req'[r].waiting /\ req'[r].kind = req[r].kind /\ req'[r].as = req[r].as
             /\ req'[r].of = req[r].of /\ req'[r].alone = req[r].alone /\ req'[r].answer = a
        ELSE req'[r] = Idle
    BY <1>1, <1>5 DEF Request
  <1>8. ~Unserved(r)'
    BY <1>6, <1>7, NoneIsNothing DEF Unserved, Idle
  <1>9. Fit(req[r])'
    <2>1. CASE ~req[r].waiting
      BY <1>5, <2>1, FitIdle
    <2>2. CASE req[r].waiting
      <3>1. req'[r] = [req[r] EXCEPT !.answer = a]
        BY <1>5, <2>2
      <3>2. who' = who /\ left' = left
        BY <1>2
      <3>3. req[r].kind # "signOut"
        BY <1>2 DEF Unserved
      <3>4. QED
        BY <1>1, <1>3, <1>6, <3>1, <3>2, <3>3, NoneIsNothing DEF Fit, Request
    <2>3. QED
      BY <2>1, <2>2
  <1>10. RequestsInv'
    BY <1>3, <1>5, <1>9, FitKept DEF TypeInv, RequestsInv
  <1>11. a = "ok" => req[r].as \in Issued \ dead'
    BY <1>1, <1>6 DEF Request
  <1>12. QED
    BY <1>2, <1>3, <1>5, <1>6, <1>7, <1>8, <1>10, <1>11 DEF a

-----------------------------------------------------------------------------
(* Type correctness, step by step *)

LEMMA TypeInit == Init => TypeInv
  <1> SUFFICES ASSUME Init PROVE TypeInv
    OBVIOUS
  <1>1. issued \in {0, 1} /\ MaxSessions >= 1
    BY BoundsAssumption DEF Init
  <1>2. PICK u \in Holders : who = [s \in Sessions |-> IF s <= issued THEN u ELSE None]
    BY DEF Init
  <1>3. Issued = {} \/ Issued = {1}
    BY <1>1 DEF Issued
  <1>4. issued = 1 => who[1] = u /\ 1 \in Issued
    BY <1>1, <1>2, BoundsAssumption DEF Sessions, Issued
  <1>5. TokensInv
    BY <1>1, <1>2, <1>3, <1>4, CustomersAreUsers, BoundsAssumption
    DEF Init, TokensInv, Issued, Sessions
  <1>6. ServerTyped
    BY <1>1, <1>4, CustomersAreUsers DEF Init, ServerTyped
  <1>7. disk \in Issued \cup {None}
    BY <1>1, <1>4 DEF Init
  <1>8. legacy \in BOOLEAN
    <2>1. PICK b : b = (disk # None)
      OBVIOUS
    <2>2. b \in BOOLEAN
      BY <2>1
    <2>3. legacy \in {FALSE, b}
      BY <2>1, Zenon DEF Init
    <2>4. QED
      BY <2>2, <2>3
  <1>9. PhoneTyped
    BY <1>7, <1>8 DEF Init, PhoneTyped
  <1>10. HistoryTyped
    BY DEF Init, HistoryTyped
  <1>11. RequestsInv
    BY NoneIsNothing DEF Init, RequestsInv, Fit, Request, Idle
  <1>12. QED
    BY <1>5, <1>6, <1>9, <1>10, <1>11 DEF TypeInv

\* A token is a number from one on, and neither null nor `undefined`.
LEMMA IssuedFacts ==
    ASSUME TokensInv
    PROVE  issued \in Nat /\ Issued \subseteq Nat /\ Restoring \notin Issued /\ None \notin Issued \cup {Restoring}
  <1>1. issued \in Nat /\ issued <= MaxSessions /\ MaxSessions \in Nat
    BY BoundsAssumption DEF TokensInv
  <1>2. Issued \subseteq Sessions /\ Issued \subseteq Nat /\ Restoring \notin Issued
    BY <1>1 DEF Issued, Sessions, Restoring
  <1>3. None \notin Sessions \cup {Restoring}
    BY NoneIsNothing
  <1>4. QED
    BY <1>1, <1>2, <1>3

\* Where no token is issued or dies.
LEMMA SameTokens == ASSUME TokensInv, UNCHANGED tokens PROVE TokensInv'
  BY DEF TokensInv, tokens, Issued

LEMMA HistoryKept ==
    ASSUME HistoryTyped, UNCHANGED <<history, issued>>
    PROVE  HistoryTyped'
  BY DEF HistoryTyped, history, Issued

LEMMA PhoneKept ==
    ASSUME PhoneTyped, UNCHANGED <<installed, storage, app, restarts, issued>>
    PROVE  PhoneTyped'
  BY DEF PhoneTyped, storage, app, Issued

LEMMA ServerTypeStep ==
    ASSUME TypeInv, \/ notifyUser \/ send \/ drop
                    \/ \E r \in Slots : Serve(r) \/ Lost(r)
    PROVE  TypeInv'
  <1>1. CASE notifyUser \/ send \/ drop
    <2>1. UNCHANGED <<tokens, installed, storage, app, req, restarts, history>>
      BY <1>1 DEF notifyUser, send, drop
    <2>2. ServerTyped'
      BY <1>1 DEF TypeInv, ServerTyped, notifyUser, send, drop
    <2>3. UNCHANGED <<issued, left>>
      BY <2>1 DEF tokens, history
    <2>4. TokensInv' /\ PhoneTyped' /\ HistoryTyped'
      BY <2>1, <2>3, SameTokens, PhoneKept, HistoryKept DEF TypeInv
    <2>5. RequestsInv'
      BY <2>1, <2>3, SameGrows, SameEbbs, EbbsFit DEF TypeInv
    <2>6. QED
      BY <2>2, <2>4, <2>5 DEF TypeInv
  <1>2. ASSUME NEW r \in Slots, Lost(r) PROVE TypeInv'
    <2>1. UNCHANGED <<tokens, owner, push, installed, storage, app, restarts, history>>
      BY <1>2 DEF Lost
    <2>2. UNCHANGED <<issued, left>>
      BY <2>1 DEF tokens, history
    <2>3. TokensInv' /\ PhoneTyped' /\ HistoryTyped' /\ ServerTyped'
      BY <2>1, <2>2, SameTokens, PhoneKept, HistoryKept DEF TypeInv, ServerTyped
    <2>4. RequestsInv'
      BY <1>2, <2>1, <2>2, SameGrows, OneEbbs, EbbsFit DEF TypeInv
    <2>5. QED
      BY <2>3, <2>4 DEF TypeInv
  <1>3. ASSUME NEW r \in Slots, Serve(r) PROVE TypeInv'
    <2>1. /\ Grows /\ Issued' = Issued /\ dead' \subseteq Issued /\ RequestsInv'
          /\ UNCHANGED <<day, issued, who, push, installed, storage, app, restarts, left, registered,
                         quiet, strayed>>
          /\ Refused(req[r]) = "ok" => req[r].as \in Issued \ dead'
      BY <1>3, Served
    <2>2. TokensInv' /\ PhoneTyped'
      BY <2>1, PhoneKept DEF TypeInv, TokensInv
    <2>3. late' \in BOOLEAN
      BY <1>3 DEF Serve
    <2>4. HistoryTyped'
      BY <2>1, <2>3 DEF TypeInv, HistoryTyped
    <2>5. owner' \in {owner, None} \/ (Refused(req[r]) = "ok" /\ owner' = who[req[r].as])
      BY <1>3 DEF Serve, registerDevice, unregisterOwnDevice
    <2>6. ServerTyped'
      BY <2>1, <2>5 DEF TypeInv, TokensInv, ServerTyped
    <2>7. QED
      BY <2>1, <2>2, <2>4, <2>6 DEF TypeInv
  <1>4. QED
    BY <1>1, <1>2, <1>3

-----------------------------------------------------------------------------
(* What the steps of the app change *)

LEMMA FrameType ==
    ASSUME TypeInv, UNCHANGED <<tokens, owner, push>>, RequestsInv',
           installed' \in BOOLEAN, restarts' \in Nat, disk' \in {disk, None}, legacy' \in BOOLEAN,
           authToken' \in {authToken, disk, None}, token' \in Issued \cup {None, Restoring},
           saving' \in {saving, None}, prompts' \in Nat, left' \subseteq Issued,
           registered' \in Issued \cup {None}, late' = late, strayed' \in BOOLEAN,
           quiet' \in Users \cup {None}
    PROVE  TypeInv'
  <1>1. TokensInv' /\ ServerTyped' /\ Issued' = Issued
    BY SameTokens DEF TypeInv, ServerTyped, tokens, Issued
  <1>2. PhoneTyped' /\ HistoryTyped'
    BY <1>1 DEF TypeInv, PhoneTyped, HistoryTyped
  <1>3. QED
    BY <1>1, <1>2 DEF TypeInv

\* Dead, or never a customer's.
Spent(s) == s \in dead \/ who[s] \notin Customers

\* Why the session on the phone ended when the request was heard.
Ended(r) ==
    /\ EndSession
    /\ \/ req[r].kind = "me" /\ strayed' = strayed /\ Spent(req[r].as)
       \/ /\ req[r].kind \in {"order", "register"} /\ authToken # None
          /\ strayed' \/ Spent(authToken)
       \/ /\ req[r].kind \in {"signOut", "unregister"}
          /\ \A s \in {token, authToken} : s \in {req[r].of, None} \/ strayed'

\* A request of the app is heard, or given up.
Hearing(r) ==
    \/ hearOrder(r) \/ hearMe(r) \/ connectMeFails(r) \/ hearRegistered(r)
    \/ hearUnregistered(r) \/ connectionFails(r)

LEMMA HearingShape ==
    ASSUME TypeInv, NEW r \in Slots, Hearing(r)
    PROVE  /\ UNCHANGED <<tokens, owner, push, installed, saving, prompts, restarts, left, late>>
           /\ Ebbs /\ req[r].waiting /\ ~req'[r].waiting /\ \A s \in Slots \ {r} : req'[s] = req[s]
           /\ strayed' \in BOOLEAN /\ (strayed => strayed')
           /\ \/ UNCHANGED <<authToken, storage, token>>
              \/ Ended(r)
              \/ /\ req[r].kind = "me" /\ req[r].as \in Issued /\ token' = req[r].as
                 /\ UNCHANGED <<authToken, storage>>
           /\ \/ registered' = registered
              \/ /\ req[r].kind = "register" /\ req[r].answer = "ok" /\ req[r].as = authToken
                 /\ registered' = authToken /\ UNCHANGED <<authToken, storage, token>>
           /\ \/ quiet' = quiet
              \/ /\ req[r].kind = "unregister" /\ req[r].alone /\ req[r].of \notin dead /\ ~strayed'
                 /\ token = req[r].of /\ req[r].answer # None /\ quiet' = who[req[r].of] /\ Ended(r)
  <1>1. Fit(req[r]) /\ req[r] \in Request /\ RequestsInv /\ strayed \in BOOLEAN
    BY DEF TypeInv, RequestsInv, Fit, HistoryTyped
  <1>2. req[r].waiting /\ (Heard(r) \/ GivenUp(r))
    BY DEF Hearing, hearOrder, hearMe, connectMeFails, meFails, hearRegistered, hearUnregistered,
           connectionFails
  <1>3. Ebbs /\ ~req'[r].waiting /\ \A s \in Slots \ {r} : req'[s] = req[s]
    BY <1>1, <1>2, OneEbbs
  <1>4. ASSUME req[r].kind \in {"order", "register"}, req[r].answer \notin {None, "ok"}, CallRefused(r)
        PROVE  /\ UNCHANGED <<authToken, storage, token, strayed>> \/ Ended(r)
               /\ strayed' \in BOOLEAN /\ (strayed => strayed')
    <2>1. CASE authToken = None
      BY <1>1, <1>4, <2>1 DEF CallRefused
    <2>2. CASE authToken # None
      <3>1. EndSession /\ strayed' = (strayed \/ Strays(r))
        BY <1>4, <2>2 DEF CallRefused
      <3>2. strayed' \in BOOLEAN /\ (strayed => strayed') /\ (Strays(r) => strayed')
        BY <1>1, <3>1
      <3>3. ~Strays(r) => Spent(authToken)
        BY <1>1, <1>4, <2>2 DEF Strays, Spent, Fit, Request
      <3>4. QED
        BY <1>4, <2>2, <3>1, <3>2, <3>3 DEF Ended
    <2>3. QED
      BY <2>1, <2>2
  <1>5. ASSUME req[r].kind \in {"signOut", "unregister"}, SignedOut(r)
        PROVE  Ended(r) /\ strayed' \in BOOLEAN /\ (strayed => strayed')
    BY <1>1, <1>5 DEF SignedOut, Ended
  <1>6. CASE hearOrder(r)
    <2>1. /\ UNCHANGED <<tokens, owner, push, installed, saving, prompts, restarts, left, late,
                         registered, quiet>>
          /\ req[r].kind = "order"
          /\ \/ UNCHANGED <<authToken, storage, token, strayed>>
             \/ CallRefused(r) /\ req[r].answer \notin {None, "ok"}
      BY <1>6 DEF hearOrder
    <2>2. QED
      BY <1>1, <1>2, <1>3, <1>4, <2>1
  <1>7. CASE hearMe(r)
    <2>1. /\ UNCHANGED <<tokens, owner, push, installed, saving, prompts, restarts, left, late,
                         registered, quiet, strayed>>
          /\ req[r].kind = "me"
          /\ \/ token' = req[r].as /\ UNCHANGED <<authToken, storage>>
             \/ /\ EndSession
                /\ ~(req[r].answer = "ok" /\ who[req[r].as] \in Customers) /\ req[r].answer # None
      BY <1>7 DEF hearMe, history
    <2>2. req[r].as \in Issued
      BY <1>1, <2>1 DEF Fit, Request
    <2>3. \/ token' = req[r].as /\ UNCHANGED <<authToken, storage>>
          \/ Ended(r)
      BY <1>1, <2>1, <2>2, NoneIsNothing DEF Ended, Spent, Fit, Request
    <2>4. QED
      BY <1>1, <1>2, <1>3, <2>1, <2>2, <2>3
  <1>8. CASE connectMeFails(r)
    <2>1. /\ UNCHANGED <<tokens, owner, push, installed, saving, prompts, restarts, left, late,
                         registered, quiet, strayed>>
          /\ req[r].kind = "me" /\ token' = req[r].as /\ UNCHANGED <<authToken, storage>>
      BY <1>8 DEF connectMeFails, meFails, history
    <2>2. req[r].as \in Issued
      BY <1>1, <2>1 DEF Fit, Request
    <2>3. QED
      BY <1>1, <1>2, <1>3, <2>1, <2>2
  <1>9. CASE hearRegistered(r)
    <2>1. /\ UNCHANGED <<tokens, owner, push, installed, saving, prompts, restarts, left, late, quiet>>
          /\ req[r].kind = "register"
          /\ \/ /\ UNCHANGED <<authToken, storage, token, strayed>> /\ req[r].answer = "ok"
                /\ registered' = IF req[r].as = authToken THEN req[r].as ELSE registered
             \/ CallRefused(r) /\ req[r].answer \notin {None, "ok"} /\ registered' = registered
      BY <1>9 DEF hearRegistered
    <2>2. QED
      BY <1>1, <1>2, <1>3, <1>4, <2>1
  <1>10. CASE hearUnregistered(r)
    <2>1. /\ UNCHANGED <<tokens, owner, push, installed, saving, prompts, restarts, left, late,
                         registered>>
          /\ req[r].kind = "unregister" /\ SignedOut(r) /\ req[r].answer # None
          /\ quiet' = IF req[r].alone /\ req[r].of \notin dead /\ ~strayed' /\ token = req[r].of
                      THEN who[req[r].of] ELSE quiet
      BY <1>10 DEF hearUnregistered
    <2>2. Ended(r) /\ strayed' \in BOOLEAN /\ (strayed => strayed')
      BY <1>5, <2>1
    <2>3. QED
      BY <1>2, <1>3, <2>1, <2>2
  <1>11. CASE connectionFails(r)
    <2>1. /\ UNCHANGED <<tokens, owner, push, installed, saving, prompts, restarts, left, late,
                         registered, quiet>>
          /\ \/ req[r].kind \in {"signOut", "unregister"} /\ SignedOut(r)
             \/ UNCHANGED <<authToken, storage, token, strayed>>
      BY <1>11 DEF connectionFails
    <2>2. QED
      BY <1>1, <1>2, <1>3, <1>5, <2>1
  <1>12. QED
    BY <1>6, <1>7, <1>8, <1>9, <1>10, <1>11 DEF Hearing

\* A request of the shell is made, with the token there is; or a sign-out starts, which has none yet.
Asking(r) == order(r) \/ registerForPush(r) \/ handleSignOut(r)

LEMMA AskingShape ==
    ASSUME TypeInv, NEW r \in Slots, Asking(r)
    PROVE  /\ UNCHANGED <<tokens, owner, push, installed, storage, authToken, token, saving, restarts,
                          registered, late, quiet, strayed>>
           /\ RequestsInv' /\ req[r] = Idle /\ \A s \in Slots \ {r} : req'[s] = req[s]
           /\ req'[r].as \in {authToken, None} /\ req'[r].of = token /\ req'[r].waiting
           /\ req'[r].answer = None
           /\ \/ /\ req'[r].kind = "order" /\ token \in Issued /\ UNCHANGED <<prompts, left>>
              \/ /\ req'[r].kind = "register" /\ left' = left
                 /\ prompts > 0 /\ prompts' = prompts - 1
              \/ /\ req'[r].kind = "signOut" /\ token \in Issued /\ prompts' = prompts
                 /\ left' = left \cup {token}
  <1>1. token \in Sessions => token \in Issued
    BY NoneIsNothing DEF TypeInv, PhoneTyped, Restoring, Sessions
  <1>2. authToken \in Issued \cup {None}
    BY DEF TypeInv, PhoneTyped
  <1>3. CASE order(r)
    <2>1. /\ UNCHANGED <<tokens, owner, push, installed, storage, authToken, token, saving, restarts,
                         registered, late, quiet, strayed, prompts, left>>
          /\ token \in Issued /\ Sends(r, "order", authToken)
      BY <1>1, <1>3 DEF order, app, history
    <2>2. Grows
      BY <2>1, SameGrows
    <2>3. QED
      BY <1>2, <2>1, <2>2, OneSent
  <1>4. CASE registerForPush(r)
    <2>1. /\ UNCHANGED <<tokens, owner, push, installed, storage, authToken, token, saving, restarts,
                         registered, late, quiet, strayed, left>>
          /\ Sends(r, "register", authToken) /\ prompts > 0 /\ prompts' = prompts - 1
      BY <1>4 DEF registerForPush, history
    <2>2. Grows
      BY <2>1, SameGrows
    <2>3. QED
      BY <1>2, <2>1, <2>2, OneSent
  <1>5. CASE handleSignOut(r)
    <2>1. /\ UNCHANGED <<tokens, owner, push, installed, storage, authToken, token, saving, restarts,
                         registered, late, quiet, strayed, prompts>>
          /\ token \in Issued /\ Sends(r, "signOut", None) /\ left' = left \cup {token}
      BY <1>1, <1>5 DEF handleSignOut, app
    <2>2. Grows
      BY <2>1 DEF Grows, tokens, Issued
    <2>3. QED
      BY <1>2, <2>1, <2>2, OneSent
  <1>6. QED
    BY <1>3, <1>4, <1>5 DEF Asking

\* A sign-out makes its call, with the token there is by then.
LEMMA UnregisterShape ==
    ASSUME TypeInv, NEW r \in Slots, unregisterFromPush(r)
    PROVE  /\ UNCHANGED <<tokens, owner, push, installed, storage, app, restarts, history>>
           /\ RequestsInv' /\ \A s \in Slots \ {r} : req'[s] = req[s]
           /\ req[r].kind = "signOut" /\ req'[r].kind = "unregister" /\ req'[r].as = authToken
           /\ req'[r].of = req[r].of /\ req'[r].waiting = req[r].waiting /\ req'[r].answer = None
           /\ (req'[r].alone => ~Registering)
  <1>1. /\ UNCHANGED <<tokens, owner, push, installed, storage, app, restarts, history>>
        /\ req[r].kind = "signOut"
    BY DEF unregisterFromPush
  <1>2. Fit(req[r]) /\ req[r] \in Request /\ authToken \in Issued \cup {None}
    BY DEF TypeInv, RequestsInv, Fit, PhoneTyped
  <1>3. PICK alone : alone = ~Registering
    OBVIOUS
  <1>4. alone \in BOOLEAN /\ (alone => ~Registering)
    BY <1>3
  <1>5. req' = [req EXCEPT ![r].kind = "unregister", ![r].as = authToken, ![r].alone = alone]
    BY <1>3, Zenon DEF unregisterFromPush, signOutToken
  <1>6. /\ req' = [s \in Slots |-> req'[s]] /\ \A s \in Slots \ {r} : req'[s] = req[s]
        /\ req'[r] = [req[r] EXCEPT !.kind = "unregister", !.as = authToken, !.alone = alone]
    BY <1>5 DEF TypeInv, RequestsInv
  <1>7. /\ req'[r] \in Request /\ req'[r].kind = "unregister" /\ req'[r].as = authToken
        /\ req'[r].of = req[r].of /\ req'[r].waiting = req[r].waiting /\ req'[r].answer = None
        /\ req'[r].alone = alone
    BY <1>1, <1>2, <1>4, <1>6 DEF Request, Fit
  <1>8. Grows /\ Issued' = Issued /\ UNCHANGED <<left, who, dead>>
    BY <1>1, SameGrows DEF tokens, history
  <1>9. Fit(req[r])'
    BY <1>1, <1>2, <1>7, <1>8, NoneIsNothing DEF Fit, Request
  <1>10. RequestsInv'
    BY <1>6, <1>8, <1>9, FitKept DEF TypeInv, RequestsInv
  <1>11. QED
    BY <1>1, <1>4, <1>6, <1>7, <1>10

LEMMA UnregisterType ==
    ASSUME TypeInv, NEW r \in Slots, unregisterFromPush(r)
    PROVE  TypeInv'
  <1>1. UNCHANGED <<tokens, owner, push, installed, storage, app, restarts, history>> /\ RequestsInv'
    BY UnregisterShape
  <1>2. UNCHANGED issued
    BY <1>1 DEF tokens
  <1>3. TokensInv' /\ PhoneTyped' /\ HistoryTyped' /\ ServerTyped'
    BY <1>1, <1>2, SameTokens, PhoneKept, HistoryKept DEF TypeInv, ServerTyped
  <1>4. QED
    BY <1>1, <1>3 DEF TypeInv

LEMMA HearingType ==
    ASSUME TypeInv, NEW r \in Slots, Hearing(r)
    PROVE  TypeInv'
  <1>1. /\ UNCHANGED <<tokens, owner, push, installed, saving, prompts, restarts, left, late>>
        /\ Ebbs /\ strayed' \in BOOLEAN
        /\ \/ UNCHANGED <<authToken, storage, token>>
           \/ Ended(r)
           \/ req[r].as \in Issued /\ token' = req[r].as /\ UNCHANGED <<authToken, storage>>
    BY HearingShape
  <1>0. /\ registered' = registered \/ registered' = authToken
        /\ quiet' = quiet \/ (quiet' = who[req[r].of] /\ req[r].kind = "unregister")
    BY HearingShape
  <1>2. RequestsInv'
    BY <1>1, SameGrows, EbbsFit DEF TypeInv
  <1>3. Fit(req[r])
    BY DEF TypeInv, RequestsInv
  <1>4. quiet' \in Users \cup {None}
    BY <1>0, <1>3 DEF TypeInv, Fit, HistoryTyped, TokensInv
  <1>5. /\ authToken' \in {authToken, None} /\ disk' \in {disk, None} /\ legacy' \in BOOLEAN
        /\ token' \in Issued \cup {None, Restoring}
    BY <1>1 DEF TypeInv, PhoneTyped, Ended, EndSession, clearToken, storage
  <1>6. QED
    BY <1>0, <1>1, <1>2, <1>4, <1>5, FrameType DEF TypeInv, PhoneTyped, HistoryTyped

LEMMA AskingType ==
    ASSUME TypeInv, NEW r \in Slots, Asking(r)
    PROVE  TypeInv'
  <1>1. /\ UNCHANGED <<tokens, owner, push, installed, storage, authToken, token, saving, restarts,
                       registered, late, quiet, strayed>>
        /\ RequestsInv'
        /\ \/ token \in Issued /\ UNCHANGED <<prompts, left>>
           \/ left' = left /\ prompts > 0 /\ prompts' = prompts - 1
           \/ token \in Issued /\ prompts' = prompts /\ left' = left \cup {token}
    BY AskingShape
  <1>2. prompts' \in Nat /\ left' \subseteq Issued
    BY <1>1 DEF TypeInv, PhoneTyped, HistoryTyped
  <1>3. UNCHANGED <<disk, legacy>>
    BY <1>1 DEF storage
  <1>4. QED
    BY <1>1, <1>2, <1>3, FrameType DEF TypeInv, PhoneTyped, HistoryTyped

\* The saved session is asked about, or there is none to ask about.
LEMMA RestoreShape ==
    ASSUME TypeInv, NEW r \in Slots, restore(r)
    PROVE  /\ UNCHANGED <<tokens, owner, push, installed, saving, prompts, restarts, history>>
           /\ installed /\ token = Restoring /\ RequestsInv'
           /\ \A s \in Slots : req[s].waiting => req[s].kind # "me"
           /\ \/ token' = None /\ UNCHANGED <<authToken, req, storage>>
              \/ /\ token' = token /\ disk \in Issued /\ authToken' = disk /\ disk' \in {disk, None}
                 /\ legacy' = FALSE
                 /\ req[r] = Idle /\ \A s \in Slots \ {r} : req'[s] = req[s]
                 /\ req'[r].kind = "me" /\ req'[r].as = disk /\ req'[r].waiting
                 /\ req'[r].answer = None
  <1>1. /\ UNCHANGED <<tokens, owner, push, installed, saving, prompts, restarts, history>>
        /\ installed /\ token = Restoring /\ UNCHANGED left
        /\ \A s \in Slots : req[s].waiting => req[s].kind # "me"
    BY DEF restore, history
  <1>2. Grows
    BY <1>1, SameGrows
  <1>3. CASE token' = None /\ UNCHANGED <<authToken, req, storage>>
    <2>1. RequestsInv'
      BY <1>2, <1>3, SameEbbs, EbbsFit DEF TypeInv
    <2>2. QED
      BY <1>1, <1>3, <2>1
  <1>4. ASSUME NEW t \in loadToken \ {None}, authToken' = t, Sends(r, "me", t),
               migrateLegacyToken, legacy' = FALSE, UNCHANGED token
        PROVE  /\ RequestsInv' /\ token' = token /\ disk \in Issued /\ authToken' = disk
               /\ disk' \in {disk, None} /\ legacy' = FALSE
               /\ req[r] = Idle /\ \A s \in Slots \ {r} : req'[s] = req[s]
               /\ req'[r].kind = "me" /\ req'[r].as = disk /\ req'[r].waiting
               /\ req'[r].answer = None
    <2>1. t = disk /\ disk \in Issued
      BY DEF loadToken, TypeInv, PhoneTyped
    <2>2. /\ RequestsInv' /\ req[r] = Idle /\ \A s \in Slots \ {r} : req'[s] = req[s]
          /\ req'[r].kind = "me" /\ req'[r].as = t /\ req'[r].waiting /\ req'[r].answer = None
      BY <1>2, <1>4, <2>1, OneSent
    <2>3. QED
      BY <1>4, <2>1, <2>2 DEF migrateLegacyToken
  <1>5. \/ token' = None /\ UNCHANGED <<authToken, req, storage>>
        \/ \E t \in loadToken \ {None} :
              authToken' = t /\ Sends(r, "me", t) /\ migrateLegacyToken /\ legacy' = FALSE /\ UNCHANGED token
    BY DEF restore
  <1>6. QED
    BY <1>1, <1>3, <1>4, <1>5

LEMMA RestoreType ==
    ASSUME TypeInv, NEW r \in Slots, restore(r)
    PROVE  TypeInv'
  <1>1. /\ UNCHANGED <<tokens, owner, push, installed, saving, prompts, restarts, history>>
        /\ token = Restoring /\ RequestsInv'
        /\ \/ token' = None /\ UNCHANGED <<authToken, req, storage>>
           \/ /\ token' = token /\ authToken' = disk /\ disk' \in {disk, None} /\ legacy' = FALSE
    BY RestoreShape
  <1>2. QED
    BY <1>1, FrameType DEF TypeInv, PhoneTyped, HistoryTyped, history, storage

\* A new session is of a customer, and the newest.
LEMMA VerifyShape ==
    ASSUME TypeInv, NEW u \in Customers, handleVerify(u)
    PROVE  /\ TypeInv' /\ token = None /\ saving = None /\ UNCHANGED <<dead, token, req, strayed>>
           /\ UNCHANGED <<owner, push, installed, prompts, left>>
           /\ Grows /\ issued' = issued + 1 /\ issued' # None
           /\ Issued' = Issued \cup {issued'} /\ issued' \notin Issued
           /\ authToken' = issued' /\ saving' = issued' /\ disk' \in {disk, issued'}
           /\ who'[issued'] = u /\ registered' = None /\ late' = FALSE
           /\ quiet' = IF quiet = u THEN None ELSE quiet
  <1>1. /\ token = None /\ saving = None /\ issued < MaxSessions /\ issued' = issued + 1
        /\ who' = [who EXCEPT ![issued + 1] = u] /\ registered' = None /\ late' = FALSE
        /\ UNCHANGED <<day, dead, owner, push, installed, token, prompts, req, restarts, left, strayed>>
        /\ quiet' = IF quiet = u THEN None ELSE quiet
        /\ authToken' = issued' /\ saving' = issued'
        /\ (disk' = issued' /\ legacy' = FALSE) \/ UNCHANGED <<disk, legacy>>
    BY DEF handleVerify, handleSignedIn, saveToken, storage
  <1>2. issued \in Nat /\ MaxSessions \in Nat /\ issued + 1 \in Sessions
    BY <1>1, BoundsAssumption DEF TypeInv, TokensInv, Sessions
  <1>3. Issued' = Issued \cup {issued'} /\ issued' \notin Issued
    BY <1>1, <1>2 DEF Issued
  <1>4. who'[issued'] = u /\ \A s \in Issued : who'[s] = who[s]
    BY <1>1, <1>2, <1>3 DEF TypeInv, TokensInv
  <1>5. Grows
    BY <1>1, <1>3, <1>4 DEF Grows
  <1>6. TokensInv'
    <2>1. issued' \in 0..MaxSessions
      BY <1>1, <1>2
    <2>2. who' \in [Sessions -> Users \cup {None}]
      BY <1>1, CustomersAreUsers DEF TypeInv, TokensInv
    <2>3. \A s \in Issued' : who'[s] \in Users /\ (s # 1 => who'[s] \in Customers)
      BY <1>3, <1>4, CustomersAreUsers DEF TypeInv, TokensInv
    <2>4. QED
      BY <1>1, <1>3, <2>1, <2>2, <2>3 DEF TypeInv, TokensInv
  <1>7. RequestsInv'
    BY <1>1, <1>5, SameEbbs, EbbsFit DEF TypeInv
  <1>8. PhoneTyped' /\ HistoryTyped' /\ ServerTyped'
    BY <1>1, <1>3, NoneIsNothing DEF TypeInv, PhoneTyped, HistoryTyped, ServerTyped
  <1>9. issued' # None
    BY <1>1, <1>2, NoneIsNothing
  <1>10. QED
    BY <1>1, <1>3, <1>4, <1>5, <1>6, <1>7, <1>8, <1>9 DEF TypeInv

\* Steps that neither ask anything nor hear of it.
Settling == saved \/ denied \/ killed \/ removed \/ installs \/ UNCHANGED vars

LEMMA SettlingShape ==
    ASSUME TypeInv, Settling
    PROVE  /\ UNCHANGED <<tokens, owner, push, left, late, quiet, strayed>>
           /\ RequestsInv' /\ Ebbs
           /\ \/ UNCHANGED <<installed, storage, app, req, registered>>
              \/ /\ saving # None /\ token' = saving /\ saving' = None /\ prompts' = prompts + 1
                 /\ UNCHANGED <<installed, storage, authToken, req, registered>>
              \/ /\ prompts > 0 /\ prompts' = prompts - 1
                 /\ UNCHANGED <<installed, storage, authToken, token, saving, req, registered>>
              \/ /\ authToken' = None /\ token' = Restoring /\ saving' = None /\ prompts' = 0
                 /\ \A s \in Slots : ~req'[s].waiting
                 /\ \/ UNCHANGED <<installed, storage, registered>>
                    \/ /\ installed' = FALSE /\ disk' = None /\ legacy' = FALSE /\ registered' = None
              \/ /\ ~installed /\ installed' = TRUE /\ UNCHANGED <<storage, app, req, registered>>
           /\ restarts' \in Nat
  <1>0. RequestsInv /\ restarts \in Nat
    BY DEF TypeInv, PhoneTyped
  <1>1. UNCHANGED <<tokens, owner, push, left, late, quiet, strayed>>
    BY DEF Settling, saved, denied, killed, removed, installs, vars, history
  <1>2. Ebbs /\ restarts' \in Nat
    <2>1. CASE Restarted
      BY <1>0, <2>1, RestartEbbs DEF Restarted
    <2>2. CASE UNCHANGED <<req, restarts>>
      BY <1>0, <2>2, SameEbbs
    <2>3. QED
      BY <2>1, <2>2 DEF Settling, saved, denied, killed, removed, installs, vars
  <1>3. RequestsInv'
    BY <1>0, <1>1, <1>2, SameGrows, EbbsFit
  <1>4. CASE killed \/ removed
    <2>1. \A s \in Slots : ~req'[s].waiting
      BY <1>0, <1>4, RestartEbbs DEF killed, removed
    <2>2. QED
      BY <1>1, <1>2, <1>3, <1>4, <2>1 DEF killed, removed, Restarted, clearToken, history
  <1>5. CASE ~(killed \/ removed)
    BY <1>1, <1>2, <1>3, <1>5 DEF Settling, saved, denied, installs, vars, app, history
  <1>6. QED
    BY <1>4, <1>5

LEMMA SettlingType == ASSUME TypeInv, Settling PROVE TypeInv'
  <1>1. UNCHANGED <<tokens, owner, push, left, late, quiet, strayed>> /\ RequestsInv' /\ restarts' \in Nat
    BY SettlingShape
  <1>2. /\ installed' \in {installed, TRUE, FALSE} /\ disk' \in {disk, None} /\ legacy' \in {legacy, FALSE}
        /\ authToken' \in {authToken, None} /\ token' \in {token, saving, Restoring}
        /\ saving' \in {saving, None} /\ registered' \in {registered, None}
        /\ prompts' \in {prompts, prompts + 1, 0} \/ (prompts > 0 /\ prompts' = prompts - 1)
    BY SettlingShape DEF app, storage
  <1>3. installed' \in BOOLEAN /\ legacy' \in BOOLEAN /\ token' \in Issued \cup {None, Restoring}
    BY <1>2 DEF TypeInv, PhoneTyped
  <1>4. prompts' \in Nat
    BY <1>2 DEF TypeInv, PhoneTyped
  <1>5. /\ left' \subseteq Issued /\ registered' \in Issued \cup {None} /\ strayed' \in BOOLEAN
        /\ quiet' \in Users \cup {None}
    BY <1>1, <1>2 DEF TypeInv, HistoryTyped
  <1>6. QED
    BY <1>1, <1>2, <1>3, <1>4, <1>5, FrameType DEF TypeInv, PhoneTyped

-----------------------------------------------------------------------------
(* The session: launch, the places it is kept in and sign-out *)

\* The server touches no place of the phone's, and asks nothing for it; nor does a sign-out's call.
LEMMA SessionServer ==
    ASSUME TypeInv, SessionInv, RequestsInv', Grows, Issued' = Issued,
           UNCHANGED <<issued, who, installed, storage, app, registered, strayed>>,
           \A s \in Slots : req'[s].waiting =>
               /\ req[s].waiting /\ req'[s].of = req[s].of
               /\ \/ req'[s].kind = req[s].kind /\ req'[s].as = req[s].as
                  \/ req[s].kind = "signOut" /\ req'[s].kind = "unregister"
    PROVE  SessionInv'
  <1>1. UNCHANGED <<disk, legacy, authToken, token, saving, prompts>>
    BY DEF storage, app
  <1>2. /\ \A s \in Waiting("me")' : s \in Waiting("me")
        /\ \A s \in (Waiting("signOut") \cup Waiting("unregister"))' :
              s \in Waiting("signOut") \cup Waiting("unregister")
    BY DEF Waiting
  <1>3. LaunchInv'
    BY <1>1, <1>2 DEF SessionInv, LaunchInv, Waiting
  <1>4. PlacesInv'
    BY <1>1 DEF SessionInv, PlacesInv, Grows
  <1>5. LeavingInv'
    BY <1>1, <1>2 DEF SessionInv, LeavingInv, Waiting
  <1>6. QED
    BY <1>3, <1>4, <1>5 DEF SessionInv

\* While a session is being shown, nobody asks whose it is; while one is asked about, nothing else is asked.
LEMMA MeIsAlone ==
    ASSUME LaunchInv, NEW r \in Slots, req[r].waiting, req[r].kind = "me"
    PROVE  /\ token = Restoring /\ authToken = req[r].as /\ saving = None /\ prompts = 0
           /\ \A s \in Slots \ {r} : ~req[s].waiting
  <1>1. token = Restoring
    BY DEF LaunchInv, Waiting
  <1>2. QED
    BY <1>1 DEF LaunchInv, Waiting

\* What ends a session that is being saved, or shown, is that it is spent or an answer strays.
LEMMA EndedRight ==
    ASSUME TypeInv, SessionInv, NEW r \in Slots, req[r].waiting, Ended(r),
           saving # None, authToken # None
    PROVE  strayed' \/ saving \in dead
  <1>1. authToken = saving /\ who[saving] \in Customers /\ token = None
    BY DEF SessionInv, PlacesInv
  <1>2. req[r].kind # "me"
    BY <1>1, MeIsAlone, NoneIsNothing DEF SessionInv
  <1>3. CASE req[r].kind \in {"signOut", "unregister"}
    BY <1>1, <1>3 DEF SessionInv, LeavingInv, Waiting, Ended
  <1>4. CASE req[r].kind \notin {"signOut", "unregister"}
    BY <1>1, <1>2, <1>4 DEF Ended, Spent
  <1>5. QED
    BY <1>3, <1>4

LEMMA SessionHearing ==
    ASSUME TypeInv, SessionInv, NEW r \in Slots, Hearing(r)
    PROVE  SessionInv'
  <1>1. /\ UNCHANGED <<tokens, installed, saving, prompts, left>>
        /\ Ebbs /\ req[r].waiting /\ ~req'[r].waiting /\ \A s \in Slots \ {r} : req'[s] = req[s]
        /\ strayed => strayed'
        /\ \/ UNCHANGED <<authToken, storage, token>>
           \/ Ended(r)
           \/ /\ req[r].kind = "me" /\ req[r].as \in Issued /\ token' = req[r].as
              /\ UNCHANGED <<authToken, storage>>
    BY HearingShape
  <1>2. Issued' = Issued /\ UNCHANGED <<issued, who, dead>>
    BY <1>1 DEF tokens, Issued
  <1>3. \A s \in Slots : req'[s].waiting => s # r /\ req'[s] = req[s]
    BY <1>1
  <1>4. installed
    BY <1>1 DEF SessionInv, LaunchInv
  <1>5. Restoring \notin Issued /\ None \notin Issued \cup {Restoring}
    BY IssuedFacts DEF TypeInv
  <1>6. CASE UNCHANGED <<authToken, storage, token>>
    <2>1. UNCHANGED <<disk, legacy, authToken, token, saving, prompts>>
      BY <1>1, <1>6 DEF storage
    <2>2. LaunchInv'
      BY <1>1, <1>3, <1>4, <2>1 DEF SessionInv, LaunchInv, Waiting
    <2>3. PlacesInv'
      BY <1>1, <1>2, <2>1 DEF SessionInv, PlacesInv
    <2>4. LeavingInv'
      BY <1>3, <2>1 DEF SessionInv, LeavingInv, Waiting
    <2>5. QED
      BY <2>2, <2>3, <2>4 DEF SessionInv
  <1>7. CASE Ended(r)
    <2>1. authToken' = None /\ disk' = None /\ token' = None
      BY <1>7 DEF Ended, EndSession, clearToken
    <2>2. \A s \in Slots : req'[s].waiting => req'[s].kind # "me"
      BY <1>1, <1>3, MeIsAlone DEF SessionInv
    <2>3. LaunchInv'
      BY <1>1, <1>4, <1>5, <2>1, <2>2 DEF LaunchInv, Waiting
    <2>4. saving # None => strayed' \/ saving \in dead
      BY <1>1, <1>7, EndedRight DEF SessionInv, PlacesInv
    <2>5. PlacesInv'
      BY <1>1, <1>2, <1>5, <2>1, <2>4 DEF SessionInv, PlacesInv
    <2>6. LeavingInv'
      BY <1>1, <1>3, <2>1 DEF SessionInv, LeavingInv, Waiting
    <2>7. QED
      BY <2>3, <2>5, <2>6 DEF SessionInv
  <1>8. CASE req[r].kind = "me" /\ req[r].as \in Issued /\ token' = req[r].as /\ UNCHANGED <<authToken, storage>>
    <2>1. authToken = token' /\ saving' = None /\ \A s \in Slots : ~req'[s].waiting
      BY <1>1, <1>3, <1>8, MeIsAlone DEF SessionInv
    <2>2. LaunchInv'
      BY <1>4, <1>5, <1>1, <1>8, <2>1 DEF LaunchInv, Waiting
    <2>3. PlacesInv'
      BY <1>2, <1>5, <1>8, <2>1 DEF SessionInv, PlacesInv, storage
    <2>4. LeavingInv'
      BY <2>1 DEF LeavingInv, Waiting
    <2>5. QED
      BY <2>2, <2>3, <2>4 DEF SessionInv
  <1>9. QED
    BY <1>1, <1>6, <1>7, <1>8

LEMMA SessionAsking ==
    ASSUME TypeInv, SessionInv, NEW r \in Slots, Asking(r)
    PROVE  SessionInv'
  <1>1. /\ UNCHANGED <<tokens, installed, storage, authToken, token, saving, registered, strayed>>
        /\ \A s \in Slots \ {r} : req'[s] = req[s]
        /\ req'[r].of = token /\ req'[r].waiting
        /\ \/ req'[r].kind = "order" /\ token \in Issued /\ prompts' = prompts
           \/ req'[r].kind = "register" /\ prompts > 0 /\ prompts' = prompts - 1
           \/ req'[r].kind = "signOut" /\ token \in Issued /\ prompts' = prompts
    BY AskingShape
  <1>2. Issued' = Issued /\ UNCHANGED <<issued, who, dead, disk>>
    BY <1>1 DEF tokens, Issued, storage
  <1>3. Restoring \notin Issued /\ None \notin Issued
    BY IssuedFacts DEF TypeInv
  <1>4. token # Restoring /\ req'[r].kind # "me"
    BY <1>1, <1>3 DEF SessionInv, LaunchInv, TypeInv, PhoneTyped
  <1>5. LaunchInv'
    BY <1>1, <1>4 DEF SessionInv, LaunchInv, Waiting
  <1>6. PlacesInv'
    BY <1>1, <1>2 DEF SessionInv, PlacesInv
  <1>7. LeavingInv'
    BY <1>1, <1>2, <1>3 DEF SessionInv, LeavingInv, PlacesInv, Waiting
  <1>8. QED
    BY <1>5, <1>6, <1>7 DEF SessionInv

LEMMA SessionUnregister ==
    ASSUME TypeInv, SessionInv, NEW r \in Slots, unregisterFromPush(r)
    PROVE  SessionInv'
  <1>1. /\ UNCHANGED <<tokens, installed, storage, app, history>> /\ RequestsInv'
        /\ \A s \in Slots \ {r} : req'[s] = req[s]
        /\ req[r].kind = "signOut" /\ req'[r].kind = "unregister"
        /\ req'[r].of = req[r].of /\ req'[r].waiting = req[r].waiting
    BY UnregisterShape
  <1>2. UNCHANGED <<issued, who, registered, strayed, left>>
    BY <1>1 DEF tokens, history
  <1>3. Grows /\ Issued' = Issued
    BY <1>1, <1>2, SameGrows
  <1>4. QED
    BY <1>1, <1>2, <1>3, SessionServer

LEMMA SessionRestore ==
    ASSUME TypeInv, SessionInv, NEW r \in Slots, restore(r)
    PROVE  SessionInv'
  <1>1. /\ UNCHANGED <<tokens, installed, saving, prompts, history>>
        /\ installed /\ token = Restoring
        /\ \A s \in Slots : req[s].waiting => req[s].kind # "me"
        /\ \/ token' = None /\ UNCHANGED <<authToken, req, storage>>
           \/ /\ token' = token /\ disk \in Issued /\ authToken' = disk /\ disk' \in {disk, None}
              /\ \A s \in Slots \ {r} : req'[s] = req[s]
              /\ req'[r].kind = "me" /\ req'[r].as = disk /\ req'[r].waiting
    BY RestoreShape
  <1>2. Issued' = Issued /\ UNCHANGED <<issued, who, dead, strayed>>
    BY <1>1 DEF tokens, Issued, history
  <1>3. Restoring \notin Issued /\ None \notin Issued \cup {Restoring}
    BY IssuedFacts DEF TypeInv
  <1>4. saving = None /\ prompts = 0 /\ \A s \in Slots : ~req[s].waiting
    BY <1>1 DEF SessionInv, LaunchInv
  <1>5. LaunchInv'
    BY <1>1, <1>3, <1>4 DEF LaunchInv, Waiting
  <1>6. disk \in Nat \/ disk = None
    BY DEF TypeInv, PhoneTyped, TokensInv, Issued
  <1>7. PlacesInv'
    <2>1. saving' = None /\ token' \notin Issued'
      BY <1>1, <1>2, <1>3, <1>4
    <2>2. disk' # None => \A t \in {token', authToken'} \cap Issued' : disk' <= t
      BY <1>1, <1>2, <1>3, <1>6 DEF SessionInv, PlacesInv, storage
    <2>3. QED
      BY <2>1, <2>2 DEF PlacesInv
  <1>8. LeavingInv'
    BY <1>1, <1>4 DEF LeavingInv, Waiting
  <1>9. QED
    BY <1>5, <1>7, <1>8 DEF SessionInv

LEMMA SessionVerify ==
    ASSUME TypeInv, SessionInv, NEW u \in Customers, handleVerify(u)
    PROVE  SessionInv'
  <1>1. /\ token = None /\ saving = None /\ UNCHANGED <<dead, token, req, strayed>>
        /\ UNCHANGED <<owner, push, installed, prompts, left>>
        /\ Grows /\ issued' = issued + 1 /\ Issued' = Issued \cup {issued'} /\ issued' \notin Issued
        /\ authToken' = issued' /\ saving' = issued' /\ disk' \in {disk, issued'}
        /\ who'[issued'] = u /\ registered' = None
    BY VerifyShape
  <1>2. issued \in Nat /\ None \notin Issued' \cup {Restoring}
    <2>1. issued \in Nat /\ None \notin Issued \cup {Restoring} /\ issued' # None
      BY IssuedFacts, VerifyShape DEF TypeInv
    <2>2. QED
      BY <1>1, <2>1
  <1>3. LaunchInv'
    BY <1>1, <1>2 DEF SessionInv, LaunchInv, Waiting
  <1>4. PlacesInv'
    <2>1. saving' \in Issued' /\ token' \notin Issued'
      BY <1>1, <1>2
    <2>2. disk' # None => disk' <= issued'
      BY <1>1, <1>2 DEF TypeInv, PhoneTyped, Issued
    <2>3. QED
      BY <1>1, <1>2, <2>1, <2>2 DEF PlacesInv
  <1>5. LeavingInv'
    <2>1. \A s \in Slots : req[s].kind \in {"signOut", "unregister"} => req[s].of \in Issued
      BY DEF TypeInv, RequestsInv, Fit, HistoryTyped
    <2>2. QED
      BY <1>1, <1>2, <2>1 DEF SessionInv, LeavingInv, Waiting
  <1>6. QED
    BY <1>3, <1>4, <1>5 DEF SessionInv

LEMMA SessionSettling ==
    ASSUME TypeInv, SessionInv, Settling
    PROVE  SessionInv'
  <1>1. UNCHANGED <<tokens, left, strayed>> /\ Ebbs
    BY SettlingShape
  <1>2. Issued' = Issued /\ UNCHANGED <<issued, who, dead>>
    BY <1>1 DEF tokens, Issued
  <1>3. Restoring \notin Issued /\ None \notin Issued \cup {Restoring} /\ issued \in Nat
    BY IssuedFacts DEF TypeInv
  <1>4. CASE /\ saving # None /\ token' = saving /\ saving' = None /\ prompts' = prompts + 1
             /\ UNCHANGED <<installed, storage, authToken, req, registered>>
    <2>1. saving = issued /\ saving \in Issued /\ token = None /\ authToken \in {saving, None}
      BY <1>4 DEF SessionInv, PlacesInv, TypeInv, PhoneTyped
    <2>2. LaunchInv'
      BY <1>3, <1>4, <2>1 DEF SessionInv, LaunchInv, Waiting
    <2>3. disk # None => disk <= issued
      BY <1>3 DEF TypeInv, PhoneTyped, Issued
    <2>4. PlacesInv'
      BY <1>1, <1>2, <1>4, <2>1, <2>3 DEF SessionInv, PlacesInv, storage
    <2>5. \A s \in Slots : req[s].kind \in {"signOut", "unregister"} => req[s].of \in Issued
      BY DEF TypeInv, RequestsInv, Fit, HistoryTyped
    <2>6. LeavingInv'
      BY <1>3, <1>4, <2>5 DEF SessionInv, LeavingInv, Waiting, storage
    <2>7. QED
      BY <2>2, <2>4, <2>6 DEF SessionInv
  <1>5. CASE /\ prompts > 0 /\ prompts' = prompts - 1
             /\ UNCHANGED <<installed, storage, authToken, token, saving, req, registered>>
    <2>1. token # Restoring
      BY <1>5 DEF SessionInv, LaunchInv
    <2>2. LaunchInv'
      BY <1>5, <2>1 DEF SessionInv, LaunchInv, Waiting
    <2>3. PlacesInv'
      BY <1>1, <1>2, <1>5 DEF SessionInv, PlacesInv, storage
    <2>4. LeavingInv'
      BY <1>5 DEF SessionInv, LeavingInv, Waiting, storage
    <2>5. QED
      BY <2>2, <2>3, <2>4 DEF SessionInv
  <1>6. CASE /\ authToken' = None /\ token' = Restoring /\ saving' = None /\ prompts' = 0
             /\ \A s \in Slots : ~req'[s].waiting
             /\ \/ UNCHANGED <<installed, storage, registered>>
                \/ /\ installed' = FALSE /\ disk' = None /\ legacy' = FALSE /\ registered' = None
    <2>1. LaunchInv'
      BY <1>6 DEF SessionInv, LaunchInv, Waiting
    <2>2. PlacesInv'
      BY <1>2, <1>3, <1>6 DEF PlacesInv
    <2>3. LeavingInv'
      BY <1>6 DEF LeavingInv, Waiting
    <2>4. QED
      BY <2>1, <2>2, <2>3 DEF SessionInv
  <1>7. CASE UNCHANGED <<storage, app, req, registered>> /\ (UNCHANGED installed \/ installed')
    <2>1. UNCHANGED <<disk, authToken, token, saving, prompts>>
      BY <1>7 DEF storage, app
    <2>2. LaunchInv'
      BY <1>7, <2>1 DEF SessionInv, LaunchInv, Waiting
    <2>3. PlacesInv'
      BY <1>1, <1>2, <2>1 DEF SessionInv, PlacesInv
    <2>4. LeavingInv'
      BY <1>7, <2>1 DEF SessionInv, LeavingInv, Waiting
    <2>5. QED
      BY <2>2, <2>3, <2>4 DEF SessionInv
  <1>8. \/ UNCHANGED <<installed, storage, app, req, registered>>
        \/ /\ saving # None /\ token' = saving /\ saving' = None /\ prompts' = prompts + 1
           /\ UNCHANGED <<installed, storage, authToken, req, registered>>
        \/ /\ prompts > 0 /\ prompts' = prompts - 1
           /\ UNCHANGED <<installed, storage, authToken, token, saving, req, registered>>
        \/ /\ authToken' = None /\ token' = Restoring /\ saving' = None /\ prompts' = 0
           /\ \A s \in Slots : ~req'[s].waiting
           /\ \/ UNCHANGED <<installed, storage, registered>>
              \/ /\ installed' = FALSE /\ disk' = None /\ legacy' = FALSE /\ registered' = None
        \/ /\ ~installed /\ installed' = TRUE /\ UNCHANGED <<storage, app, req, registered>>
    BY SettlingShape
  <1>9. QED
    BY <1>4, <1>5, <1>6, <1>7, <1>8

-----------------------------------------------------------------------------
(* Quiet after sign-out *)

LEMMA SilentKept ==
    ASSUME TypeInv, QuietInv, Issued' = Issued, who' = who, owner' \in {owner, None}, quiet' = quiet,
           {authToken', token', saving', disk'} \subseteq {authToken, token, saving, disk, None, Restoring},
           \A s \in Slots : Unserved(s)' /\ req'[s].kind = "register" =>
                               Unserved(s) /\ req[s].kind = "register" /\ req'[s].as = req[s].as
    PROVE  quiet' # None => Silent(quiet)'
  <1> SUFFICES ASSUME quiet # None PROVE Silent(quiet)'
    OBVIOUS
  <1>1. Silent(quiet) /\ quiet # None
    BY DEF QuietInv
  <1>2. Issued \cap {None, Restoring} = {}
    BY IssuedFacts DEF TypeInv
  <1>3. owner' # quiet'
    BY <1>1 DEF Silent
  <1>4. \A t \in {authToken', token', saving', disk'} \cap Issued' : who'[t] # quiet'
    BY <1>1, <1>2 DEF Silent
  <1>5. \A r \in Slots : Unserved(r)' /\ req'[r].kind = "register" /\ req'[r].as # None =>
                            who'[req'[r].as] # quiet'
    BY <1>1 DEF Silent
  <1>6. QED
    BY <1>3, <1>4, <1>5 DEF Silent

LEMMA AloneKept ==
    ASSUME AloneInv, dead \subseteq dead', strayed => strayed', owner' \in {owner, None}, who' = who,
           token' = token, Registering' => Registering, None \notin Users, TypeInv,
           \A s \in Slots : req'[s].waiting => req'[s] = req[s]
    PROVE  AloneInv'
  <1> SUFFICES ASSUME NEW r \in Slots, req'[r].waiting, req'[r].kind = "unregister", req'[r].alone,
                      token' = req'[r].of, req'[r].of \notin dead', ~strayed'
               PROVE  /\ req'[r].as = req'[r].of /\ ~Registering'
                      /\ req'[r].answer # None => owner' # who'[req'[r].of]
    BY DEF AloneInv, Waiting
  <1>1. req'[r] = req[r] /\ who[req[r].of] # None
    BY DEF TypeInv, RequestsInv, Fit, HistoryTyped, TokensInv
  <1>2. QED
    BY <1>1 DEF AloneInv, Waiting

\* Nothing is asserted of a sign-out that is not of the session shown.
LEMMA AloneVoid ==
    ASSUME \A r \in Slots : req'[r].waiting /\ req'[r].kind = "unregister" => token' # req'[r].of
    PROVE  AloneInv'
  BY DEF AloneInv, Waiting

LEMMA QuietPush ==
    ASSUME TypeInv, QuietInv, UNCHANGED <<tokens, storage, app, history>>, owner' \in {owner, None}, Ebbs
    PROVE  QuietInv'
  <1>1. /\ UNCHANGED <<disk, authToken, token, saving, prompts, quiet, strayed, who, dead, issued>>
        /\ Issued' = Issued
    BY DEF storage, app, history, tokens, Issued
  <1>2. \A s \in Slots : /\ req'[s].waiting => req'[s] = req[s]
                         /\ Unserved(s)' => Unserved(s) /\ req'[s].kind = req[s].kind /\ req'[s].as = req[s].as
    BY EbbsFewer DEF TypeInv
  <1>3. Registering' => Registering
    BY <1>1, <1>2 DEF Registering
  <1>4. quiet' # None => Silent(quiet)'
    BY <1>1, <1>2, SilentKept
  <1>5. AloneInv'
    BY <1>1, <1>2, <1>3, AloneKept, NoneIsNothing DEF QuietInv
  <1>6. QED
    BY <1>4, <1>5 DEF QuietInv

LEMMA QuietServe ==
    ASSUME TypeInv, QuietInv, NEW r \in Slots, Serve(r)
    PROVE  QuietInv'
  <1>1. /\ Issued' = Issued /\ dead \subseteq dead'
        /\ UNCHANGED <<issued, who, storage, app, quiet, strayed>>
        /\ \A s \in Slots \ {r} : req'[s] = req[s]
        /\ Unserved(r) /\ ~Unserved(r)'
        /\ IF req[r].waiting
           THEN /\ req'[r].waiting /\ req'[r].kind = req[r].kind /\ req'[r].as = req[r].as
                /\ req'[r].of = req[r].of /\ req'[r].alone = req[r].alone
                /\ req'[r].answer = Refused(req[r])
           ELSE req'[r] = Idle
        /\ Refused(req[r]) = "expired" => req[r].as \in dead' \cup {None}
        /\ req[r].kind # "order" => Refused(req[r]) # "wrongRole"
    BY Served DEF Grows
  <1>2. UNCHANGED <<disk, authToken, token, saving, prompts>>
    BY <1>1 DEF storage, app
  <1>3. /\ owner' = owner \/ req[r].kind \in {"register", "unregister"}
        /\ req[r].kind = "unregister" /\ Refused(req[r]) = "ok" =>
              owner' = IF owner = who[req[r].as] THEN None ELSE owner
        /\ req[r].kind = "register" /\ Refused(req[r]) = "ok" => owner' = who[req[r].as]
        /\ Refused(req[r]) # "ok" => owner' = owner
    BY DEF Serve, registerDevice, unregisterOwnDevice
  <1>4. \A s \in Slots : Unserved(s)' => s # r /\ Unserved(s) /\ req'[s] = req[s]
    BY <1>1 DEF Unserved
  <1>5. Registering' => Registering
    BY <1>2, <1>4 DEF Registering
  <1>6. Refused(req[r]) \in {"ok", "expired", "wrongRole"} /\ (Refused(req[r]) = "ok" => req[r].as # None)
    BY DEF Refused
  <1>7. req'[r].waiting => req[r].waiting
    BY <1>1 DEF Idle
  <1>8. ASSUME quiet' # None PROVE Silent(quiet)'
    <2>1. Silent(quiet) /\ quiet' = quiet
      BY <1>1, <1>8 DEF QuietInv
    <2>2. owner' # quiet
      <3>1. CASE owner' \in {owner, None}
        BY <1>1, <1>8, <2>1, <3>1 DEF Silent
      <3>2. CASE req[r].kind = "register" /\ Refused(req[r]) = "ok" /\ owner' = who[req[r].as]
        BY <1>1, <1>6, <2>1, <3>2 DEF Silent
      <3>3. QED
        BY <1>3, <1>6, <3>1, <3>2
    <2>3. QED
      BY <1>1, <1>2, <1>4, <2>1, <2>2 DEF Silent
  <1>9. ASSUME NEW s \in Slots, req'[s].waiting, req'[s].kind = "unregister", req'[s].alone,
               token' = req'[s].of, req'[s].of \notin dead', ~strayed'
        PROVE  /\ req'[s].as = req'[s].of /\ ~Registering'
               /\ req'[s].answer # None => owner' # who'[req'[s].of]
    <2>1. /\ req[s].waiting /\ req[s].kind = "unregister" /\ req[s].alone /\ token = req[s].of
          /\ req[s].of \notin dead /\ ~strayed /\ req'[s].as = req[s].as /\ req'[s].of = req[s].of
      BY <1>1, <1>2, <1>7, <1>9
    <2>2. /\ req[s].as = req[s].of /\ ~Registering
          /\ req[s].answer # None => owner # who[req[s].of]
      BY <2>1 DEF QuietInv, AloneInv, Waiting
    <2>3. who[req[s].of] # None /\ req[s].of # None
      <3>1. req[s].of \in Issued
        BY <2>1 DEF TypeInv, RequestsInv, Fit, HistoryTyped
      <3>2. QED
        BY <3>1, IssuedFacts, NoneIsNothing DEF TypeInv, TokensInv
    <2>4. req[r].kind # "register"
      BY <1>1, <2>2 DEF Registering
    <2>5. CASE s = r
      <3>1. Refused(req[r]) = "ok"
        BY <1>1, <1>6, <1>9, <2>1, <2>2, <2>3, <2>5
      <3>2. owner' # who[req[s].of]
        BY <1>3, <2>1, <2>2, <2>3, <2>5, <3>1
      <3>3. QED
        BY <1>1, <1>5, <2>1, <2>2, <3>2
    <2>6. CASE s # r
      <3>1. owner' \in {owner, None}
        BY <1>3, <2>4
      <3>2. QED
        BY <1>1, <1>5, <2>1, <2>2, <2>3, <2>6, <3>1
    <2>7. QED
      BY <2>5, <2>6
  <1>10. AloneInv'
    BY <1>9 DEF AloneInv, Waiting
  <1>11. QED
    BY <1>8, <1>10 DEF QuietInv

LEMMA LeftAreIssued ==
    ASSUME TypeInv, NEW r \in Slots, req[r].kind \in {"signOut", "unregister"}
    PROVE  req[r].of \in Issued /\ req[r].of # None /\ req[r].of # Restoring
  BY IssuedFacts DEF TypeInv, RequestsInv, Fit, HistoryTyped

LEMMA QuietHearing ==
    ASSUME TypeInv, SessionInv, QuietInv, NEW r \in Slots, Hearing(r)
    PROVE  QuietInv'
  <1>1. /\ UNCHANGED <<tokens, owner, saving, prompts>>
        /\ Ebbs /\ req[r].waiting /\ ~req'[r].waiting /\ \A s \in Slots \ {r} : req'[s] = req[s]
        /\ strayed => strayed'
        /\ \/ UNCHANGED <<authToken, storage, token>>
           \/ Ended(r)
           \/ /\ req[r].kind = "me" /\ req[r].as \in Issued /\ token' = req[r].as
              /\ UNCHANGED <<authToken, storage>>
    BY HearingShape
  <1>2. \/ quiet' = quiet
        \/ /\ req[r].kind = "unregister" /\ req[r].alone /\ req[r].of \notin dead /\ ~strayed'
           /\ token = req[r].of /\ req[r].answer # None /\ quiet' = who[req[r].of] /\ Ended(r)
    BY HearingShape
  <1>3. Issued' = Issued /\ UNCHANGED <<issued, who, dead>>
    BY <1>1 DEF tokens, Issued
  <1>4. \A s \in Slots : /\ req'[s].waiting => req'[s] = req[s] /\ s # r
                         /\ Unserved(s)' => Unserved(s) /\ req'[s].kind = req[s].kind /\ req'[s].as = req[s].as
    BY <1>1, EbbsFewer DEF TypeInv
  <1>5. Registering' => Registering
    BY <1>1, <1>4 DEF Registering
  <1>6. {authToken', token', saving', disk'} \subseteq {authToken, token, saving, disk, None, Restoring}
    <2>1. CASE UNCHANGED <<authToken, storage, token>>
      BY <1>1, <2>1 DEF storage
    <2>2. CASE Ended(r)
      BY <1>1, <2>2 DEF Ended, EndSession, clearToken
    <2>3. CASE req[r].kind = "me" /\ token' = req[r].as /\ UNCHANGED <<authToken, storage>>
      BY <1>1, <2>3, MeIsAlone DEF SessionInv, storage
    <2>4. QED
      BY <1>1, <2>1, <2>2, <2>3
  <1>7. ASSUME quiet' # None PROVE Silent(quiet)'
    <2>1. CASE quiet' = quiet
      BY <1>1, <1>3, <1>4, <1>6, <1>7, <2>1, SilentKept
    <2>2. CASE /\ req[r].kind = "unregister" /\ req[r].alone /\ req[r].of \notin dead /\ ~strayed'
               /\ token = req[r].of /\ req[r].answer # None /\ quiet' = who[req[r].of] /\ Ended(r)
      <3>1. owner # who[req[r].of] /\ ~Registering
        BY <1>1, <2>2 DEF QuietInv, AloneInv, Waiting
      <3>2. saving = None /\ req[r].of # None
        BY <2>2, LeftAreIssued DEF SessionInv, PlacesInv
      <3>3. authToken' = None /\ token' = None /\ saving' = None /\ disk' = None
        BY <1>1, <2>2, <3>2 DEF Ended, EndSession, clearToken
      <3>4. None \notin Issued' /\ owner' # quiet'
        BY <1>1, <1>3, <2>2, <3>1, IssuedFacts DEF TypeInv
      <3>5. \A s \in Slots : Unserved(s)' => req'[s].kind # "register"
        BY <1>4, <3>1 DEF Registering
      <3>6. QED
        BY <3>3, <3>4, <3>5 DEF Silent
    <2>3. QED
      BY <1>2, <2>1, <2>2
  <1>8. AloneInv'
    <2>1. CASE token' = token
      BY <1>1, <1>3, <1>4, <1>5, <2>1, AloneKept, NoneIsNothing DEF QuietInv
    <2>2. CASE Ended(r)
      <3>1. token' = None
        BY <2>2 DEF Ended, EndSession
      <3>2. QED
        BY <1>4, <3>1, AloneVoid, LeftAreIssued
    <2>3. CASE req[r].kind = "me"
      <3>1. \A s \in Slots : ~req'[s].waiting
        BY <1>1, <1>4, <2>3, MeIsAlone DEF SessionInv
      <3>2. QED
        BY <3>1, AloneVoid
    <2>4. QED
      BY <1>1, <2>1, <2>2, <2>3
  <1>9. QED
    BY <1>7, <1>8 DEF QuietInv

LEMMA QuietAsking ==
    ASSUME TypeInv, SessionInv, QuietInv, NEW r \in Slots, Asking(r)
    PROVE  QuietInv'
  <1>1. /\ UNCHANGED <<tokens, owner, storage, authToken, token, saving, quiet, strayed>>
        /\ req[r] = Idle /\ \A s \in Slots \ {r} : req'[s] = req[s]
        /\ req'[r].as \in {authToken, None} /\ req'[r].answer = None
        /\ \/ req'[r].kind \in {"order", "signOut"} /\ prompts' = prompts
           \/ req'[r].kind = "register" /\ prompts > 0 /\ prompts' = prompts - 1
    BY AskingShape
  <1>2. Issued' = Issued /\ UNCHANGED <<issued, who, dead, disk>>
    BY <1>1 DEF tokens, Issued, storage
  <1>3. authToken \in Issued \cup {None} /\ ~Unserved(r)
    BY <1>1 DEF TypeInv, PhoneTyped, Unserved, Idle
  <1>4. ASSUME quiet' # None PROVE Silent(quiet)'
    <2>1. Silent(quiet) /\ quiet' = quiet
      BY <1>1, <1>4 DEF QuietInv
    <2>2. \A s \in Slots \ {r} : Unserved(s)' <=> Unserved(s)
      BY <1>1 DEF Unserved
    <2>3. QED
      BY <1>1, <1>2, <1>3, <2>1, <2>2 DEF Silent
  <1>5. AloneInv'
    <2>1. CASE req'[r].kind = "register"
      <3>1. Registering
        BY <1>1, <2>1 DEF Registering
      <3>2. QED
        BY <1>1, <1>2, <2>1, <3>1 DEF QuietInv, AloneInv, Waiting
    <2>2. CASE req'[r].kind # "register"
      <3>1. prompts' = prompts
        BY <1>1, <2>2
      <3>2. Registering' => Registering
        BY <1>1, <2>2, <3>1 DEF Registering, Unserved
      <3>3. QED
        BY <1>1, <1>2, <2>2, <3>2 DEF QuietInv, AloneInv, Waiting
    <2>3. QED
      BY <2>1, <2>2
  <1>6. QED
    BY <1>4, <1>5 DEF QuietInv

\* A sign-out's call is made with the token of the session shown, while that session is good.
LEMMA QuietUnregister ==
    ASSUME TypeInv, SessionInv, QuietInv, NEW r \in Slots, unregisterFromPush(r)
    PROVE  QuietInv'
  <1>1. /\ UNCHANGED <<tokens, owner, storage, app, history>>
        /\ \A s \in Slots \ {r} : req'[s] = req[s]
        /\ req[r].kind = "signOut" /\ req'[r].kind = "unregister" /\ req'[r].as = authToken
        /\ req'[r].of = req[r].of /\ req'[r].answer = None
        /\ (req'[r].alone => ~Registering)
    BY UnregisterShape
  <1>2. /\ UNCHANGED <<disk, authToken, token, saving, prompts, quiet, strayed, who, dead, issued>>
        /\ Issued' = Issued
    BY <1>1 DEF storage, app, history, tokens, Issued
  <1>3. \A s \in Slots : Unserved(s)' /\ req'[s].kind = "register" =>
                            Unserved(s) /\ req[s].kind = "register" /\ req'[s].as = req[s].as
    BY <1>1 DEF Unserved
  <1>4. Registering' => Registering
    BY <1>2, <1>3 DEF Registering
  <1>5. quiet' # None => Silent(quiet)'
    BY <1>1, <1>2, <1>3, SilentKept
  <1>6. req[r].of \in Issued
    BY <1>1, LeftAreIssued
  <1>7. token = req[r].of /\ req[r].of \notin dead /\ ~strayed => authToken = req[r].of
    BY <1>6 DEF SessionInv, PlacesInv
  <1>8. AloneInv'
    BY <1>1, <1>2, <1>4, <1>7 DEF QuietInv, AloneInv, Waiting
  <1>9. QED
    BY <1>5, <1>8 DEF QuietInv

LEMMA QuietRestore ==
    ASSUME TypeInv, SessionInv, QuietInv, NEW r \in Slots, restore(r)
    PROVE  QuietInv'
  <1>1. /\ UNCHANGED <<tokens, owner, saving, history>> /\ token = Restoring
        /\ \A s \in Slots : req[s].waiting => req[s].kind # "me"
        /\ \/ token' = None /\ UNCHANGED <<authToken, req, storage>>
           \/ /\ token' = token /\ authToken' = disk /\ disk' \in {disk, None}
              /\ \A s \in Slots \ {r} : req'[s] = req[s]
              /\ req'[r].kind = "me"
    BY RestoreShape
  <1>2. Issued' = Issued /\ UNCHANGED <<issued, who, quiet>>
    BY <1>1 DEF tokens, Issued, history
  <1>3. \A s \in Slots : Unserved(s)' /\ req'[s].kind = "register" =>
                            Unserved(s) /\ req[s].kind = "register" /\ req'[s].as = req[s].as
    BY <1>1 DEF Unserved
  <1>4. {authToken', token', saving', disk'} \subseteq {authToken, token, saving, disk, None, Restoring}
    BY <1>1 DEF storage
  <1>5. quiet' # None => Silent(quiet)'
    BY <1>1, <1>2, <1>3, <1>4, SilentKept
  <1>6. \A s \in Slots : ~req[s].waiting
    BY <1>1 DEF SessionInv, LaunchInv
  <1>7. AloneInv'
    BY <1>1, <1>6, AloneVoid
  <1>8. QED
    BY <1>5, <1>7 DEF QuietInv

LEMMA QuietVerify ==
    ASSUME TypeInv, SessionInv, QuietInv, NEW u \in Customers, handleVerify(u)
    PROVE  QuietInv'
  <1>1. /\ token = None /\ saving = None /\ UNCHANGED <<token, req, owner>>
        /\ Grows /\ Issued' = Issued \cup {issued'} /\ issued' \notin Issued
        /\ authToken' = issued' /\ saving' = issued' /\ disk' \in {disk, issued'}
        /\ who'[issued'] = u /\ quiet' = IF quiet = u THEN None ELSE quiet
    BY VerifyShape
  <1>2. None \notin Issued' /\ None \notin Issued
    <2>1. None \notin Issued /\ issued' # None
      BY IssuedFacts, VerifyShape DEF TypeInv
    <2>2. QED
      BY <1>1, <2>1
  <1>3. ASSUME quiet' # None PROVE Silent(quiet)'
    <2>1. Silent(quiet) /\ quiet' = quiet /\ quiet # u
      BY <1>1, <1>3 DEF QuietInv
    <2>2. \A t \in {authToken', token', saving', disk'} \cap Issued' : who'[t] # quiet'
      BY <1>1, <1>2, <2>1 DEF Silent, Grows
    <2>3. \A r \in Slots : Unserved(r)' /\ req'[r].kind = "register" /\ req'[r].as # None =>
                              who'[req'[r].as] # quiet'
      BY <1>1, <2>1 DEF Silent, Grows, Unserved, TypeInv, RequestsInv, Fit, Request
    <2>4. QED
      BY <1>1, <2>1, <2>2, <2>3 DEF Silent
  <1>4. AloneInv'
    BY <1>1, AloneVoid, LeftAreIssued
  <1>5. QED
    BY <1>3, <1>4 DEF QuietInv

LEMMA QuietSettling ==
    ASSUME TypeInv, SessionInv, QuietInv, Settling
    PROVE  QuietInv'
  <1>1. UNCHANGED <<tokens, owner, quiet, strayed>> /\ Ebbs
    BY SettlingShape
  <1>2. \/ UNCHANGED <<installed, storage, app, req, registered>>
        \/ /\ saving # None /\ token' = saving /\ saving' = None /\ prompts' = prompts + 1
           /\ UNCHANGED <<installed, storage, authToken, req, registered>>
        \/ /\ prompts > 0 /\ prompts' = prompts - 1
           /\ UNCHANGED <<installed, storage, authToken, token, saving, req, registered>>
        \/ /\ authToken' = None /\ token' = Restoring /\ saving' = None /\ prompts' = 0
           /\ \A s \in Slots : ~req'[s].waiting
           /\ \/ UNCHANGED <<installed, storage, registered>>
              \/ /\ installed' = FALSE /\ disk' = None /\ legacy' = FALSE /\ registered' = None
        \/ /\ ~installed /\ installed' = TRUE /\ UNCHANGED <<storage, app, req, registered>>
    BY SettlingShape
  <1>3. Issued' = Issued /\ UNCHANGED <<issued, who, dead>>
    BY <1>1 DEF tokens, Issued
  <1>4. \A s \in Slots : /\ req'[s].waiting => req'[s] = req[s]
                         /\ Unserved(s)' => Unserved(s) /\ req'[s].kind = req[s].kind /\ req'[s].as = req[s].as
    BY <1>1, EbbsFewer DEF TypeInv
  <1>5. {authToken', token', saving', disk'} \subseteq {authToken, token, saving, disk, None, Restoring}
    BY <1>2 DEF storage, app
  <1>6. quiet' # None => Silent(quiet)'
    BY <1>1, <1>3, <1>4, <1>5, SilentKept
  <1>7. AloneInv'
    <2>1. CASE token' = token /\ prompts' = prompts
      <3>1. Registering' => Registering
        BY <1>4, <2>1 DEF Registering
      <3>2. QED
        BY <1>1, <1>3, <1>4, <2>1, <3>1, AloneKept, NoneIsNothing DEF QuietInv
    <2>2. CASE saving # None /\ token' = saving
      BY <1>4, <2>2, AloneVoid DEF SessionInv, LeavingInv, Waiting
    <2>3. CASE prompts > 0 /\ UNCHANGED <<token, req>>
      BY <1>3, <1>1, <2>3 DEF QuietInv, AloneInv, Waiting, Registering
    <2>4. CASE \A s \in Slots : ~req'[s].waiting
      BY <2>4, AloneVoid
    <2>5. QED
      BY <1>2, <2>1, <2>2, <2>3, <2>4 DEF app
  <1>8. QED
    BY <1>6, <1>7 DEF QuietInv

-----------------------------------------------------------------------------
(* Rings once registered *)

\* Nothing new is asked, and a session goes only where it was.
LEMMA ReachKept ==
    ASSUME TypeInv, ReachInv, Issued' = Issued, UNCHANGED <<who, owner, left, late>>,
           push' = push \/ push' # "DeviceNotRegistered", registered' \in {registered, None},
           authToken' \in {authToken, None}, saving' \in {saving, None}, disk' \in {disk, None},
           token' \in {token, authToken, saving, None, Restoring},
           \A s \in Slots : /\ req'[s].waiting => req'[s] = req[s]
                            /\ Unserved(s)' => /\ Unserved(s) /\ req'[s].kind = req[s].kind
                                               /\ req'[s].as = req[s].as
                            /\ req'[s].kind = "signOut" => req[s].kind = "signOut"
    PROVE  ReachInv'
  <1>1. Issued \cap {None, Restoring} = {}
    BY IssuedFacts DEF TypeInv
  <1>2. ASSUME registered' # None, Live(registered)'
        PROVE  /\ token' \in {registered', None, Restoring}
               /\ authToken' \in {registered', None} /\ saving' \in {registered', None}
               /\ registered' \notin left' /\ ~late' => Reached(registered)'
    <2>1. registered' = registered /\ registered \in Issued
      BY <1>2 DEF TypeInv, HistoryTyped
    <2>2. Live(registered)
      BY <1>1, <1>2, <2>1 DEF Live
    <2>3. /\ token \in {registered, None, Restoring}
          /\ authToken \in {registered, None} /\ saving \in {registered, None}
          /\ registered \notin left /\ ~late => Reached(registered)
      BY <1>2, <2>1, <2>2 DEF ReachInv
    <2>4. registered' \notin left' /\ ~late' => Reached(registered)'
      BY <2>1, <2>3 DEF Reached
    <2>5. QED
      BY <2>1, <2>3, <2>4
  <1>3. ASSUME NEW s \in Slots, req'[s].waiting, req'[s].kind = "register", req'[s].answer = "ok",
               req'[s].as = authToken', req'[s].as \notin left', ~late'
        PROVE  Reached(req[s].as)'
    <2>1. req'[s] = req[s] /\ req[s].as # None
      BY <1>3 DEF TypeInv, RequestsInv, Fit
    <2>2. req[s].as = authToken
      BY <1>3, <2>1
    <2>3. Reached(req[s].as)
      BY <1>3, <2>1, <2>2 DEF ReachInv, Waiting
    <2>4. QED
      BY <2>1, <2>3 DEF Reached
  <1>4. QED
    BY <1>2, <1>3 DEF ReachInv, Waiting

LEMMA ReachPush ==
    ASSUME TypeInv, SessionInv, ReachInv, \/ notifyUser \/ send \/ drop \/ \E r \in Slots : Lost(r)
    PROVE  ReachInv'
  <1>1. UNCHANGED <<tokens, installed, storage, app, restarts, history>>
    BY DEF notifyUser, send, drop, Lost
  <1>2. /\ UNCHANGED <<who, issued, left, late, registered, disk, authToken, token, saving, prompts>>
        /\ Issued' = Issued
    BY <1>1 DEF storage, app, history, tokens, Issued
  <1>3. Ebbs
    BY OneEbbs, SameEbbs DEF TypeInv, notifyUser, send, drop, Lost
  <1>4. \A s \in Slots : /\ req'[s].waiting => req'[s] = req[s]
                         /\ Unserved(s)' => Unserved(s) /\ req'[s].kind = req[s].kind /\ req'[s].as = req[s].as
                         /\ req'[s].kind = "signOut" => req[s].kind = "signOut"
    BY <1>3, EbbsFewer DEF TypeInv
  <1>5. CASE owner' = owner /\ (push' = push \/ push' # "DeviceNotRegistered")
    BY <1>2, <1>4, <1>5, ReachKept
  <1>6. CASE send /\ ~installed
    <2>1. registered = None /\ \A s \in Slots : ~req[s].waiting
      BY <1>6 DEF SessionInv, LaunchInv
    <2>2. QED
      BY <1>2, <1>4, <2>1 DEF ReachInv, Waiting
  <1>7. CASE drop
    <2>1. push = "DeviceNotRegistered"
      BY <1>7 DEF drop
    <2>2. \A s : ~Reached(s)
      BY <2>1 DEF Reached
    <2>3. /\ registered # None /\ Live(registered) =>
                /\ token \in {registered, None, Restoring}
                /\ authToken \in {registered, None} /\ saving \in {registered, None}
                /\ ~(registered \notin left /\ ~late)
          /\ \A r \in Waiting("register") :
                ~(req[r].answer = "ok" /\ req[r].as = authToken /\ req[r].as \notin left /\ ~late)
      BY <2>2 DEF ReachInv
    <2>4. Live(registered)' => Live(registered)
      BY <1>2 DEF Live
    <2>5. \A r \in Waiting("register")' :
             ~(req'[r].answer = "ok" /\ req'[r].as = authToken' /\ req'[r].as \notin left' /\ ~late')
      BY <1>2, <1>4, <2>3 DEF Waiting
    <2>6. QED
      BY <1>2, <2>3, <2>4, <2>5 DEF ReachInv
  <1>8. \/ owner' = owner /\ (push' = push \/ push' # "DeviceNotRegistered")
        \/ send /\ ~installed
        \/ drop
    <2>1. CASE notifyUser
      BY <2>1 DEF notifyUser
    <2>2. CASE send
      BY <2>2, NoneIsNothing DEF send, TypeInv, PhoneTyped
    <2>3. ASSUME NEW r \in Slots, Lost(r) PROVE owner' = owner /\ push' = push
      BY <2>3 DEF Lost
    <2>4. QED
      BY <2>1, <2>2, <2>3
  <1>9. QED
    BY <1>5, <1>6, <1>7, <1>8

\* A registration that nothing on its way could undo is one that is reached.
LEMMA ReachServe ==
    ASSUME TypeInv, SessionInv, ReachInv, NEW r \in Slots, Serve(r)
    PROVE  ReachInv'
  <1>1. /\ Issued' = Issued
        /\ UNCHANGED <<who, push, storage, app, left, registered>>
        /\ \A s \in Slots \ {r} : req'[s] = req[s]
        /\ Unserved(r) /\ ~Unserved(r)'
        /\ IF req[r].waiting
           THEN /\ req'[r].waiting /\ req'[r].kind = req[r].kind /\ req'[r].as = req[r].as
                /\ req'[r].answer = Refused(req[r])
           ELSE req'[r] = Idle
        /\ Refused(req[r]) = "ok" => req[r].as \in Issued
    BY Served
  <1>2. UNCHANGED <<disk, authToken, token, saving, prompts>>
    BY <1>1 DEF storage, app
  <1>3. /\ owner' = owner \/ (Refused(req[r]) = "ok" /\ req[r].kind \in {"register", "unregister"})
        /\ req[r].kind = "unregister" /\ Refused(req[r]) = "ok" =>
              owner' = IF owner = who[req[r].as] THEN None ELSE owner
        /\ req[r].kind = "register" /\ Refused(req[r]) = "ok" => owner' = who[req[r].as]
    BY DEF Serve, registerDevice, unregisterOwnDevice
  <1>4. /\ late => late'
        /\ req[r].kind = "register" /\ Refused(req[r]) = "ok" /\ MayUndo(req[r].as) => late'
    BY DEF Serve
  <1>5. \A s \in Slots : Unserved(s)' => s # r /\ Unserved(s) /\ req'[s] = req[s]
    BY <1>1 DEF Unserved
  <1>6. None \notin Issued
    BY IssuedFacts DEF TypeInv
  <1>7. \A s \in Slots : req'[s].kind = "signOut" => req[s].kind = "signOut"
    BY <1>1 DEF Idle
  <1>8. \A s : Reached(s) =>
           /\ owner' = who'[s] /\ push' # "DeviceNotRegistered"
           /\ \A q \in Slots : Unserved(q)' /\ req'[q].as # None =>
                 /\ req'[q].kind = "register" => who'[req'[q].as] = who'[s]
                 /\ req'[q].kind = "unregister" => who'[req'[q].as] # who'[s]
           /\ \A q \in Slots : req'[q].kind # "signOut"
    <2> SUFFICES ASSUME NEW s, Reached(s)
                 PROVE  /\ owner' = who'[s] /\ push' # "DeviceNotRegistered"
                        /\ \A q \in Slots : Unserved(q)' /\ req'[q].as # None =>
                              /\ req'[q].kind = "register" => who'[req'[q].as] = who'[s]
                              /\ req'[q].kind = "unregister" => who'[req'[q].as] # who'[s]
                        /\ \A q \in Slots : req'[q].kind # "signOut"
      OBVIOUS
    <2>1. owner' = who[s]
      BY <1>1, <1>3, <1>6 DEF Reached
    <2>2. \A q \in Slots : req'[q].kind # "signOut"
      BY <1>7 DEF Reached
    <2>3. QED
      BY <1>1, <1>5, <2>1, <2>2 DEF Reached
  <1>9. ASSUME registered' # None, Live(registered)'
        PROVE  /\ token' \in {registered', None, Restoring}
               /\ authToken' \in {registered', None} /\ saving' \in {registered', None}
               /\ registered' \notin left' /\ ~late' => Reached(registered)'
    <2>1. registered' = registered /\ Live(registered)
      BY <1>1, <1>2, <1>9 DEF Live
    <2>2. /\ token \in {registered, None, Restoring}
          /\ authToken \in {registered, None} /\ saving \in {registered, None}
          /\ registered \notin left /\ ~late => Reached(registered)
      BY <1>9, <2>1 DEF ReachInv
    <2>3. registered' \notin left' /\ ~late' => Reached(registered)'
      BY <1>1, <1>4, <1>8, <2>1, <2>2 DEF Reached
    <2>4. QED
      BY <1>2, <2>1, <2>2, <2>3
  <1>10. ASSUME NEW s \in Slots, req'[s].waiting, req'[s].kind = "register", req'[s].answer = "ok",
               req'[s].as = authToken', req'[s].as \notin left', ~late'
        PROVE  Reached(req[s].as)'
    <2>1. CASE s = r
      <3>1. /\ req[r].kind = "register" /\ Refused(req[r]) = "ok" /\ req'[r].as = req[r].as
            /\ ~MayUndo(req[r].as) /\ owner' = who[req[r].as]
        BY <1>1, <1>3, <1>4, <1>10, <2>1 DEF Idle
      <3>2. push # "DeviceNotRegistered"
        BY <3>1 DEF MayUndo
      <3>3. \A q \in Slots : Unserved(q) /\ req[q].as # None =>
               /\ req[q].kind = "register" => who[req[q].as] = who[req[r].as]
               /\ req[q].kind = "unregister" => who[req[q].as] # who[req[r].as]
        BY <3>1 DEF MayUndo
      <3>4. \A q \in Slots : req'[q].kind # "signOut"
        BY <1>7, <3>1 DEF MayUndo
      <3>5. QED
        BY <1>1, <1>5, <2>1, <3>1, <3>2, <3>3, <3>4 DEF Reached
    <2>2. CASE s # r
      <3>1. req'[s] = req[s] /\ Reached(req[s].as)
        BY <1>1, <1>2, <1>4, <1>10, <2>2 DEF ReachInv, Waiting
      <3>2. QED
        BY <1>8, <3>1 DEF Reached
    <2>3. QED
      BY <2>1, <2>2
  <1>11. QED
    BY <1>9, <1>10 DEF ReachInv, Waiting

LEMMA ReachHearing ==
    ASSUME TypeInv, SessionInv, ReachInv, NEW r \in Slots, Hearing(r)
    PROVE  ReachInv'
  <1>1. /\ UNCHANGED <<tokens, owner, push, saving, left, late>>
        /\ Ebbs /\ req[r].waiting /\ ~req'[r].waiting /\ \A s \in Slots \ {r} : req'[s] = req[s]
        /\ \/ UNCHANGED <<authToken, storage, token>>
           \/ Ended(r)
           \/ /\ req[r].kind = "me" /\ token' = req[r].as
              /\ UNCHANGED <<authToken, storage>>
    BY HearingShape
  <1>2. \/ registered' = registered
        \/ /\ req[r].kind = "register" /\ req[r].answer = "ok" /\ req[r].as = authToken
           /\ registered' = authToken /\ UNCHANGED <<authToken, storage, token>>
    BY HearingShape
  <1>3. Issued' = Issued /\ UNCHANGED <<issued, who>>
    BY <1>1 DEF tokens, Issued
  <1>4. \A s \in Slots : /\ req'[s].waiting => req'[s] = req[s]
                         /\ Unserved(s)' => Unserved(s) /\ req'[s].kind = req[s].kind /\ req'[s].as = req[s].as
                         /\ req'[s].kind = "signOut" => req[s].kind = "signOut"
    BY <1>1, EbbsFewer DEF TypeInv
  <1>5. authToken' \in {authToken, None} /\ disk' \in {disk, None} /\ token' \in {token, authToken, None}
    <2>1. CASE UNCHANGED <<authToken, storage, token>>
      BY <2>1 DEF storage
    <2>2. CASE Ended(r)
      BY <2>2 DEF Ended, EndSession, clearToken
    <2>3. CASE req[r].kind = "me" /\ token' = req[r].as /\ UNCHANGED <<authToken, storage>>
      BY <1>1, <2>3, MeIsAlone DEF SessionInv, storage
    <2>4. QED
      BY <1>1, <2>1, <2>2, <2>3
  <1>6. CASE registered' = registered
    BY <1>1, <1>3, <1>4, <1>5, <1>6, ReachKept
  <1>7. CASE /\ req[r].kind = "register" /\ req[r].answer = "ok" /\ req[r].as = authToken
             /\ registered' = authToken /\ UNCHANGED <<authToken, storage, token>>
    <2>1. authToken # None /\ (authToken \notin left /\ ~late => Reached(authToken))
      BY <1>1, <1>7 DEF ReachInv, Waiting, TypeInv, RequestsInv, Fit
    <2>2. token \in {authToken, None, Restoring} /\ saving \in {authToken, None}
      BY <2>1 DEF SessionInv, PlacesInv, TypeInv, PhoneTyped
    <2>3. registered' \notin left' /\ ~late' => Reached(registered)'
      BY <1>1, <1>3, <1>4, <1>7, <2>1 DEF Reached
    <2>4. ASSUME NEW s \in Slots, req'[s].waiting, req'[s].kind = "register", req'[s].answer = "ok",
                 req'[s].as = authToken', req'[s].as \notin left', ~late'
          PROVE  Reached(req[s].as)'
      BY <1>7, <2>3, <2>4 DEF Reached
    <2>5. QED
      BY <1>1, <1>7, <2>2, <2>3, <2>4 DEF ReachInv, Waiting
  <1>8. QED
    BY <1>2, <1>6, <1>7

\* What is asked with the session's own token does not take its phone away.
LEMMA ReachAsking ==
    ASSUME TypeInv, SessionInv, ReachInv, NEW r \in Slots, Asking(r)
    PROVE  ReachInv'
  <1>1. /\ UNCHANGED <<tokens, owner, push, storage, authToken, token, saving, registered, late>>
        /\ req[r] = Idle /\ \A s \in Slots \ {r} : req'[s] = req[s]
        /\ req'[r].as \in {authToken, None} /\ req'[r].waiting /\ req'[r].answer = None
        /\ \/ req'[r].kind \in {"order", "register"} /\ left' = left
           \/ req'[r].kind = "signOut" /\ token \in Issued /\ left' = left \cup {token}
    BY AskingShape
  <1>2. Issued' = Issued /\ UNCHANGED <<issued, who, disk>>
    BY <1>1 DEF tokens, Issued, storage
  <1>3. \A s \in Slots \ {r} : Unserved(s)' <=> Unserved(s)
    BY <1>1 DEF Unserved
  <1>4. None \notin Issued /\ Restoring \notin Issued
    BY IssuedFacts DEF TypeInv
  <1>5. \A s \in Issued : Reached(s) /\ authToken \in {s, None} /\ req'[r].kind # "signOut" =>
           /\ owner' = who'[s] /\ push' # "DeviceNotRegistered"
           /\ \A q \in Slots : Unserved(q)' /\ req'[q].as # None =>
                 /\ req'[q].kind = "register" => who'[req'[q].as] = who'[s]
                 /\ req'[q].kind = "unregister" => who'[req'[q].as] # who'[s]
           /\ \A q \in Slots : req'[q].kind # "signOut"
    BY <1>1, <1>2, <1>3 DEF Reached
  <1>6. ASSUME registered' # None, Live(registered)'
        PROVE  /\ token' \in {registered', None, Restoring}
               /\ authToken' \in {registered', None} /\ saving' \in {registered', None}
               /\ registered' \notin left' /\ ~late' => Reached(registered)'
    <2>1. registered' = registered /\ registered \in Issued /\ Live(registered)
      BY <1>1, <1>2, <1>6 DEF Live, TypeInv, HistoryTyped
    <2>2. /\ token \in {registered, None, Restoring}
          /\ authToken \in {registered, None} /\ saving \in {registered, None}
          /\ registered \notin left /\ ~late => Reached(registered)
      BY <1>6, <2>1 DEF ReachInv
    <2>3. req'[r].kind = "signOut" => registered \in left'
      BY <1>1, <1>4, <2>2
    <2>4. registered' \notin left' /\ ~late' => Reached(registered)'
      BY <1>1, <1>5, <2>1, <2>2, <2>3 DEF Reached
    <2>5. QED
      BY <1>1, <2>1, <2>2, <2>4
  <1>7. ASSUME NEW s \in Slots, req'[s].waiting, req'[s].kind = "register", req'[s].answer = "ok",
               req'[s].as = authToken', req'[s].as \notin left', ~late'
        PROVE  Reached(req[s].as)'
    <2>1. s # r /\ req'[s] = req[s]
      BY <1>1, <1>7, NoneIsNothing
    <2>2. req[s].as \in Issued /\ req[s].as = authToken
      BY <1>1, <1>7, <2>1 DEF TypeInv, RequestsInv, Fit, Request
    <2>3. Reached(req[s].as)
      BY <1>1, <1>7, <2>1, <2>2 DEF ReachInv, Waiting
    <2>4. req'[r].kind # "signOut"
      BY <1>1, <1>4, <1>7, <2>1, <2>2 DEF SessionInv, PlacesInv
    <2>5. QED
      BY <1>5, <2>1, <2>2, <2>3, <2>4 DEF Reached
  <1>8. QED
    BY <1>6, <1>7 DEF ReachInv, Waiting

\* A phone that a customer is reached on has no sign-out to make its call.
LEMMA ReachUnregister ==
    ASSUME TypeInv, ReachInv, NEW r \in Slots, unregisterFromPush(r)
    PROVE  ReachInv'
  <1>1. /\ UNCHANGED <<tokens, owner, push, storage, app, history>>
        /\ \A s \in Slots \ {r} : req'[s] = req[s]
        /\ req[r].kind = "signOut" /\ req'[r].kind = "unregister"
    BY UnregisterShape
  <1>2. UNCHANGED <<left, late, registered, disk, authToken, token, saving>>
    BY <1>1 DEF storage, app, history
  <1>3. \A s : ~Reached(s)
    BY <1>1 DEF Reached
  <1>4. /\ registered # None /\ Live(registered) =>
              /\ token \in {registered, None, Restoring}
              /\ authToken \in {registered, None} /\ saving \in {registered, None}
              /\ ~(registered \notin left /\ ~late)
        /\ \A s \in Waiting("register") :
              ~(req[s].answer = "ok" /\ req[s].as = authToken /\ req[s].as \notin left /\ ~late)
    BY <1>3 DEF ReachInv
  <1>5. Live(registered)' => Live(registered)
    BY <1>2 DEF Live
  <1>6. \A s \in Waiting("register")' :
           ~(req'[s].answer = "ok" /\ req'[s].as = authToken' /\ req'[s].as \notin left' /\ ~late')
    BY <1>1, <1>2, <1>4 DEF Waiting
  <1>7. QED
    BY <1>2, <1>4, <1>5, <1>6 DEF ReachInv

LEMMA ReachRestore ==
    ASSUME TypeInv, SessionInv, ReachInv, NEW r \in Slots, restore(r)
    PROVE  ReachInv'
  <1>1. /\ UNCHANGED <<tokens, owner, push, saving, history>> /\ token = Restoring
        /\ \A s \in Slots : req[s].waiting => req[s].kind # "me"
        /\ \/ token' = None /\ UNCHANGED <<authToken, req, storage>>
           \/ /\ token' = token /\ disk \in Issued /\ authToken' = disk /\ disk' \in {disk, None}
              /\ \A s \in Slots \ {r} : req'[s] = req[s]
              /\ req'[r].kind = "me"
    BY RestoreShape
  <1>2. Issued' = Issued /\ UNCHANGED <<issued, who, registered, left, late>>
    BY <1>1 DEF tokens, Issued, history
  <1>3. None \notin Issued /\ Restoring \notin Issued
    BY IssuedFacts DEF TypeInv
  <1>4. saving = None /\ \A s \in Slots : ~req[s].waiting
    BY <1>1 DEF SessionInv, LaunchInv
  <1>5. CASE token' = None /\ UNCHANGED <<authToken, req, storage>>
    <2>1. \A s \in Slots : req'[s] = req[s] /\ (Unserved(s)' => Unserved(s))
      BY <1>5 DEF Unserved
    <2>2. UNCHANGED <<authToken, saving, disk, who, owner, push>>
      BY <1>1, <1>2, <1>5 DEF storage
    <2>3. QED
      BY <1>2, <1>5, <2>1, <2>2, ReachKept
  <1>6. CASE /\ token' = token /\ disk \in Issued /\ authToken' = disk /\ disk' \in {disk, None}
             /\ \A s \in Slots \ {r} : req'[s] = req[s]
             /\ req'[r].kind = "me"
    <2>1. ASSUME registered' # None, Live(registered)'
          PROVE  /\ token' \in {registered', None, Restoring}
                 /\ authToken' \in {registered', None} /\ saving' \in {registered', None}
                 /\ registered' \notin left' /\ ~late' => Reached(registered)'
      <3>1. registered \in Issued /\ registered' = registered
        BY <1>2, <2>1 DEF TypeInv, HistoryTyped
      <3>2. registered = disk
        BY <1>1, <1>3, <1>4, <1>6, <2>1, <3>1 DEF Live
      <3>3. registered \notin left /\ ~late => Reached(registered)
        BY <2>1, <3>1, <3>2 DEF ReachInv, Live
      <3>4. \A s \in Slots : Unserved(s)' /\ req'[s].kind \in {"register", "unregister"} =>
                                s # r /\ Unserved(s) /\ req'[s] = req[s]
        BY <1>6 DEF Unserved
      <3>5. registered' \notin left' /\ ~late' => Reached(registered)'
        BY <1>1, <1>2, <1>6, <3>3, <3>4 DEF Reached
      <3>6. QED
        BY <1>1, <1>4, <1>6, <3>1, <3>2, <3>5
    <2>2. \A s \in Slots : req'[s].waiting => req'[s].kind # "register"
      BY <1>4, <1>6
    <2>3. QED
      BY <2>1, <2>2 DEF ReachInv, Waiting
  <1>7. QED
    BY <1>1, <1>5, <1>6

LEMMA ReachVerify ==
    ASSUME TypeInv, SessionInv, ReachInv, NEW u \in Customers, handleVerify(u)
    PROVE  ReachInv'
  <1>1. /\ req' = req /\ issued' \notin Issued /\ authToken' = issued' /\ registered' = None
    BY VerifyShape
  <1>2. \A s \in Slots : req'[s].answer = "ok" => req'[s].as # authToken'
    <2>1. \A s \in Slots : req[s].answer = "ok" => req[s].as \in Issued
      BY DEF TypeInv, RequestsInv, Fit, Request
    <2>2. QED
      BY <1>1, <2>1
  <1>3. QED
    BY <1>1, <1>2 DEF ReachInv, Waiting

LEMMA ReachSettling ==
    ASSUME TypeInv, SessionInv, ReachInv, Settling
    PROVE  ReachInv'
  <1>1. UNCHANGED <<tokens, owner, push, left, late>> /\ Ebbs
    BY SettlingShape
  <1>2. /\ registered' \in {registered, None} /\ authToken' \in {authToken, None}
        /\ saving' \in {saving, None} /\ disk' \in {disk, None} /\ token' \in {token, saving, Restoring}
    BY SettlingShape DEF storage, app
  <1>3. Issued' = Issued /\ UNCHANGED <<issued, who>>
    BY <1>1 DEF tokens, Issued
  <1>4. \A s \in Slots : /\ req'[s].waiting => req'[s] = req[s]
                         /\ Unserved(s)' => Unserved(s) /\ req'[s].kind = req[s].kind /\ req'[s].as = req[s].as
                         /\ req'[s].kind = "signOut" => req[s].kind = "signOut"
    BY <1>1, EbbsFewer DEF TypeInv
  <1>5. QED
    BY <1>1, <1>2, <1>3, <1>4, ReachKept

-----------------------------------------------------------------------------
(* The theorems *)

LEMMA PhoneInit == Init => PhoneInv
  <1> SUFFICES ASSUME Init PROVE PhoneInv
    OBVIOUS
  <1>1. TypeInv /\ Restoring \notin Issued
    BY TypeInit, IssuedFacts DEF TypeInv
  <1>2. /\ token = Restoring /\ authToken = None /\ saving = None /\ prompts = 0 /\ installed
        /\ registered = None /\ quiet = None /\ \A r \in Slots : ~req[r].waiting
    BY DEF Init, Idle
  <1>3. None \notin Issued
    BY <1>1, IssuedFacts DEF TypeInv
  <1>4. SessionInv
    BY <1>1, <1>2, <1>3 DEF SessionInv, LaunchInv, PlacesInv, LeavingInv, Waiting
  <1>5. QuietInv /\ ReachInv
    BY <1>2 DEF QuietInv, AloneInv, ReachInv, Waiting
  <1>6. QED
    BY <1>1, <1>4, <1>5 DEF PhoneInv

\* Every step is one of the server's, one that asks, one that hears of what was asked, or neither.
LEMMA StepKinds ==
    ASSUME [Next]_vars
    PROVE  \/ notifyUser \/ send \/ drop \/ Settling
           \/ \E u \in Customers : handleVerify(u)
           \/ \E r \in Slots : \/ Serve(r) \/ Lost(r) \/ restore(r) \/ Hearing(r) \/ Asking(r)
                               \/ unregisterFromPush(r)
  BY DEF Next, Settling, Hearing, Asking

LEMMA PhoneStep ==
    ASSUME PhoneInv, [Next]_vars
    PROVE  PhoneInv'
  <1> USE DEF PhoneInv
  <1>1. CASE notifyUser \/ send \/ drop \/ \E r \in Slots : Lost(r)
    <2>1. TypeInv' /\ ReachInv'
      BY <1>1, ServerTypeStep, ReachPush
    <2>2. UNCHANGED <<tokens, installed, storage, app, history>> /\ owner' \in {owner, None}
      BY <1>1 DEF notifyUser, send, drop, Lost
    <2>3. Ebbs
      BY <1>1, OneEbbs, SameEbbs DEF TypeInv, notifyUser, send, drop, Lost
    <2>4. UNCHANGED <<issued, who, registered, strayed, left>>
      BY <2>2 DEF tokens, history
    <2>5. Grows /\ Issued' = Issued
      BY <2>2, <2>4, SameGrows
    <2>6. \A s \in Slots : req'[s].waiting => req'[s] = req[s]
      BY <2>3, EbbsFewer DEF TypeInv
    <2>7. SessionInv'
      BY <2>1, <2>2, <2>4, <2>5, <2>6, SessionServer DEF TypeInv
    <2>8. QuietInv'
      BY <2>2, <2>3, QuietPush
    <2>9. QED
      BY <2>1, <2>7, <2>8
  <1>2. ASSUME NEW r \in Slots, Serve(r) PROVE PhoneInv'
    <2>1. TypeInv' /\ QuietInv' /\ ReachInv'
      BY <1>2, ServerTypeStep, QuietServe, ReachServe
    <2>2. /\ Grows /\ Issued' = Issued
          /\ UNCHANGED <<issued, who, installed, storage, app, registered, strayed>>
          /\ \A s \in Slots \ {r} : req'[s] = req[s]
          /\ IF req[r].waiting
             THEN /\ req'[r].kind = req[r].kind /\ req'[r].as = req[r].as /\ req'[r].of = req[r].of
             ELSE req'[r] = Idle
      BY <1>2, Served
    <2>3. \A s \in Slots : req'[s].waiting => /\ req[s].waiting /\ req'[s].kind = req[s].kind
                                              /\ req'[s].as = req[s].as /\ req'[s].of = req[s].of
      BY <2>2 DEF Idle
    <2>4. SessionInv'
      BY <2>1, <2>2, <2>3, SessionServer DEF TypeInv
    <2>5. QED
      BY <2>1, <2>4
  <1>3. ASSUME NEW r \in Slots, Hearing(r) PROVE PhoneInv'
    BY <1>3, HearingType, SessionHearing, QuietHearing, ReachHearing
  <1>4. ASSUME NEW r \in Slots, Asking(r) PROVE PhoneInv'
    BY <1>4, AskingType, SessionAsking, QuietAsking, ReachAsking
  <1>5. ASSUME NEW r \in Slots, unregisterFromPush(r) PROVE PhoneInv'
    BY <1>5, UnregisterType, SessionUnregister, QuietUnregister, ReachUnregister
  <1>6. ASSUME NEW r \in Slots, restore(r) PROVE PhoneInv'
    BY <1>6, RestoreType, SessionRestore, QuietRestore, ReachRestore
  <1>7. ASSUME NEW u \in Customers, handleVerify(u) PROVE PhoneInv'
    BY <1>7, VerifyShape, SessionVerify, QuietVerify, ReachVerify
  <1>8. CASE Settling
    BY <1>8, SettlingType, SessionSettling, QuietSettling, ReachSettling
  <1>9. QED
    BY <1>1, <1>2, <1>3, <1>4, <1>5, <1>6, <1>7, <1>8, StepKinds

\* The three places of the token agree, what is on its way is fit, and the history is what it says,
\* with any users, tokens, restarts and requests on their way.
THEOREM PhoneInvariant == Spec => []PhoneInv
  <1>1. Init => PhoneInv
    BY PhoneInit
  <1>2. PhoneInv /\ [Next]_vars => PhoneInv'
    BY PhoneStep
  <1>3. QED
    BY <1>1, <1>2, PTL DEF Spec

\* Once a registration is answered, the phone rings for its customer until they sign out.
THEOREM RegisteredIsReachedHolds == Spec => []RegisteredIsReached
  <1>1. PhoneInv => RegisteredIsReached
    BY DEF PhoneInv, ReachInv, RegisteredIsReached, Reached, Live
  <1>2. QED
    BY <1>1, PhoneInvariant, PTL

\* A phone that has signed out is quiet.
THEOREM QuietAfterSignOutHolds == Spec => []QuietAfterSignOut
  <1>1. PhoneInv => QuietAfterSignOut
    BY DEF PhoneInv, QuietInv, QuietAfterSignOut, Silent
  <1>2. QED
    BY <1>1, PhoneInvariant, PTL

\* What a session that goes from the disk goes for.
Excused(s) ==
    \/ disk' # None \/ (\E t \in left \cup dead' : t >= s) \/ who[s] \notin Customers
    \/ legacy \/ ~installed' \/ strayed'

LEMMA EndedIsExcused ==
    ASSUME TypeInv, SessionInv, NEW r \in Slots, Hearing(r), NEW s \in Issued, disk = s, disk' # s
    PROVE  Excused(s)
  <1>1. /\ UNCHANGED tokens /\ req[r].waiting
        /\ \/ UNCHANGED <<authToken, storage, token>>
           \/ Ended(r)
           \/ UNCHANGED <<authToken, storage>>
    BY HearingShape
  <1>2. Ended(r) /\ dead' = dead
    BY <1>1 DEF storage, tokens
  <1>3. disk # None /\ issued \in Nat /\ Issued \subseteq Nat /\ None \notin Issued
    BY IssuedFacts DEF TypeInv
  <1>4. Fit(req[r]) /\ req[r] \in Request
    BY DEF TypeInv, RequestsInv, Fit
  <1>5. ASSUME NEW t \in Issued, t \in {token, authToken}, Spent(t) PROVE Excused(s)
    <2>1. s <= t
      BY <1>3, <1>5 DEF SessionInv, PlacesInv
    <2>2. CASE t \in dead
      BY <1>2, <1>3, <2>1, <2>2 DEF Excused
    <2>3. CASE who[t] \notin Customers
      <3>1. t = 1 /\ s = 1
        BY <1>3, <1>5, <2>1, <2>3 DEF TypeInv, TokensInv, Issued
      <3>2. QED
        BY <2>3, <3>1 DEF Excused
    <2>4. QED
      BY <1>5, <2>2, <2>3 DEF Spent
  <1>6. CASE req[r].kind = "me"
    <2>1. authToken = req[r].as /\ authToken \in Issued
      BY <1>1, <1>4, <1>6, MeIsAlone DEF SessionInv, Fit, Request
    <2>2. QED
      BY <1>2, <1>5, <1>6, <2>1 DEF Ended
  <1>7. CASE req[r].kind \in {"order", "register"}
    <2>1. authToken \in Issued /\ (strayed' \/ Spent(authToken))
      BY <1>2, <1>7 DEF Ended, TypeInv, PhoneTyped
    <2>2. QED
      BY <1>5, <2>1 DEF Excused
  <1>8. CASE req[r].kind \in {"signOut", "unregister"}
    <2>1. req[r].of \in left /\ req[r].of \in Issued
      BY <1>4, <1>8 DEF Fit, TypeInv, HistoryTyped
    <2>2. \/ s <= req[r].of
          \/ authToken \notin {req[r].of, None}
      BY <1>1, <1>3, <1>8 DEF SessionInv, LeavingInv, Waiting
    <2>3. CASE s <= req[r].of
      BY <1>3, <2>1, <2>3 DEF Excused
    <2>4. CASE authToken \notin {req[r].of, None}
      BY <1>2, <1>8, <2>4 DEF Ended, Excused
    <2>5. QED
      BY <2>2, <2>3, <2>4
  <1>9. QED
    BY <1>2, <1>6, <1>7, <1>8 DEF Ended

\* A saved session goes from the phone only for a reason of its own.
THEOREM SavedSessionIsKeptHolds == Spec => SavedSessionIsKept
  <1>1. ASSUME PhoneInv, [Next]_vars, NEW s \in Sessions, disk = s, disk' # s
        PROVE  Excused(s)
    <2>1. disk \in Issued
      BY <1>1, NoneIsNothing DEF PhoneInv, TypeInv, PhoneTyped
    <2>2. CASE notifyUser \/ send \/ drop
      BY <1>1, <2>2 DEF notifyUser, send, drop, storage
    <2>3. CASE Settling
      <3>1. UNCHANGED storage \/ (installed' = FALSE)
        BY <1>1, <2>3, SettlingShape DEF PhoneInv
      <3>2. QED
        BY <1>1, <3>1 DEF Excused, storage
    <2>4. ASSUME NEW u \in Customers, handleVerify(u) PROVE Excused(s)
      <3>1. disk' = issued'
        BY <1>1, <2>4, VerifyShape DEF PhoneInv
      <3>2. disk' # None
        BY <1>1, <2>4, <3>1, VerifyShape DEF PhoneInv
      <3>3. QED
        BY <3>2 DEF Excused
    <2>5. ASSUME NEW r \in Slots, Serve(r) \/ Lost(r) \/ Asking(r) \/ unregisterFromPush(r)
          PROVE  Excused(s)
      <3>1. UNCHANGED storage
        BY <1>1, <2>5, Served, AskingShape, UnregisterShape DEF PhoneInv, Lost
      <3>2. QED
        BY <1>1, <3>1 DEF storage
    <2>6. ASSUME NEW r \in Slots, restore(r) PROVE Excused(s)
      <3>1. legacy \/ disk' = disk
        BY <2>6 DEF restore, migrateLegacyToken, storage
      <3>2. QED
        BY <1>1, <3>1 DEF Excused
    <2>7. ASSUME NEW r \in Slots, Hearing(r) PROVE Excused(s)
      BY <1>1, <2>1, <2>7, EndedIsExcused DEF PhoneInv
    <2>8. QED
      BY <1>1, <2>2, <2>3, <2>4, <2>5, <2>6, <2>7, StepKinds
  <1>2. PhoneInv /\ [Next]_vars =>
            [\A s \in Sessions : disk = s /\ disk' # s => Excused(s)]_vars
    BY <1>1
  <1>3. QED
    BY <1>2, PhoneInvariant, PTL DEF Spec, SavedSessionIsKept, Excused
=============================================================================
