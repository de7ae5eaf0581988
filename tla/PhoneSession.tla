---------------------------- MODULE PhoneSession ----------------------------
(***************************************************************************)
(* The session of a customer's phone, and the row by which the server      *)
(* finds the phone again to send it news of an order.                      *)
(*                                                                         *)
(* The token is in three places: on the disk, in the module that makes the *)
(* requests, which puts on each whatever token it has then, and in the     *)
(* screen's state.  Sign-in, sign-out, the check at launch and a refused   *)
(* session each change all three, around requests that may be answered     *)
(* late, served after the phone gave them up, or never; the app may be     *)
(* killed or removed at any point.                                         *)
(***************************************************************************)
EXTENDS Naturals, FiniteSets

CONSTANTS Users, Customers,
          Holders,      \* bound: users who may have left a session on the phone before
          MaxSessions,  \* bound: tokens issued
          MaxInFlight,  \* bound: requests on their way at once
          MaxRestarts,  \* bound: times the app is killed or removed
          Days,         \* bound: the sets of things that happen to the phone in a behaviour
          None          \* null

ASSUME CustomersAreUsers == Customers \subseteq Users /\ Holders \subseteq Users

ASSUME BoundsAssumption == MaxSessions \in Nat \ {0} /\ MaxRestarts \in Nat

Slots == 1..MaxInFlight
Sessions == 1..MaxSessions
Restoring == 0          \* `undefined`: the saved session is being read and checked

ASSUME NoneIsNothing ==
    /\ None \notin Users \cup Sessions \cup {Restoring}
    /\ None \notin {"read", "DeviceNotRegistered", "ok", "expired", "wrongRole"}

VARIABLES
    day,        \* which of the Days it is
    issued,     \* how many tokens were issued: token n is the n-th
    who,        \* whose each is
    dead,       \* those expired or revoked
    owner,      \* the device's row: the user it is registered to
    push,       \* notifyUser: what it is doing with this device
    installed,
    disk,       \* the token saved
    legacy,     \* it is where an older build of the app kept it
    authToken,  \* the token put on requests
    token,      \* the screen's: Restoring, None (signed out) or the session it shows
    saving,     \* handleSignedIn: the token being saved
    prompts,    \* registerForPush: how many still wait for a permission or a push token
    req,        \* requests on their way
    restarts,
    left,       \* history: sessions whose customer asked to sign out
    registered, \* history: the session for which a registration was answered
    late,       \* history: when it was served, something sent before could still undo it
    quiet,      \* history: the user whose sign-out was answered, with no registration beside it
    strayed     \* history: an answer to one session was applied to another

app == <<authToken, token, saving, prompts>>
history == <<left, registered, late, quiet, strayed>>
storage == <<disk, legacy>>
tokens == <<day, issued, who, dead>>
vars == <<tokens, owner, push, installed, storage, app, req, restarts, history>>

\* `as` is the token on the request, `of` the screen's session; `waiting` while the app still is;
\* `alone` (history) when no registration was under way as it was made.  A sign-out takes its slot
\* before it has its push token, and is a request only then.
Idle == [kind |-> "idle", as |-> None, of |-> None, waiting |-> FALSE, alone |-> FALSE,
         answer |-> None]
Unserved(r) == req[r].kind \notin {"idle", "signOut"} /\ req[r].answer = None

Init ==
    /\ day \in Days
    /\ issued \in 0..1 /\ dead = {}
    /\ \E u \in Holders : who = [s \in Sessions |-> IF s <= issued THEN u ELSE None]
    /\ owner \in IF issued = 0 THEN {None} ELSE {None, who[1]}
    /\ push = None
    /\ installed = TRUE /\ disk = (IF issued = 0 THEN None ELSE 1)
    /\ legacy \in {FALSE, disk # None}
    /\ authToken = None /\ token = Restoring /\ saving = None /\ prompts = 0
    /\ req = [r \in Slots |-> Idle]
    /\ restarts = 0
    /\ left = {} /\ registered = None /\ late = FALSE /\ quiet = None /\ strayed = FALSE

-----------------------------------------------------------------------------
(* The server *)

\* Upsert on the push token: the row follows the phone to its new owner.
registerDevice(u) == owner' = u

\* By the push token alone.
unregisterOwnDevice_Any(u) == owner' = None
\* One's own device only.
unregisterOwnDevice(u) == owner' = IF owner = u THEN None ELSE owner

\* An endpoint for customers wants the role, too.
WrongRole(q) == q.kind = "order" /\ who[q.as] \notin Customers

\* Without a valid token, of a user who is still there, nothing is done.
Refused(q) ==
    IF q.as = None \/ q.as \in dead' THEN "expired" ELSE IF WrongRole(q) THEN "wrongRole" ELSE "ok"

\* What is still on its way, or about to be done, that may take the row from session s.
MayUndo(s) ==
    \/ push = "DeviceNotRegistered" \/ push = "read"
    \/ \E r \in Slots : /\ Unserved(r) /\ req[r].as # None
                        /\ \/ req[r].kind = "register" /\ who[req[r].as] # who[s]
                           \/ req[r].kind = "unregister" /\ who[req[r].as] = who[s]
    \/ \E r \in Slots : req[r].kind = "signOut"

\* The token of its session may have expired or been revoked by then.
Serve(r) ==
    /\ Unserved(r)
    /\ \/ UNCHANGED dead
       \/ "die" \in day /\ req[r].as \notin dead \cup {None} /\ dead' = dead \cup {req[r].as}
    /\ LET q == req[r]
       IN  /\ req' = [req EXCEPT ![r] =
                          IF q.waiting THEN [q EXCEPT !.answer = Refused(q)] ELSE Idle]
           /\ IF Refused(q) # "ok" THEN UNCHANGED owner
              ELSE CASE q.kind = "register" -> registerDevice(who[q.as])
                     [] q.kind = "unregister" -> unregisterOwnDevice(who[q.as])
                     [] OTHER -> UNCHANGED owner
           /\ late' = (late \/ (q.kind = "register" /\ Refused(q) = "ok" /\ MayUndo(q.as)))
    /\ UNCHANGED <<day, issued, who, push, installed, storage, app, restarts, left, registered, quiet,
                   strayed>>

\* A request the phone gave up, or its app was killed with, may never have arrived.
Lost(r) ==
    /\ Unserved(r) /\ ~req[r].waiting
    /\ req' = [req EXCEPT ![r] = Idle]
    /\ UNCHANGED <<tokens, owner, push, installed, storage, app, restarts, history>>

\* notifyUser: the row is read, the push is sent, and a device that is gone is dropped.
notifyUser ==
    /\ "push" \in day
    /\ push = None /\ owner # None
    /\ push' = "read"
    /\ UNCHANGED <<tokens, owner, installed, storage, app, req, restarts, history>>

send ==
    /\ push = "read"
    /\ push' = IF installed THEN None ELSE "DeviceNotRegistered"
    /\ UNCHANGED <<tokens, owner, installed, storage, app, req, restarts, history>>

\* By the push token alone, whoever has it by then.
drop ==
    /\ push = "DeviceNotRegistered"
    /\ push' = None /\ owner' = None
    /\ UNCHANGED <<tokens, installed, storage, app, req, restarts, history>>

-----------------------------------------------------------------------------
(* Requests of the app *)

Registering == prompts > 0 \/ \E r \in Slots : req[r].kind = "register" /\ Unserved(r)

\* A new request takes the first slot free, and the token there is when it is made.
Sends(r, kind, as) ==
    /\ req[r] = Idle /\ \A s \in 1..(r - 1) : req[s] # Idle
    /\ req' = [req EXCEPT ![r] = [kind |-> kind, as |-> as, of |-> token, waiting |-> TRUE,
                                  alone |-> FALSE, answer |-> None]]

Heard(r) == req' = [req EXCEPT ![r] = Idle]
GivenUp(r) == req' = [req EXCEPT ![r] = IF Unserved(r) THEN [@ EXCEPT !.waiting = FALSE] ELSE Idle]

\* Both places on the phone are cleared.
clearToken == disk' = None /\ legacy' = FALSE

\* endSession: the token goes from all three places, and no request is made.
EndSession == authToken' = None /\ clearToken /\ token' = None

\* An answer for another session than the one it is applied to.
Strays(r) == authToken # req[r].as

\* call: a refusal ends the session there is when it is heard, if there is one.
CallRefused(r) ==
    IF authToken # None THEN EndSession /\ strayed' = (strayed \/ Strays(r))
    ELSE UNCHANGED <<authToken, storage, token, strayed>>

\* What a customer does in the shell.
order(r) ==
    /\ "order" \in day
    /\ token \in Sessions
    /\ Sends(r, "order", authToken)
    /\ UNCHANGED <<tokens, owner, push, installed, storage, app, restarts, history>>

hearOrder(r) ==
    /\ req[r].kind = "order" /\ req[r].waiting /\ req[r].answer # None
    /\ IF req[r].answer = "ok" THEN UNCHANGED <<authToken, storage, token, strayed>>
       ELSE CallRefused(r)
    /\ Heard(r)
    /\ UNCHANGED <<tokens, owner, push, installed, saving, prompts, restarts, left,
                   registered, late, quiet>>

-----------------------------------------------------------------------------
(* Launch *)

\* An older build's copy goes, whether or not the session can be kept in the safe place.
migrateLegacyToken == disk' \in IF legacy THEN {disk, None} ELSE {disk}

\* What is saved, or nothing when it cannot be read.
loadToken == {disk, None}

\* The effect: no saved session is sign-in at once, another is checked first.
restore(r) ==
    /\ installed /\ token = Restoring
    /\ ~ \E s \in Slots : req[s].kind = "me" /\ req[s].waiting
    /\ \/ /\ None \in loadToken /\ token' = None
          /\ UNCHANGED <<authToken, req, storage>>
       \/ \E t \in loadToken \ {None} :
             /\ authToken' = t /\ Sends(r, "me", t)
             /\ migrateLegacyToken /\ legacy' = FALSE
             /\ UNCHANGED token
    /\ UNCHANGED <<tokens, owner, push, installed, saving, prompts, restarts, history>>

hearMe(r) ==
    /\ req[r].kind = "me" /\ req[r].waiting /\ req[r].answer # None
    /\ IF req[r].answer = "ok" /\ who[req[r].as] \in Customers
       THEN token' = req[r].as /\ UNCHANGED <<authToken, storage>>
       ELSE EndSession
    /\ Heard(r)
    /\ UNCHANGED <<tokens, owner, push, installed, saving, prompts, restarts, history>>

\* Whatever went wrong, the customer starts again.
meFails_SignsOut(r) == EndSession /\ GivenUp(r)
\* Offline, or a server that is starting: the saved session is trusted.
meFails(r) == token' = req[r].as /\ UNCHANGED <<authToken, storage>> /\ GivenUp(r)

connectMeFails(r) ==
    /\ req[r].kind = "me" /\ req[r].waiting
    /\ meFails(r)
    /\ UNCHANGED <<tokens, owner, push, installed, saving, prompts, restarts, history>>

-----------------------------------------------------------------------------
(* Signing in *)

\* A session that cannot be saved safely is not saved.
saveToken(s) == (disk' = s /\ legacy' = FALSE) \/ UNCHANGED storage

\* The token goes on requests at once, and from there to the disk.
handleSignedIn(s) == authToken' = s /\ saving' = s /\ saveToken(s)

\* The code is right, and the role a customer's: another is sent back to the phone number.
handleVerify(u) ==
    /\ token = None /\ saving = None /\ issued < MaxSessions
    /\ issued' = issued + 1 /\ who' = [who EXCEPT ![issued + 1] = u]
    /\ handleSignedIn(issued')
    /\ registered' = None /\ late' = FALSE
    /\ quiet' = IF quiet = u THEN None ELSE quiet
    /\ UNCHANGED <<day, dead, owner, push, installed, token, prompts, req, restarts, left, strayed>>

\* Saved or not, the screen shows the session, and asks to be registered.
saved ==
    /\ saving # None
    /\ token' = saving /\ saving' = None
    /\ prompts' = prompts + 1
    /\ UNCHANGED <<tokens, owner, push, installed, storage, authToken, req, restarts, history>>

\* registerForPush once there is a push token.
registerForPush(r) ==
    /\ prompts > 0 /\ prompts' = prompts - 1
    /\ Sends(r, "register", authToken)
    /\ UNCHANGED <<tokens, owner, push, installed, storage, authToken, token, saving, restarts,
                   history>>

\* Not allowed to, or on a phone that cannot.
denied ==
    /\ prompts > 0 /\ prompts' = prompts - 1
    /\ UNCHANGED <<tokens, owner, push, installed, storage, authToken, token, saving, req,
                   restarts, history>>

hearRegistered(r) ==
    /\ req[r].kind = "register" /\ req[r].waiting /\ req[r].answer # None
    /\ Heard(r)
    /\ IF req[r].answer = "ok"
       THEN /\ UNCHANGED <<authToken, storage, token, strayed>>
            /\ registered' = IF req[r].as = authToken THEN req[r].as ELSE registered
       ELSE CallRefused(r) /\ UNCHANGED registered
    /\ UNCHANGED <<tokens, owner, push, installed, saving, prompts, restarts, left, late,
                   quiet>>

-----------------------------------------------------------------------------
(* Signing out *)

\* The token is cleared before the call that needs it.
signOutToken_Cleared == None
\* The token the unregistering call is made with.
signOutToken == authToken

\* handleSignOut, until it has the push token to unregister.
handleSignOut(r) ==
    /\ token \in Sessions
    /\ Sends(r, "signOut", None)
    /\ left' = left \cup {token}
    /\ UNCHANGED <<tokens, owner, push, installed, storage, app, restarts, registered, late,
                   quiet, strayed>>

\* Its call, with the token there is by then.
unregisterFromPush(r) ==
    /\ req[r].kind = "signOut"
    /\ req' = [req EXCEPT ![r].kind = "unregister", ![r].as = signOutToken, ![r].alone = ~Registering]
    /\ UNCHANGED <<tokens, owner, push, installed, storage, app, restarts, history>>

\* And after it, however it went.
SignedOut(r) ==
    /\ EndSession
    /\ strayed' = (strayed \/ \E s \in {token, authToken} : s \notin {req[r].of, None})

hearUnregistered(r) ==
    /\ req[r].kind = "unregister" /\ req[r].waiting /\ req[r].answer # None
    /\ SignedOut(r) /\ Heard(r)
    /\ quiet' = IF req[r].alone /\ req[r].of \notin dead /\ ~strayed' /\ token = req[r].of
                THEN who[req[r].of] ELSE quiet
    /\ UNCHANGED <<tokens, owner, push, installed, saving, prompts, restarts, left,
                   registered, late>>

\* fetch rejects, or there is no push token: the app goes on, and the server may be served the request
\* still.
connectionFails(r) ==
    /\ req[r].kind \in {"order", "register", "signOut", "unregister"} /\ req[r].waiting
    /\ IF req[r].kind \in {"signOut", "unregister"} THEN SignedOut(r)
       ELSE UNCHANGED <<authToken, storage, token, strayed>>
    /\ GivenUp(r)
    /\ UNCHANGED <<tokens, owner, push, installed, saving, prompts, restarts, left,
                   registered, late, quiet>>

-----------------------------------------------------------------------------
(* The phone *)

\* The process starts over; what it had asked for may still be served.
Restarted ==
    /\ restarts < MaxRestarts /\ restarts' = restarts + 1
    /\ authToken' = None /\ token' = Restoring /\ saving' = None /\ prompts' = 0
    /\ req' = [r \in Slots |-> IF Unserved(r) THEN [req[r] EXCEPT !.waiting = FALSE] ELSE Idle]

killed ==
    /\ "kill" \in day
    /\ installed /\ Restarted
    /\ UNCHANGED <<tokens, owner, push, installed, storage, history>>

removed ==
    /\ "remove" \in day
    /\ installed /\ Restarted
    /\ installed' = FALSE /\ clearToken /\ registered' = None
    /\ UNCHANGED <<tokens, owner, push, left, late, quiet, strayed>>

installs ==
    /\ ~installed /\ installed' = TRUE
    /\ UNCHANGED <<tokens, owner, push, storage, app, req, restarts, history>>

Next ==
    \/ notifyUser \/ send \/ drop
    \/ saved \/ denied \/ killed \/ removed \/ installs
    \/ \E u \in Customers : handleVerify(u)
    \/ \E r \in Slots :
          \/ Serve(r) \/ Lost(r) \/ order(r) \/ hearOrder(r) \/ restore(r) \/ hearMe(r)
          \/ connectMeFails(r) \/ registerForPush(r) \/ hearRegistered(r) \/ handleSignOut(r)
          \/ unregisterFromPush(r) \/ hearUnregistered(r) \/ connectionFails(r)

Spec == Init /\ [][Next]_vars

-----------------------------------------------------------------------------
\* push.service.ts: knowing a push token must not be enough to silence a stranger's phone.  Once a
\* customer's registration is answered, their phone is the one that rings for them until they sign
\* out or remove the app, whatever an earlier session asked for and the server serves only now;
\* unless that is another's registration, their own earlier sign-out, one that still waits for its push
\* token and would make its call with theirs, or a push that found the app gone.
RegisteredIsReached ==
    registered # None /\ token = registered /\ registered \notin left /\ ~late =>
        owner = who[registered]

\* auth.controller.ts: a signed-out phone goes quiet.  Once a sign-out has been answered that had no
\* registration under way beside it, no push for that customer finds the phone until they sign in.
QuietAfterSignOut == quiet # None => owner # quiet

\* App.tsx: a returning customer skips login.  A saved session goes from the phone only when another
\* takes its place, its customer signs out, the server has rejected it or one signed in after it
\* (where it could not be read), it was never a customer's, an older build kept it, or the app is
\* removed; or when an answer to one session was applied to another.
SavedSessionIsKept ==
    [][\A s \in Sessions :
        disk = s /\ disk' # s =>
            \/ disk' # None \/ (\E t \in left \cup dead' : t >= s) \/ who[s] \notin Customers
            \/ legacy \/ ~installed' \/ strayed']_vars
=============================================================================
