------------------------------ MODULE OtpLogin ------------------------------
(***************************************************************************)
(* Logging in to one phone number with a code sent by SMS: the app's       *)
(* button with its retry (LoginScreen, withConnectRetry), the counter that *)
(* limits how often a number is sent a code (PhoneRateLimiter over         *)
(* RedisCounterStore), and AuthService's two handlers over the rows of     *)
(* otp_codes.                                                              *)
(*                                                                         *)
(* A request is resumed at every `await`: each action below is one command *)
(* to Redis, one statement to PostgreSQL or one call to the SMS gateway.   *)
(* Rows that are consumed are never selected again and are dropped here.   *)
(* A code is an identity: it matches what was typed or it does not.  The   *)
(* upsert of the user, who merely has to exist for a code to, is left out. *)
(***************************************************************************)
EXTENDS Integers, Sequences, FiniteSets, SequencesExt

CONSTANTS Requests,     \* slots for requests in flight
          Codes,        \* identities for codes
          Limit,        \* PHONE_OTP_LIMIT.limit
          Window,       \* PHONE_OTP_LIMIT.windowSeconds, in ticks
          MaxAttempts,  \* OTP_MAX_ATTEMPTS
          Sends,        \* withConnectRetry: how often one tap is sent at most
          MaxFaults     \* bound: Redis failures and restarts of the API

ASSUME PolicyAssumption ==
    Limit \in Nat \ {0} /\ Window \in Nat \ {0} /\ MaxAttempts \in Nat \ {0}
ASSUME BoundsAssumption == Sends \in Nat \ {0} /\ MaxFaults \in Nat
\* While a request makes a code, each of the others can have one outstanding and hold
\* another: some identity is always free.
ASSUME CodesAssumption == IsFiniteSet(Requests) /\ IsFiniteSet(Codes)
                          /\ Cardinality(Codes) > 2 * (Cardinality(Requests) - 1)

VARIABLES
    count, ttl,   \* the Redis key of this number: its value, ticks left to live
    codes,        \* the unconsumed rows of otp_codes, oldest first
    attempts,     \* otp_codes.attempts
    expired,      \* the codes past their expires_at
    req,          \* the requests in flight
    app,          \* the app: whether it waits, and how often this tap was sent
    sms,          \* messages sent for this tap, counted up to 2
    faults

redis == <<count, ttl>>
table == <<codes, attempts, expired>>
phone == <<app, sms>>
vars == <<redis, table, req, phone, faults>>

NoExpiry == -1
NoCode == "none"

\* Whose request it is: the app still waits for its answer, the app gave up on
\* it, or it came from another device.
Origins == {"waited", "lost", "other"}

Request == [at    : {"idle", "count", "expire", "invalidate", "create", "send",
                     "burn", "miss"},
            from  : Origins,
            n     : 0..(Limit + 1),       \* the count it was given
            code  : Codes \cup {NoCode}]

Idle == [at |-> "idle", from |-> "other", n |-> 0, code |-> NoCode]

Outstanding == ToSet(codes)

\* The unconsumed rows are now those of cs; what a consumed row says no longer
\* matters.
Keep(cs) ==
    /\ codes' = cs
    /\ attempts' = [c \in Codes |-> IF c \in ToSet(cs) THEN attempts[c] ELSE 0]
    /\ expired' = expired \cap ToSet(cs)

-----------------------------------------------------------------------------
Init ==
    /\ count = 0 /\ ttl = 0
    /\ codes = <<>> /\ attempts = [c \in Codes |-> 0] /\ expired = {}
    /\ req = [r \in Requests |-> Idle]
    /\ app = [at |-> "idle", sent |-> 0] /\ sms = 0
    /\ faults = 0

Goes(r, point) == req' = [req EXCEPT ![r] = [@ EXCEPT !.at = point, !.n = 0]]

\* The request answers; the app hears it if it still waits for this one.
Answers(r) ==
    /\ req' = [req EXCEPT ![r] = Idle]
    /\ app' = IF req[r].from = "waited" THEN [app EXCEPT !.at = "idle"] ELSE app

-----------------------------------------------------------------------------
(* The app, and other devices. *)

Starts(r, from) ==
    /\ req[r] = Idle
    /\ req' = [req EXCEPT ![r] = [Idle EXCEPT !.at = "count", !.from = from]]

\* The button: a new tap, which older requests no longer belong to.
Tap(r) ==
    /\ app.at = "idle"
    /\ req[r] = Idle
    /\ req' = [s \in Requests |-> IF s = r THEN [Idle EXCEPT !.at = "count", !.from = "waited"]
                                           ELSE [req[s] EXCEPT !.from = "other"]]
    /\ app' = [at |-> "waiting", sent |-> 1]
    /\ sms' = 0
    /\ UNCHANGED <<redis, table, faults>>

\* The connection fails, wherever the request is by then: the app will send the
\* tap again unless it has done so often enough.
ConnectionFails ==
    /\ app.at = "waiting"
    /\ app' = [app EXCEPT !.at = IF app.sent < Sends THEN "retrying" ELSE "idle"]
    /\ req' = [r \in Requests |-> IF req[r].from = "waited"
                                  THEN [req[r] EXCEPT !.from = "lost"] ELSE req[r]]
    /\ UNCHANGED <<redis, table, sms, faults>>

Retry(r) ==
    /\ app.at = "retrying"
    /\ Starts(r, "waited")
    /\ app' = [at |-> "waiting", sent |-> app.sent + 1]
    /\ UNCHANGED <<redis, table, sms, faults>>

OtherDevice(r) ==
    /\ Starts(r, "other")
    /\ UNCHANGED <<redis, table, phone, faults>>

-----------------------------------------------------------------------------
(* PhoneRateLimiter.consumeOtpRequest over RedisCounterStore.increment *)

\* Admitted to requestOtp's work, or turned away with a 429.
Decides(r, n) ==
    IF n > Limit THEN Answers(r)
    ELSE Goes(r, "invalidate") /\ UNCHANGED app

\* EXPIRE on the first increment only, as the comment above the class has it.
Counts_FirstSetsExpiry(r) ==
    LET n == IF count > Limit THEN count ELSE count + 1
    IN  /\ req[r].at = "count"
        /\ count' = n
        /\ IF n > 1
           THEN Decides(r, n) /\ UNCHANGED ttl
           ELSE /\ ttl' = NoExpiry
                /\ req' = [req EXCEPT ![r] = [@ EXCEPT !.at = "expire", !.n = n]]
                /\ UNCHANGED app
        /\ UNCHANGED <<table, sms, faults>>

\* MULTI INCR TTL; the count is followed up to Limit + 1.  A key without a
\* lifetime is given one next.
Counts(r) ==
    LET n == IF count > Limit THEN count ELSE count + 1
    IN  /\ req[r].at = "count"
        /\ count' = n
        /\ IF ttl > 0
           THEN Decides(r, n) /\ UNCHANGED ttl
           ELSE /\ ttl' = NoExpiry
                /\ req' = [req EXCEPT ![r] = [@ EXCEPT !.at = "expire", !.n = n]]
                /\ UNCHANGED app
        /\ UNCHANGED <<table, sms, faults>>

\* EXPIRE, a no-op on a key that is gone.
Expires(r) ==
    /\ req[r].at = "expire"
    /\ ttl' = IF count = 0 THEN 0 ELSE Window
    /\ Decides(r, req[r].n)
    /\ UNCHANGED <<count, table, sms, faults>>

\* Redis fails before or after it did its part: the request is let through.
RedisFails(r) ==
    /\ faults < MaxFaults
    /\ faults' = faults + 1
    /\ \/ req[r].at = "count" /\ UNCHANGED redis
       \/ /\ req[r].at = "count"
          /\ count' = IF count > Limit THEN count ELSE count + 1
          /\ ttl' = IF count = 0 THEN NoExpiry ELSE ttl
       \/ req[r].at = "expire" /\ UNCHANGED redis
    /\ Goes(r, "invalidate")
    /\ UNCHANGED <<table, phone>>

\* The connection to Redis breaks after the command took effect, and the client,
\* which never saw the answer, sends it again.
RedisResends(r) ==
    /\ req[r].at = "count" /\ faults < MaxFaults
    /\ faults' = faults + 1
    /\ count' = IF count > Limit THEN count ELSE count + 1
    /\ ttl' = IF count = 0 THEN NoExpiry ELSE ttl
    /\ UNCHANGED <<table, req, phone>>

\* Time passes for the key, which goes when its lifetime is over.
Tick ==
    /\ ttl > 0
    /\ ttl' = ttl - 1
    /\ count' = IF ttl = 1 THEN 0 ELSE count
    /\ UNCHANGED <<table, req, phone, faults>>

-----------------------------------------------------------------------------
(* AuthService.requestOtp *)

\* A handler that leaves the older codes alone.
Invalidates_Forgotten(r) ==
    /\ req[r].at = "invalidate"
    /\ Goes(r, "create")
    /\ UNCHANGED <<redis, table, phone, faults>>
Invalidates(r) ==
    /\ req[r].at = "invalidate"
    /\ Keep(<<>>)
    /\ Goes(r, "create")
    /\ UNCHANGED <<redis, phone, faults>>

\* Which identity a new code has does not matter, only that it is in no use.
Unused == {c \in Codes : c \notin Outstanding /\ \A r \in Requests : req[r].code # c}

Creates(r) ==
    /\ req[r].at = "create"
    /\ Unused # {}
    /\ Keep(Append(codes, CHOOSE c \in Unused : TRUE))
    /\ Goes(r, "send")
    /\ UNCHANGED <<redis, phone, faults>>

\* The gateway takes the message or not; the app is told either way.
SendsSms(r) ==
    /\ req[r].at = "send"
    /\ \/ sms' = IF req[r].from # "other" /\ sms < 2 THEN sms + 1 ELSE sms
       \/ UNCHANGED sms
    /\ Answers(r)
    /\ UNCHANGED <<redis, table, faults>>

-----------------------------------------------------------------------------
(* AuthService.verifyOtp *)

\* The newest unconsumed code is read and passes its checks; then the hash is
\* compared with what was typed, right or wrong.
VerifyReads_Unlimited(r) ==
    /\ req[r] = Idle
    /\ codes # <<>>
    /\ Last(codes) \notin expired
    /\ \E point \in {"burn", "miss"} :
          req' = [req EXCEPT ![r] = [Idle EXCEPT !.at = point, !.code = Last(codes)]]
    /\ UNCHANGED <<redis, table, phone, faults>>
VerifyReads(r) ==
    /\ req[r] = Idle
    /\ codes # <<>>
    /\ Last(codes) \notin expired
    /\ attempts[Last(codes)] < MaxAttempts
    /\ \E point \in {"burn", "miss"} :
          req' = [req EXCEPT ![r] = [Idle EXCEPT !.at = point, !.code = Last(codes)]]
    /\ UNCHANGED <<redis, table, phone, faults>>

VerifyMisses(r) ==
    /\ req[r].at = "miss"
    /\ attempts' = [attempts EXCEPT ![req[r].code] =
                       IF req[r].code \in Outstanding THEN @ + 1 ELSE @]
    /\ req' = [req EXCEPT ![r] = Idle]
    /\ UNCHANGED <<redis, codes, expired, phone, faults>>

\* The code is consumed, unless a newer request has done so meanwhile, and the
\* customer is signed in.
VerifyBurns(r) ==
    /\ req[r].at = "burn"
    /\ \/ \E i \in DOMAIN codes : codes[i] = req[r].code /\ Keep(RemoveAt(codes, i))
       \/ req[r].code \notin Outstanding /\ UNCHANGED table
    /\ req' = [req EXCEPT ![r] = Idle]
    /\ UNCHANGED <<redis, phone, faults>>

\* A code passes its expires_at, which the handler worked out before it inserted
\* the row: the order of two need not be that of their rows.
CodeExpires ==
    /\ \E c \in Outstanding \ expired : expired' = expired \cup {c}
    /\ UNCHANGED <<redis, codes, attempts, req, phone, faults>>

-----------------------------------------------------------------------------
\* The API process dies and comes back; the app sees its connection fail.
Restart ==
    /\ faults < MaxFaults
    /\ faults' = faults + 1
    /\ req' = [r \in Requests |-> Idle]
    /\ app' = [app EXCEPT !.at =
                  IF app.at # "waiting" THEN app.at
                  ELSE IF app.sent < Sends THEN "retrying" ELSE "idle"]
    /\ UNCHANGED <<redis, table, sms>>

Step(r) ==
    \/ Counts(r) \/ Expires(r)
    \/ Invalidates(r) \/ Creates(r) \/ SendsSms(r)
    \/ VerifyMisses(r) \/ VerifyBurns(r)

Next ==
    \/ ConnectionFails \/ Tick \/ CodeExpires \/ Restart
    \/ \E r \in Requests :
          \/ Tap(r) \/ Retry(r) \/ OtherDevice(r) \/ VerifyReads(r)
          \/ RedisFails(r) \/ RedisResends(r) \/ Step(r)

Spec == Init /\ [][Next]_vars

\* Time passes, requests in flight are resumed, and somebody keeps asking for
\* codes: the caller who retries is the one the limit must not shut out for good.
FairSpec ==
    /\ Spec
    /\ WF_vars(Tick)
    /\ \A r \in Requests : WF_vars(Step(r))
    /\ SF_vars(\E r \in Requests : OtherDevice(r))

-----------------------------------------------------------------------------
\* Every variable has its type; the key has a lifetime exactly when it exists.
TypeOK ==
    /\ count \in 0..(Limit + 1) /\ ttl \in {NoExpiry} \cup 0..Window
    /\ count = 0 <=> ttl = 0
    /\ codes \in Seq(Codes)
    /\ attempts \in [Codes -> Nat]
    /\ expired \in SUBSET Codes
    /\ req \in [Requests -> Request]
    /\ app \in [at : {"idle", "waiting", "retrying"}, sent : 0..Sends]
    /\ sms \in 0..2
    /\ faults \in 0..MaxFaults

\* Asking again invalidates what was asked for before: only requests that overlapped
\* can leave more than one code outstanding, and no more than there were of them.
OneCodePerOverlap == Len(codes) <= Cardinality(Requests)

\* The attempts on a code are checked when it is read and counted when the hash was
\* compared; overlapping attempts can pass the limit, but only by their own number.
AttemptsBounded ==
    \A c \in Outstanding : attempts[c] < MaxAttempts + Cardinality(Requests)

\* counter-store.ts: a caller cannot hold themselves throttled forever by retrying.
\* The counter is gone again and again, though an EXPIRE may be lost to a failure or
\* a restart and requests keep coming.
NotThrottledForever == []<>(count = 0)

-----------------------------------------------------------------------------
(* What a comment says and the code does not keep. *)

\* LoginScreen: the request never reached the server, so re-sending cannot
\* duplicate anything.  A tap is answered by one message at most.
OneSmsPerTap == sms <= 1
=============================================================================
