--------------------------- MODULE OtpLoginProofs ---------------------------
(***************************************************************************)
(* What overlapping requests on one phone number can cost, for any number  *)
(* of them, any limits and any number of failures.                         *)
(***************************************************************************)
EXTENDS OtpLogin, FiniteSetTheorems, TLAPS

\* The requests between invalidating and creating, and those whose attempt on c
\* was wrong and is not counted yet.
Creating == {r \in Requests : req[r].at = "create"}
Missing(c) == {r \in Requests : req[r].at = "miss" /\ req[r].code = c}

\* A request past its invalidation is as good as one more code.
CodesInv == Len(codes) + Cardinality(Creating) <= Cardinality(Requests)

\* An attempt about to be counted is as good as counted.
AttemptsInv ==
    \A c \in Codes :
        attempts[c] + Cardinality(Missing(c)) <= MaxAttempts - 1 + Cardinality(Requests)

\* The app sends a tap again only while it has sends left, and a compared attempt
\* names its code.
RequestsInv ==
    /\ app.at = "retrying" => app.sent < Sends
    /\ \A r \in Requests : req[r].at \in {"burn", "miss"} => req[r].code \in Codes

LoginInv == TypeOK /\ RequestsInv /\ CodesInv /\ AttemptsInv

-----------------------------------------------------------------------------
\* The sets counted above are finite, and no larger than the set of requests.
LEMMA FiniteRequests ==
    ASSUME NEW S \in SUBSET Requests
    PROVE  /\ IsFiniteSet(S) /\ Cardinality(S) \in Nat
           /\ Cardinality(Requests) \in Nat /\ Cardinality(S) <= Cardinality(Requests)
BY FS_Subset, FS_CardinalityType, CodesAssumption DEF CodesAssumption

\* A smaller set of requests counts for no more.
LEMMA Fewer ==
    ASSUME NEW S \in SUBSET Requests, NEW T \in SUBSET S
    PROVE  Cardinality(T) <= Cardinality(S)
BY FS_Subset, FiniteRequests

\* One request leaves the set.
LEMMA OneLeaves ==
    ASSUME NEW S \in SUBSET Requests, NEW r \in S
    PROVE  Cardinality(S \ {r}) = Cardinality(S) - 1
BY FS_RemoveElement, FiniteRequests

\* Taking out one row, as VerifyBurns does.
LEMMA RemoveAtType ==
    ASSUME NEW s \in Seq(Codes), NEW i \in DOMAIN s
    PROVE  RemoveAt(s, i) \in Seq(Codes) /\ Len(RemoveAt(s, i)) = Len(s) - 1
BY DEF RemoveAt

\* Keeping other rows leaves each code as many attempts as it had, or none.
LEMMA KeepType ==
    ASSUME TypeOK, NEW cs \in Seq(Codes), Keep(cs)
    PROVE  /\ codes' \in Seq(Codes)
           /\ attempts' \in [Codes -> Nat]
           /\ expired' \in SUBSET Codes
           /\ \A c \in Codes : attempts'[c] <= attempts[c]
BY DEF TypeOK, Keep

-----------------------------------------------------------------------------
\* What moving one request does to the table of requests.
LEMMA GoesType ==
    ASSUME TypeOK, NEW r \in Requests, NEW p, Goes(r, p),
           p \in {"idle", "count", "expire", "invalidate", "create", "send", "burn", "miss"}
    PROVE  /\ req' \in [Requests -> Request]
           /\ req'[r].at = p /\ req'[r].code = req[r].code
           /\ \A s \in Requests \ {r} : req'[s] = req[s]
<1>1. req[r] \in Request /\ 0 \in 0..(Limit + 1)
  BY PolicyAssumption DEF PolicyAssumption, TypeOK
<1>. DEFINE q == [req[r] EXCEPT !.at = p, !.n = 0]
<1>2. q \in Request /\ q.at = p /\ q.code = req[r].code
  BY <1>1 DEF Request
<1>3. req' = [req EXCEPT ![r] = q]
  BY DEF Goes
<1>. HIDE DEF q
<1>. QED  BY <1>2, <1>3 DEF TypeOK

LEMMA IdleType == Idle \in Request /\ Idle.at = "idle"
BY PolicyAssumption DEF PolicyAssumption, Idle, Request, Origins, NoCode

LEMMA AnswersType ==
    ASSUME TypeOK, RequestsInv, NEW r \in Requests, Answers(r)
    PROVE  /\ req' \in [Requests -> Request]
           /\ req'[r].at = "idle"
           /\ \A s \in Requests \ {r} : req'[s] = req[s]
           /\ app' \in [at : {"idle", "waiting", "retrying"}, sent : 0..Sends]
           /\ app'.at = "retrying" => app'.sent < Sends
<1>1. req' = [req EXCEPT ![r] = Idle]
  BY DEF Answers
<1>2. app' = app \/ app' = [app EXCEPT !.at = "idle"]
  BY DEF Answers
<1>. QED  BY <1>1, <1>2, IdleType DEF TypeOK, RequestsInv

\* A request that is decided goes to its invalidation or is turned away.
LEMMA DecidesType ==
    ASSUME TypeOK, RequestsInv, NEW r \in Requests, NEW n \in Nat, Decides(r, n)
    PROVE  /\ req' \in [Requests -> Request]
           /\ req'[r].at \in {"idle", "invalidate"}
           /\ \A s \in Requests \ {r} : req'[s] = req[s]
           /\ app' \in [at : {"idle", "waiting", "retrying"}, sent : 0..Sends]
           /\ app'.at = "retrying" => app'.sent < Sends
<1>1. CASE n > Limit
  BY <1>1, AnswersType DEF Decides
<1>2. CASE ~(n > Limit)
  BY <1>2, GoesType DEF Decides, TypeOK, RequestsInv
<1>. QED  BY <1>1, <1>2

-----------------------------------------------------------------------------
\* The bound on codes is kept by a step after which there are no more rows, and no
\* request is about to create one that was not before.
LEMMA CodesKept ==
    ASSUME TypeOK, CodesInv, codes' \in Seq(Codes), Len(codes') <= Len(codes),
           \A s \in Requests : req'[s].at = "create" => req[s].at = "create"
    PROVE  CodesInv'
<1>1. Creating' \in SUBSET Creating /\ Creating \in SUBSET Requests
  BY DEF Creating
<1>2. Cardinality(Creating') <= Cardinality(Creating)
  BY <1>1, Fewer
<1>3. /\ Len(codes) \in Nat /\ Len(codes') \in Nat
      /\ Cardinality(Creating) \in Nat /\ Cardinality(Creating') \in Nat
      /\ Cardinality(Requests) \in Nat
  BY <1>1, FiniteRequests DEF TypeOK
<1>. QED  BY <1>2, <1>3 DEF CodesInv

\* The bound on attempts is kept by a step that adds neither an attempt nor one about
\* to be counted.
LEMMA AttemptsKept ==
    ASSUME TypeOK, AttemptsInv, attempts' \in [Codes -> Nat],
           \A c \in Codes : attempts'[c] <= attempts[c],
           \A s \in Requests : req'[s].at = "miss" =>
               req[s].at = "miss" /\ req'[s].code = req[s].code
    PROVE  AttemptsInv'
<1>. SUFFICES ASSUME NEW c \in Codes
              PROVE  attempts'[c] + Cardinality(Missing(c)') <=
                         MaxAttempts - 1 + Cardinality(Requests)
  BY DEF AttemptsInv
<1>1. Missing(c)' \in SUBSET Missing(c) /\ Missing(c) \in SUBSET Requests
  BY DEF Missing
<1>2. Cardinality(Missing(c)') <= Cardinality(Missing(c))
  BY <1>1, Fewer
<1>3. /\ attempts[c] \in Nat /\ attempts'[c] \in Nat
      /\ Cardinality(Missing(c)) \in Nat /\ Cardinality(Missing(c)') \in Nat
      /\ Cardinality(Requests) \in Nat /\ MaxAttempts \in Nat
  BY <1>1, FiniteRequests, PolicyAssumption DEF TypeOK, PolicyAssumption
<1>4. attempts[c] + Cardinality(Missing(c)) <= MaxAttempts - 1 + Cardinality(Requests)
  BY DEF AttemptsInv
<1>. QED  BY <1>2, <1>3, <1>4

-----------------------------------------------------------------------------
LEMMA InitLogin == Init => LoginInv
<1>. SUFFICES ASSUME Init PROVE LoginInv
  OBVIOUS
<1>1. TypeOK
  <2>1. req \in [Requests -> Request] /\ \A r \in Requests : req[r].at = "idle"
    BY IdleType DEF Init
  <2>2. /\ 0 \in 0..(Limit + 1) /\ 0 \in 0..Window /\ 0 \in 0..Sends /\ 0 \in 0..MaxFaults
        /\ <<>> \in Seq(Codes)
    BY PolicyAssumption, BoundsAssumption DEF PolicyAssumption, BoundsAssumption
  <2>. QED  BY <2>1, <2>2 DEF Init, TypeOK
<1>2. RequestsInv
  BY DEF Init, RequestsInv, Idle
<1>3. Creating = {} /\ \A c \in Codes : Missing(c) = {}
  BY DEF Init, Creating, Missing, Idle
<1>4. CodesInv
  BY <1>3, FS_EmptySet, FiniteRequests DEF Init, CodesInv
<1>5. AttemptsInv
  BY <1>3, FS_EmptySet, FiniteRequests, PolicyAssumption
     DEF Init, AttemptsInv, PolicyAssumption
<1>. QED  BY <1>1, <1>2, <1>4, <1>5 DEF LoginInv

-----------------------------------------------------------------------------
(* One lemma per group of actions. *)

\* The app: its taps, its connection, another device, and time.
LEMMA AppStep ==
    ASSUME LoginInv,
           \/ ConnectionFails \/ Tick \/ CodeExpires \/ Restart
           \/ \E r \in Requests : Tap(r) \/ Retry(r) \/ OtherDevice(r)
    PROVE  LoginInv'
<1>. USE DEF LoginInv
<1>1. CASE ConnectionFails
  <2>1. /\ req' \in [Requests -> Request]
        /\ \A r \in Requests : req'[r].at = req[r].at /\ req'[r].code = req[r].code
    <3>1. \A r \in Requests : req[r] \in Request
      BY DEF TypeOK
    <3>. QED  BY <1>1, <3>1 DEF ConnectionFails, Request, Origins
  <2>2. TypeOK'
    BY <1>1, <2>1 DEF ConnectionFails, TypeOK, redis, table
  <2>3. RequestsInv'
    BY <1>1, <2>1 DEF ConnectionFails, RequestsInv, TypeOK
  <2>. QED  BY <1>1, <2>1, <2>2, <2>3, CodesKept, AttemptsKept
            DEF ConnectionFails, table, TypeOK
<1>2. CASE Tick
  <2>1. TypeOK'
    BY <1>2, PolicyAssumption
       DEF Tick, TypeOK, table, phone, NoExpiry, PolicyAssumption
  <2>. QED  BY <1>2, <2>1, CodesKept, AttemptsKept DEF Tick, table, phone, RequestsInv, TypeOK
<1>3. CASE CodeExpires
  <2>1. TypeOK'
    BY <1>3 DEF CodeExpires, TypeOK, redis, phone, Outstanding, ToSet
  <2>. QED  BY <1>3, <2>1, CodesKept, AttemptsKept
            DEF CodeExpires, redis, phone, RequestsInv, TypeOK
<1>4. CASE Restart
  <2>1. req' \in [Requests -> Request] /\ \A r \in Requests : req'[r].at = "idle"
    BY <1>4, IdleType DEF Restart
  <2>2. TypeOK'
    <3>1. \E p \in {"idle", "waiting", "retrying"} : app' = [app EXCEPT !.at = p]
      BY <1>4 DEF Restart, TypeOK
    <3>2. app' \in [at : {"idle", "waiting", "retrying"}, sent : 0..Sends]
      BY <3>1 DEF TypeOK
    <3>3. faults' \in 0..MaxFaults
      BY <1>4, BoundsAssumption DEF Restart, TypeOK, BoundsAssumption
    <3>. QED  BY <1>4, <2>1, <3>2, <3>3 DEF Restart, TypeOK, redis, table
  <2>3. RequestsInv'
    BY <1>4, <2>1 DEF Restart, RequestsInv, TypeOK
  <2>. QED  BY <1>4, <2>1, <2>2, <2>3, CodesKept, AttemptsKept DEF Restart, table, TypeOK
<1>5. ASSUME NEW r \in Requests, Tap(r) \/ Retry(r) \/ OtherDevice(r)
      PROVE  LoginInv'
  <2>1. req' \in [Requests -> Request]
    <3>1. \A s \in Requests : req[s] \in Request
      BY DEF TypeOK
    <3>2. \A f \in Origins : [Idle EXCEPT !.at = "count", !.from = f] \in Request
      BY IdleType DEF Request
    <3>3. \A s \in Requests : [req[s] EXCEPT !.from = "other"] \in Request
      BY <3>1 DEF Request, Origins
    <3>. QED  BY <1>5, <3>1, <3>2, <3>3 DEF Tap, Retry, OtherDevice, Starts, TypeOK, Origins
  <2>2. \A s \in Requests : \/ req'[s].at = "count"
                            \/ req'[s].at = req[s].at /\ req'[s].code = req[s].code
    <3>1. \A f \in Origins : [Idle EXCEPT !.at = "count", !.from = f].at = "count"
      BY DEF Idle
    <3>2. \A s \in Requests : /\ [req[s] EXCEPT !.from = "other"].at = req[s].at
                             /\ [req[s] EXCEPT !.from = "other"].code = req[s].code
      BY DEF TypeOK, Request
    <3>3. CASE Tap(r)
      BY <3>1, <3>2, <3>3 DEF Tap, Origins
    <3>4. ASSUME NEW f \in Origins, Starts(r, f) PROVE <2>2!:
      BY <3>1, <3>4 DEF Starts, TypeOK
    <3>. QED  BY <1>5, <3>3, <3>4 DEF Retry, OtherDevice, Origins
  <2>3. TypeOK'
    BY <1>5, <2>1, BoundsAssumption
       DEF Tap, Retry, OtherDevice, TypeOK, RequestsInv, redis, table, phone, BoundsAssumption
  <2>4. RequestsInv'
    BY <1>5, <2>2 DEF Tap, Retry, OtherDevice, RequestsInv, TypeOK, phone
  <2>. QED  BY <1>5, <2>2, <2>3, <2>4, CodesKept, AttemptsKept
            DEF Tap, Retry, OtherDevice, table, TypeOK
<1>. QED  BY <1>1, <1>2, <1>3, <1>4, <1>5

\* A step that leaves the rows of otp_codes alone, and moves one request neither to the
\* creation of a code nor to the count of an attempt.
LEMMA RowsAlone ==
    ASSUME LoginInv, TypeOK', NEW r \in Requests, UNCHANGED table,
           req'[r].at \notin {"create", "burn", "miss"},
           \A s \in Requests \ {r} : req'[s] = req[s],
           app'.at = "retrying" => app'.sent < Sends
    PROVE  LoginInv'
<1>. USE DEF LoginInv
<1>1. RequestsInv'
  BY DEF RequestsInv
<1>2. /\ codes' \in Seq(Codes) /\ Len(codes') <= Len(codes)
      /\ attempts' \in [Codes -> Nat] /\ \A c \in Codes : attempts'[c] <= attempts[c]
  BY DEF table, TypeOK
<1>3. CodesInv'
  BY <1>2, CodesKept
<1>4. AttemptsInv'
  BY <1>2, AttemptsKept
<1>. QED  BY <1>1, <1>3, <1>4

\* The limiter and its Redis key.
LEMMA LimiterStep ==
    ASSUME LoginInv, NEW r \in Requests,
           Counts(r) \/ Expires(r) \/ RedisFails(r) \/ RedisResends(r)
    PROVE  LoginInv'
<1>. USE DEF LoginInv
<1>. DEFINE n == IF count > Limit THEN count ELSE count + 1
<1>1. n \in 1..(Limit + 1)
  BY PolicyAssumption DEF TypeOK, PolicyAssumption
<1>. HIDE DEF n
<1>2. CASE Counts(r)
  <2>1. CASE ttl > 0
    <3>1. Decides(r, n) /\ count' = n /\ ttl' = ttl /\ UNCHANGED <<table, sms, faults>>
      BY <1>2, <2>1 DEF Counts, n
    <3>2. n \in Nat
      BY <1>1
    <3>3. TypeOK'
      BY <1>1, <2>1, <3>1, <3>2, DecidesType DEF TypeOK, table
    <3>. QED  BY <3>1, <3>2, <3>3, DecidesType, RowsAlone
  <2>2. CASE ~(ttl > 0)
    <3>. DEFINE q == [req[r] EXCEPT !.at = "expire", !.n = n]
    <3>1. /\ count' = n /\ ttl' = NoExpiry /\ req' = [req EXCEPT ![r] = q]
          /\ UNCHANGED <<app, table, sms, faults>>
      BY <1>2, <2>2 DEF Counts, n
    <3>2. q \in Request /\ q.at = "expire"
      <4>1. req[r] \in Request /\ n \in 0..(Limit + 1)
        BY <1>1, PolicyAssumption DEF TypeOK, PolicyAssumption
      <4>. QED  BY <4>1 DEF Request
    <3>. HIDE DEF q
    <3>3. TypeOK'
      BY <1>1, <3>1, <3>2 DEF TypeOK, table, NoExpiry
    <3>. QED  BY <3>1, <3>2, <3>3, RowsAlone DEF RequestsInv, TypeOK
  <2>. QED  BY <2>1, <2>2
<1>3. CASE Expires(r)
  <2>1. req[r].n \in Nat
    BY DEF TypeOK, Request
  <2>2. TypeOK'
    BY <1>3, <2>1, DecidesType, PolicyAssumption
       DEF Expires, TypeOK, table, NoExpiry, PolicyAssumption
  <2>. QED  BY <1>3, <2>1, <2>2, DecidesType, RowsAlone DEF Expires
<1>4. CASE RedisFails(r)
  <2>1. Goes(r, "invalidate") /\ UNCHANGED <<table, phone>>
    BY <1>4 DEF RedisFails
  <2>2. \/ UNCHANGED redis
        \/ count' = n /\ ttl' = IF count = 0 THEN NoExpiry ELSE ttl
    BY <1>4 DEF RedisFails, n
  <2>3. faults' \in 0..MaxFaults
    BY <1>4, BoundsAssumption DEF RedisFails, TypeOK, BoundsAssumption
  <2>4. TypeOK'
    BY <1>1, <2>1, <2>2, <2>3, GoesType DEF TypeOK, table, phone, redis, NoExpiry
  <2>. QED  BY <2>1, <2>4, GoesType, RowsAlone DEF phone, RequestsInv
<1>5. CASE RedisResends(r)
  <2>1. count' = n /\ ttl' = (IF count = 0 THEN NoExpiry ELSE ttl) /\ req[r].at = "count"
    BY <1>5 DEF RedisResends, n
  <2>2. faults' \in 0..MaxFaults
    BY <1>5, BoundsAssumption DEF RedisResends, TypeOK, BoundsAssumption
  <2>3. TypeOK'
    BY <1>1, <1>5, <2>1, <2>2 DEF RedisResends, TypeOK, table, phone, NoExpiry
  <2>. QED  BY <1>5, <2>1, <2>3, RowsAlone DEF RedisResends, phone, RequestsInv
<1>. QED  BY <1>2, <1>3, <1>4, <1>5

\* AuthService.requestOtp.
LEMMA RequestStep ==
    ASSUME LoginInv, NEW r \in Requests,
           Invalidates(r) \/ Creates(r) \/ SendsSms(r)
    PROVE  LoginInv'
<1>. USE DEF LoginInv
<1>1. CASE Invalidates(r)
  <2>1. Keep(<<>>) /\ Goes(r, "create") /\ UNCHANGED <<redis, phone, faults>>
    BY <1>1 DEF Invalidates
  <2>2. codes' = <<>> /\ <<>> \in Seq(Codes) /\ Len(codes') = 0
    BY <2>1 DEF Keep
  <2>3. TypeOK'
    BY <2>1, <2>2, GoesType, KeepType DEF TypeOK, redis, phone
  <2>4. RequestsInv'
    BY <2>1, GoesType DEF RequestsInv, phone
  <2>5. CodesInv'
    <3>1. Creating' \in SUBSET Requests
      BY DEF Creating
    <3>. QED  BY <2>2, <3>1, FiniteRequests DEF CodesInv
  <2>6. AttemptsInv'
    BY <2>1, <2>2, <2>3, GoesType, KeepType, AttemptsKept DEF TypeOK
  <2>. QED  BY <2>3, <2>4, <2>5, <2>6
<1>2. CASE Creates(r)
  <2>. DEFINE c == CHOOSE c \in Unused : TRUE
  <2>1. c \in Codes
    BY <1>2 DEF Creates, Unused
  <2>. HIDE DEF c
  <2>2. /\ Keep(Append(codes, c)) /\ Goes(r, "send") /\ UNCHANGED <<redis, phone, faults>>
        /\ req[r].at = "create"
    BY <1>2 DEF Creates, c
  <2>3. Append(codes, c) \in Seq(Codes) /\ codes' = Append(codes, c) /\ Len(codes') = Len(codes) + 1
    BY <2>1, <2>2 DEF Keep, TypeOK
  <2>4. TypeOK'
    BY <2>2, <2>3, GoesType, KeepType DEF TypeOK, redis, phone
  <2>5. RequestsInv'
    BY <2>2, GoesType DEF RequestsInv, phone
  <2>6. CodesInv'
    <3>1. Creating' = Creating \ {r} /\ r \in Creating /\ Creating \in SUBSET Requests
      BY <2>2, GoesType DEF Creating
    <3>2. Cardinality(Creating') = Cardinality(Creating) - 1
      BY <3>1, OneLeaves
    <3>. QED  BY <2>3, <3>1, <3>2, FiniteRequests DEF CodesInv, TypeOK
  <2>7. AttemptsInv'
    BY <2>2, <2>3, <2>4, GoesType, KeepType, AttemptsKept DEF TypeOK
  <2>. QED  BY <2>4, <2>5, <2>6, <2>7
<1>3. CASE SendsSms(r)
  <2>1. sms' \in 0..2
    BY <1>3 DEF SendsSms, TypeOK
  <2>2. TypeOK'
    BY <1>3, <2>1, AnswersType DEF SendsSms, TypeOK, redis, table
  <2>. QED  BY <1>3, <2>2, AnswersType, RowsAlone DEF SendsSms
<1>. QED  BY <1>1, <1>2, <1>3

\* AuthService.verifyOtp.
LEMMA VerifyStep ==
    ASSUME LoginInv, NEW r \in Requests,
           VerifyReads(r) \/ VerifyMisses(r) \/ VerifyBurns(r)
    PROVE  LoginInv'
<1>. USE DEF LoginInv
<1>1. CASE VerifyReads(r)
  <2>. DEFINE d == Last(codes)
  <2>1. d \in Codes /\ attempts[d] <= MaxAttempts - 1
    <3>1. d \in Codes
      BY <1>1 DEF VerifyReads, TypeOK, Last
    <3>. QED  BY <1>1, <3>1, PolicyAssumption DEF VerifyReads, TypeOK, PolicyAssumption
  <2>. HIDE DEF d
  <2>2. PICK p \in {"burn", "miss"} : req' = [req EXCEPT ![r] = [Idle EXCEPT !.at = p, !.code = d]]
    BY <1>1 DEF VerifyReads, d
  <2>. DEFINE q == [Idle EXCEPT !.at = p, !.code = d]
  <2>3. q \in Request /\ q.at \in {"burn", "miss"} /\ q.code = d
    BY <2>1, IdleType DEF Request
  <2>. HIDE DEF q
  <2>4. /\ req' \in [Requests -> Request] /\ req'[r] = q
        /\ \A s \in Requests \ {r} : req'[s] = req[s]
    BY <2>2, <2>3 DEF q, TypeOK
  <2>5. /\ UNCHANGED <<redis, table, phone, faults>>
        /\ codes' \in Seq(Codes) /\ Len(codes') <= Len(codes)
    BY <1>1 DEF VerifyReads, table, TypeOK
  <2>6. TypeOK'
    BY <2>4, <2>5 DEF TypeOK, redis, table, phone
  <2>7. RequestsInv'
    BY <2>1, <2>3, <2>4, <2>5 DEF RequestsInv, phone
  <2>8. CodesInv'
    BY <2>3, <2>4, <2>5, CodesKept
  <2>9. AttemptsInv'
    <3>. SUFFICES ASSUME NEW c \in Codes
                  PROVE  attempts[c] + Cardinality(Missing(c)') <=
                             MaxAttempts - 1 + Cardinality(Requests)
      BY <2>5 DEF AttemptsInv, table
    <3>1. /\ Missing(c) \in SUBSET Requests /\ Missing(c)' \in SUBSET Requests
          /\ attempts[c] \in Nat /\ MaxAttempts \in Nat
      BY PolicyAssumption DEF Missing, TypeOK, PolicyAssumption
    <3>2. CASE c = d
      BY <2>1, <3>1, <3>2, FiniteRequests
    <3>3. CASE c # d
      <4>1. Missing(c)' \in SUBSET Missing(c)
        BY <2>3, <2>4, <3>3 DEF Missing
      <4>2. Cardinality(Missing(c)') <= Cardinality(Missing(c))
        BY <3>1, <4>1, Fewer
      <4>3. attempts[c] + Cardinality(Missing(c)) <= MaxAttempts - 1 + Cardinality(Requests)
        BY DEF AttemptsInv
      <4>. QED  BY <3>1, <4>2, <4>3, FiniteRequests
    <3>. QED  BY <3>2, <3>3
  <2>. QED  BY <2>6, <2>7, <2>8, <2>9
<1>2. CASE VerifyMisses(r)
  <2>. DEFINE d == req[r].code
  <2>1. d \in Codes /\ req[r].at = "miss"
    BY <1>2 DEF VerifyMisses, RequestsInv
  <2>. HIDE DEF d
  <2>2. /\ attempts' = [attempts EXCEPT ![d] = IF d \in Outstanding THEN @ + 1 ELSE @]
        /\ req' = [req EXCEPT ![r] = Idle]
        /\ UNCHANGED <<redis, codes, expired, phone, faults>>
    BY <1>2 DEF VerifyMisses, d
  <2>3. /\ req' \in [Requests -> Request] /\ req'[r].at = "idle"
        /\ \A s \in Requests \ {r} : req'[s] = req[s]
    BY <2>2, IdleType DEF TypeOK
  <2>4. /\ attempts' \in [Codes -> Nat]
        /\ attempts'[d] <= attempts[d] + 1
        /\ \A c \in Codes \ {d} : attempts'[c] = attempts[c]
    BY <2>1, <2>2 DEF TypeOK
  <2>5. TypeOK'
    BY <2>2, <2>3, <2>4 DEF TypeOK, redis, phone
  <2>6. RequestsInv'
    BY <2>2, <2>3 DEF RequestsInv, phone
  <2>7. codes' \in Seq(Codes) /\ Len(codes') <= Len(codes)
    BY <2>2 DEF TypeOK
  <2>8. CodesInv'
    BY <2>3, <2>7, CodesKept
  <2>9. AttemptsInv'
    <3>. SUFFICES ASSUME NEW c \in Codes
                  PROVE  attempts'[c] + Cardinality(Missing(c)') <=
                             MaxAttempts - 1 + Cardinality(Requests)
      BY DEF AttemptsInv
    <3>1. Missing(c)' = Missing(c) \ {r} /\ Missing(c) \in SUBSET Requests
      BY <2>3 DEF Missing
    <3>2. /\ Cardinality(Missing(c)') <= Cardinality(Missing(c))
          /\ c = d => Cardinality(Missing(c)') = Cardinality(Missing(c)) - 1
      <4>1. c = d => r \in Missing(c)
        BY <2>1 DEF Missing, d
      <4>. QED  BY <3>1, <4>1, Fewer, OneLeaves
    <3>3. attempts[c] + Cardinality(Missing(c)) <= MaxAttempts - 1 + Cardinality(Requests)
      BY DEF AttemptsInv
    <3>4. /\ attempts[c] \in Nat /\ attempts'[c] \in Nat /\ MaxAttempts \in Nat
          /\ attempts'[c] <= attempts[c] + (IF c = d THEN 1 ELSE 0)
      BY <2>4, PolicyAssumption DEF TypeOK, PolicyAssumption
    <3>5. /\ Cardinality(Missing(c)) \in Nat /\ Cardinality(Missing(c)') \in Nat
          /\ Cardinality(Requests) \in Nat
      BY <3>1, FiniteRequests
    <3>. QED  BY <3>2, <3>3, <3>4, <3>5
  <2>. QED  BY <2>5, <2>6, <2>8, <2>9
<1>3. CASE VerifyBurns(r)
  <2>1. /\ req' \in [Requests -> Request] /\ req'[r].at = "idle"
        /\ \A s \in Requests \ {r} : req'[s] = req[s]
    BY <1>3, IdleType DEF VerifyBurns, TypeOK
  <2>2. /\ codes' \in Seq(Codes) /\ Len(codes') <= Len(codes)
        /\ attempts' \in [Codes -> Nat] /\ expired' \in SUBSET Codes
        /\ \A c \in Codes : attempts'[c] <= attempts[c]
    <3>1. ASSUME NEW i \in DOMAIN codes, Keep(RemoveAt(codes, i)) PROVE <2>2!:
      <4>1. /\ RemoveAt(codes, i) \in Seq(Codes) /\ codes' = RemoveAt(codes, i)
            /\ Len(codes') = Len(codes) - 1 /\ Len(codes) \in Nat
        BY <3>1, RemoveAtType DEF TypeOK, Keep
      <4>. QED  BY <3>1, <4>1, KeepType
    <3>2. CASE UNCHANGED table
      BY <3>2 DEF table, TypeOK
    <3>. QED  BY <1>3, <3>1, <3>2 DEF VerifyBurns
  <2>3. UNCHANGED <<redis, phone, faults>>
    BY <1>3 DEF VerifyBurns
  <2>4. TypeOK'
    BY <2>1, <2>2, <2>3 DEF TypeOK, redis, phone
  <2>5. RequestsInv'
    BY <2>1, <2>3 DEF RequestsInv, phone
  <2>. QED  BY <2>1, <2>2, <2>4, <2>5, CodesKept, AttemptsKept
<1>. QED  BY <1>1, <1>2, <1>3

LEMMA LoginStep == LoginInv /\ [Next]_vars => LoginInv'
<1>1. ASSUME LoginInv, UNCHANGED vars PROVE LoginInv'
  BY <1>1 DEF LoginInv, TypeOK, RequestsInv, CodesInv, AttemptsInv, Creating, Missing,
              Outstanding, vars, redis, table, phone
<1>2. ASSUME LoginInv, Next PROVE LoginInv'
  BY <1>2, AppStep, LimiterStep, RequestStep, VerifyStep DEF Next, Step
<1>. QED  BY <1>1, <1>2

-----------------------------------------------------------------------------
\* However requests overlap, fail or die, every variable keeps its type, and every code
\* outstanding and every attempt counted is accounted for by a request.
THEOREM LoginInvariant == Spec => []LoginInv
<1>. QED  BY InitLogin, LoginStep, PTL DEF Spec

\* Only requests in flight together leave more than one code outstanding, and no more than
\* there were of them, for any number of requests and whatever the limiter lets through.
THEOREM OneCodePerOverlapHolds == Spec => []OneCodePerOverlap
<1>1. LoginInv => OneCodePerOverlap
  <2>. SUFFICES ASSUME LoginInv PROVE Len(codes) <= Cardinality(Requests)
    BY DEF OneCodePerOverlap
  <2>1. Creating \in SUBSET Requests /\ Len(codes) \in Nat
    BY DEF Creating, LoginInv, TypeOK
  <2>. QED  BY <2>1, FiniteRequests DEF LoginInv, CodesInv
<1>. QED  BY <1>1, LoginInvariant, PTL

\* No code outstanding has had more wrong attempts than the limit and the number of requests
\* that can have read it before the others counted theirs.
THEOREM AttemptsBoundedHolds == Spec => []AttemptsBounded
<1>1. LoginInv => AttemptsBounded
  <2>. SUFFICES ASSUME LoginInv, NEW c \in Outstanding
                PROVE  attempts[c] < MaxAttempts + Cardinality(Requests)
    BY DEF AttemptsBounded
  <2>1. c \in Codes
    BY DEF LoginInv, TypeOK, Outstanding, ToSet
  <2>2. Missing(c) \in SUBSET Requests /\ attempts[c] \in Nat /\ MaxAttempts \in Nat
    BY <2>1, PolicyAssumption DEF Missing, LoginInv, TypeOK, PolicyAssumption
  <2>3. attempts[c] + Cardinality(Missing(c)) <= MaxAttempts - 1 + Cardinality(Requests)
    BY <2>1 DEF LoginInv, AttemptsInv
  <2>. QED  BY <2>2, <2>3, FiniteRequests
<1>. QED  BY <1>1, LoginInvariant, PTL
=============================================================================
