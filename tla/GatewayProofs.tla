--------------------------- MODULE GatewayProofs ---------------------------
(***************************************************************************)
(* The gateway, for any requests, agents, keys, trust lists and sizes, and *)
(* any number of interceptors: what a request is judged by, limited by,    *)
(* signed with and counted as.                                             *)
(***************************************************************************)
EXTENDS Gateway, FiniteSetTheorems, SequenceTheorems, TLAPS

InterceptorType ==
  [limit : Nat, trusted : SUBSET Agents, key : SigningKeys \cup {None},
   runs : SUBSET Requests, turn : Nat]

RequestType ==
  [at : Steps, key : ApiKeys \cup {None}, size : Nat, limit : Nat,
   sender : Agents \cup {None}, by : Nat,
   outcome : Statuses \cup {"raised", None}, status : Statuses \cup {None},
   code : Codes \cup {0}, token : SigningKeys \cup {None},
   owners : SUBSET Agents, since : Nat]

Types ==
  /\ api_keys \in KeyMaps /\ trusted_env \in TrustLists
  /\ interceptors \in Seq(InterceptorType)
  /\ interceptor \in 0..Len(interceptors)
  /\ configuring \subseteq 1..Len(interceptors)
  /\ request \in [Requests -> RequestType]

\* The engine pools are bounded; what is being configured was never current.
PoolsOK ==
  /\ \A i \in 1..Len(interceptors) :
       /\ IsFiniteSet(interceptors[i].runs)
       /\ Cardinality(interceptors[i].runs) <= Slots
  /\ \A i \in configuring : interceptors[i].turn = 0

\* Of a request r in state q: its program point and what goes with it.
Running(i, q) == /\ q.by = i
                 /\ q.size <= interceptors[i].limit
                 /\ q.sender \in interceptors[i].trusted

HoldsSlot(i, q, r) ==
  r \in interceptors[i].runs =>
    /\ q.at \in {"running", "signing", "done"}
    /\ q.at = "running" => Running(i, q)

Waiting(q) ==
  /\ q.at \in {"receiving", "authenticating", "handling"} =>
       interceptor # 0 /\ q.since <= Turn
  /\ q.at \in {"receiving", "authenticating"} => Owner(api_keys, q.key) \subseteq q.owners

Handled(q) ==
  /\ q.at \in {"handling", "intercepting", "running", "signing"} => q.sender \in q.owners
  /\ q.at \in {"intercepting", "running", "signing"} =>
       q.by # 0 /\ q.since <= interceptors[q.by].turn
  /\ q.at = "signing" => /\ q.status \in Statuses
                         /\ q.outcome = "blocked" => q.status = "blocked"

Answered(q) ==
  /\ (q.at = "done") = (q.code # 0)
  /\ q.code = 200 => /\ q.token = None <=> q.status = "unverifiable"
                     /\ HasVerdict(q)
  /\ HasVerdict(q) => \/ q.code = 200
                      \/ q.code = 500 /\ q.status = "blocked"
  /\ q.token # None => /\ q.at = "done" /\ q.by # 0
                       /\ q.token = interceptors[q.by].key

RequestOK(q, r) ==
  /\ q.by \in 0..Len(interceptors)
  /\ Waiting(q) /\ Handled(q) /\ Answered(q)
  /\ \A i \in 1..Len(interceptors) : HoldsSlot(i, q, r)

IInv == Types /\ PoolsOK /\ \A r \in Requests : RequestOK(request[r], r)

-----------------------------------------------------------------------------
(* Interceptors. *)

LEMMA LoadedType == ASSUME Types PROVE Loaded(trusted_env) \subseteq Agents
  <1>1. trusted_env \in Seq(Agents \cup {Unloadable})
    BY GatewayAssumption DEF Types
  <1>2. \A j \in DOMAIN trusted_env :
          (\A k \in Unread(trusted_env) : j < k) => trusted_env[j] \in Agents
    <2> TAKE j \in DOMAIN trusted_env
    <2>1. j \in Nat /\ ~(j < j)
      BY <1>1
    <2>2. trusted_env[j] \in Agents \cup {Unloadable}
      BY <1>1
    <2> QED
      BY <2>1, <2>2 DEF Unread
  <1> QED
    BY <1>2 DEF Loaded

LEMMA InterceptorTyped ==
  ASSUME Types, NEW config \in Config, NEW turn \in Nat
  PROVE  /\ Interceptor(config, turn) \in InterceptorType
         /\ Interceptor(config, turn).runs = {}
         /\ Interceptor(config, turn).turn = turn
  BY LoadedType DEF Interceptor, InterceptorType, Config

\* get_interceptor yields an interceptor that exists, and changes none.
LEMMA MadeFacts ==
  ASSUME Types
  PROVE  /\ Made \in Seq(InterceptorType)
         /\ Current \in 1..Len(Made)
         /\ Len(interceptors) <= Len(Made)
         /\ \A i \in 1..Len(interceptors) : Made[i] = interceptors[i]
         /\ interceptor # 0 => Made = interceptors /\ Current = interceptor
         /\ interceptor = 0 => /\ Len(Made) = Len(interceptors) + 1
                               /\ Current = Len(Made)
                               /\ Made[Len(Made)] = Interceptor(DefaultConfig, 1)
  <1>1. Interceptor(DefaultConfig, 1) \in InterceptorType
    BY InterceptorTyped, GatewayAssumption
  <1>2. CASE interceptor # 0
    BY <1>2 DEF Types, Made, Current
  <1>3. CASE interceptor = 0
    <2>1. Made = Append(interceptors, Interceptor(DefaultConfig, 1))
      BY <1>3 DEF Made
    <2>2. interceptors \in Seq(InterceptorType) /\ Len(interceptors) \in Nat
      BY DEF Types
    <2> QED
      BY <1>1, <1>3, <2>1, <2>2, AppendProperties DEF Current
  <1> QED
    BY <1>2, <1>3

\* What one interceptor's step leaves of the others.
LEMMA UpdateFacts ==
  ASSUME Types, NEW i \in 1..Len(interceptors), NEW e \in InterceptorType,
         interceptors' = [interceptors EXCEPT ![i] = e]
  PROVE  /\ interceptors' \in Seq(InterceptorType)
         /\ Len(interceptors') = Len(interceptors)
         /\ interceptors'[i] = e
         /\ \A j \in 1..Len(interceptors) :
              j # i => interceptors'[j] = interceptors[j]
  <1>1. interceptors \in Seq(InterceptorType)
    BY DEF Types
  <1> QED
    BY <1>1, ExceptSeq

-----------------------------------------------------------------------------
(* Steps.  Interceptors keep their configuration and their key, and are     *)
(* current in turn; what holds of a request that a step does not change     *)
(* then keeps holding.                                                      *)

Grows ==
  /\ Len(interceptors) <= Len(interceptors)'
  /\ \A i \in 1..Len(interceptors) :
       /\ interceptors'[i].limit = interceptors[i].limit
       /\ interceptors'[i].trusted = interceptors[i].trusted
       /\ interceptors[i].turn <= interceptors'[i].turn
       /\ interceptors[i].key # None => interceptors'[i].key = interceptors[i].key
  /\ interceptor # 0 => interceptor' # 0 /\ Turn <= Turn'

GainsNoSlot(r) ==
  \A i \in 1..Len(interceptors)' :
    r \in interceptors'[i].runs =>
      i \in 1..Len(interceptors) /\ r \in interceptors[i].runs

LEMMA LenType == ASSUME Types PROVE /\ Len(interceptors) \in Nat
                                    /\ interceptor \in Nat
                                    /\ Turn \in Nat
                                    /\ \A i \in 1..Len(interceptors) :
                                         interceptors[i] \in InterceptorType
  <1>1. Len(interceptors) \in Nat /\ interceptor \in 0..Len(interceptors)
    BY DEF Types
  <1>2. \A i \in 1..Len(interceptors) : interceptors[i] \in InterceptorType
    BY DEF Types
  <1> QED
    BY <1>1, <1>2 DEF Turn, InterceptorType

LEMMA Persists ==
  ASSUME Types, Types', Grows, api_keys' = api_keys, NEW r, NEW q \in RequestType,
         GainsNoSlot(r), RequestOK(q, r)
  PROVE  RequestOK(q, r)'
  <1>0. /\ Len(interceptors) \in Nat /\ Len(interceptors)' \in Nat
        /\ Turn \in Nat /\ Turn' \in Nat
        /\ \A i \in 1..Len(interceptors) :
             interceptors[i].turn \in Nat /\ interceptors'[i].turn \in Nat
    <2>1. Len(interceptors) <= Len(interceptors)'
      BY DEF Grows
    <2>2. Len(interceptors)' \in Nat /\ interceptor' \in 0..Len(interceptors)'
      BY DEF Types
    <2>3. \A i \in 1..Len(interceptors)' : interceptors'[i] \in InterceptorType
      BY DEF Types
    <2>4. Turn' \in Nat
      BY <2>2, <2>3 DEF Turn, InterceptorType
    <2> QED
      BY <2>1, <2>2, <2>3, <2>4, LenType DEF InterceptorType
  <1>1. q.by \in 0..Len(interceptors)' /\ q.since \in Nat
    BY <1>0 DEF RequestOK, Grows, RequestType
  <1>2. Waiting(q)'
    BY <1>0, <1>1 DEF RequestOK, Waiting, Grows, Owner
  <1>3. q.by # 0 => q.by \in 1..Len(interceptors)
    BY <1>0 DEF RequestOK
  <1>4. Handled(q)'
    BY <1>0, <1>1, <1>3 DEF RequestOK, Handled, Grows
  <1>5. Answered(q)'
    BY <1>3, GatewayAssumption DEF RequestOK, Answered, HasVerdict, Grows
  <1>6. \A i \in 1..Len(interceptors)' : HoldsSlot(i, q, r)'
    BY DEF RequestOK, HoldsSlot, Running, Grows, GainsNoSlot
  <1> QED
    BY <1>1, <1>2, <1>4, <1>5, <1>6 DEF RequestOK

\* A step of one request.
LEMMA OneRequestSteps ==
  ASSUME IInv, Types', Grows, api_keys' = api_keys,
         NEW r \in Requests, NEW q \in RequestType,
         request' = [request EXCEPT ![r] = q], RequestOK(q, r)',
         \A x \in Requests \ {r} : GainsNoSlot(x)
  PROVE  \A x \in Requests : RequestOK(request[x], x)'
  <1> TAKE x \in Requests
  <1>1. request[x] \in RequestType /\ request'[x] = IF x = r THEN q ELSE request[x]
    BY DEF IInv, Types
  <1>2. CASE x = r
    BY <1>1, <1>2 DEF RequestOK, Waiting, Handled, Answered, HasVerdict, HoldsSlot, Running, Owner
  <1>3. CASE x # r
    <2>1. PICK p \in RequestType : request[x] = p
      BY <1>1
    <2>2. RequestOK(p, x) /\ Types /\ GainsNoSlot(x)
      BY <1>3, <2>1 DEF IInv
    <2>3. RequestOK(p, x)'
      BY <2>2, Persists
    <2>4. request'[x] = p
      BY <1>1, <1>3, <2>1
    <2> QED
      BY <2>3, <2>4 DEF RequestOK, Waiting, Handled, Answered, HasVerdict, HoldsSlot, Running, Owner
  <1> QED
    BY <1>2, <1>3

\* A step of one request that leaves the interceptors alone.
LEMMA QuietStep ==
  ASSUME IInv, UNCHANGED <<environment, service>>,
         NEW r \in Requests, NEW q \in RequestType,
         request' = [request EXCEPT ![r] = q], RequestOK(q, r)
  PROVE  IInv'
  <1>1. Types'
    BY DEF IInv, Types, environment, service
  <1>2. PoolsOK'
    BY DEF IInv, PoolsOK, service
  <1>3. Grows
    <2>1. Turn' = Turn
      BY DEF Turn, service
    <2> QED
      BY <2>1, LenType DEF IInv, Grows, service, InterceptorType
  <1>4. \A x \in Requests : GainsNoSlot(x)
    BY DEF GainsNoSlot, service
  <1>5. RequestOK(q, r)'
    BY <1>1, <1>3, <1>4, Persists DEF IInv, environment
  <1> QED
    BY <1>1, <1>2, <1>3, <1>4, <1>5, OneRequestSteps DEF IInv, environment

LEMMA NewRequestType == NewRequest \in RequestType
  BY DEF NewRequest, RequestType, Steps, Codes

\* A refusal leaves a request with nothing to be wrong about.
LEMMA Refusal ==
  ASSUME IInv, NEW r \in Requests, NEW code \in Codes \ {200}, Answer(r, code)
  PROVE  \E q \in RequestType :
           /\ request' = [request EXCEPT ![r] = q]
           /\ RequestOK(q, r)
           /\ q.at = "done" /\ q.code = code /\ q.by = 0 /\ q.token = None
           /\ q.status = None
  <1> DEFINE q == [NewRequest EXCEPT !.at = "done", !.code = code]
  <1>1. q \in RequestType
    BY NewRequestType DEF RequestType, Steps
  <1>2. /\ q.at = "done" /\ q.code = code /\ q.by = 0 /\ q.token = None
        /\ q.status = None /\ code # 0 /\ code # 200
    BY DEF NewRequest, Codes
  <1>3. Len(interceptors) \in Nat
    BY LenType DEF IInv
  <1>4. request' = [request EXCEPT ![r] = q]
    BY DEF Answer
  <1> HIDE DEF q
  <1>5. RequestOK(q, r)
    BY <1>2, <1>3 DEF RequestOK, Waiting, Handled, Answered, HasVerdict, HoldsSlot
  <1> QED
    BY <1>1, <1>2, <1>4, <1>5

LEMMA AnswerStep ==
  ASSUME IInv, NEW r \in Requests, NEW code \in Codes \ {200}, Answer(r, code),
         UNCHANGED <<environment, service>>
  PROVE  IInv'
  BY Refusal, QuietStep

\* The typed and well-behaved local variables of a request.
LEMMA Local ==
  ASSUME IInv, NEW r \in Requests
  PROVE  /\ request[r] \in RequestType /\ RequestOK(request[r], r)
         /\ request[r].by \in Nat
         /\ request[r].by # 0 => request[r].by \in 1..Len(interceptors)
  <1>1. request[r] \in RequestType /\ RequestOK(request[r], r)
    BY DEF IInv, Types
  <1> QED
    BY <1>1 DEF RequestOK, RequestType

LEMMA ReceiveBodyStep == ASSUME IInv, NEW r \in Requests, ReceiveBody(r) PROVE IInv'
  <1>1. CASE Answer(r, 400)
    BY <1>1, AnswerStep DEF ReceiveBody, Codes
  <1>2. CASE ~Answer(r, 400)
    <2> DEFINE q == [request[r] EXCEPT !.at = "authenticating", !.limit = 0]
    <2>1. q \in RequestType
      BY Local DEF RequestType, Steps
    <2>2. request' = [request EXCEPT ![r] = q] /\ request[r].at = "receiving"
      BY <1>2 DEF ReceiveBody
    <2>3. RequestOK(q, r)
      BY <2>2, Local DEF RequestType, RequestOK, Waiting, Handled, Answered, HasVerdict, HoldsSlot
    <2> QED
      BY <2>1, <2>2, <2>3, QuietStep DEF ReceiveBody
  <1> QED
    BY <1>1, <1>2

LEMMA AuthenticateStep == ASSUME IInv, NEW r \in Requests, Authenticate(r) PROVE IInv'
  <1>1. CASE Answer(r, 400)
    BY <1>1, AnswerStep DEF Authenticate, Codes
  <1>2. CASE ~Answer(r, 400)
    <2>1. PICK agent \in Identities(r) :
            request' = [request EXCEPT ![r].at = "handling", ![r].sender = agent]
      BY <1>2 DEF Authenticate
    <2> DEFINE q == [request[r] EXCEPT !.at = "handling", !.sender = agent]
    <2>2. request[r].at = "authenticating"
      BY DEF Authenticate
    <2>3. agent \in request[r].owners /\ agent \in Agents
      BY <2>1, <2>2, Local DEF RequestOK, Waiting, Identities, RequestType
    <2>4. q \in RequestType
      BY <2>3, Local DEF RequestType, Steps
    <2>5. request' = [request EXCEPT ![r] = q]
      BY <2>1
    <2>6. RequestOK(q, r)
      BY <2>2, <2>3, Local DEF RequestType, RequestOK, Waiting, Handled, Answered, HasVerdict, HoldsSlot
    <2> QED
      BY <2>4, <2>5, <2>6, QuietStep DEF Authenticate
  <1> QED
    BY <1>1, <1>2

LEMMA HandleStep == ASSUME IInv, NEW r \in Requests, Handle(r) PROVE IInv'
  <1> DEFINE q == [request[r] EXCEPT !.at = "intercepting", !.by = Returned]
  <1>1. request[r].at = "handling" /\ request' = [request EXCEPT ![r] = q]
    BY DEF Handle
  <1>2. interceptor # 0 /\ request[r].since <= interceptors[interceptor].turn
    BY <1>1, Local DEF RequestOK, Waiting, Turn
  <1>3. Returned = interceptor /\ interceptor \in 1..Len(interceptors) /\ interceptor \in Nat
    BY <1>2, LenType DEF IInv, Types, Returned, Current
  <1>4. q \in RequestType
    BY <1>3, Local DEF RequestType, Steps
  <1>5. RequestOK(q, r)
    BY <1>1, <1>2, <1>3, Local
       DEF RequestType, RequestOK, Waiting, Handled, Answered, HasVerdict, HoldsSlot
  <1> QED
    BY <1>1, <1>4, <1>5, QuietStep DEF Handle

\* The verdict's status is settled: by a refusal, an engine, or the clock.
LEMMA DecideStep ==
  ASSUME IInv, NEW r \in Requests, NEW status \in Statuses,
         NEW outcome \in {None, status}, Decide(r, outcome, status),
         request[r].at \in {"intercepting", "running"},
         UNCHANGED <<environment, service>>
  PROVE  IInv'
  <1> DEFINE q == [request[r] EXCEPT !.at = "signing", !.outcome = outcome, !.status = status]
  <1>1. request' = [request EXCEPT ![r] = q]
    BY DEF Decide
  <1>2. q \in RequestType
    BY Local DEF RequestType, Steps
  <1>3. outcome = "blocked" => status = "blocked"
    BY GatewayAssumption DEF Statuses
  <1>4. RequestOK(q, r)
    BY <1>3, Local
       DEF RequestType, RequestOK, Waiting, Handled, Answered, HasVerdict, HoldsSlot
  <1> QED
    BY <1>1, <1>2, <1>4, QuietStep

LEMMA ResumeStep == ASSUME IInv, NEW r \in Requests, Resume(r) \/ TimeOut(r) PROVE IInv'
  <1>1. CASE TimeOut(r)
    BY <1>1, DecideStep DEF TimeOut, Statuses
  <1>2. CASE Resume(r) /\ request[r].outcome = "raised"
    BY <1>2, DecideStep DEF Resume, Statuses
  <1>3. CASE Resume(r) /\ request[r].outcome # "raised"
    <2>1. request[r].outcome \in Statuses
      BY <1>3, Local DEF Resume, RequestType
    <2> QED
      BY <1>3, <2>1, DecideStep DEF Resume
  <1> QED
    BY <1>1, <1>2, <1>3

\* A step that changes one interceptor, to e, and one request, to q.
LEMMA BothStep ==
  ASSUME IInv, UNCHANGED <<environment, interceptor, configuring>>,
         NEW r \in Requests, NEW q \in RequestType,
         request' = [request EXCEPT ![r] = q],
         NEW i \in 1..Len(interceptors), NEW e \in InterceptorType,
         interceptors' = [interceptors EXCEPT ![i] = e],
         e.limit = interceptors[i].limit, e.trusted = interceptors[i].trusted,
         e.turn = interceptors[i].turn,
         interceptors[i].key # None => e.key = interceptors[i].key,
         IsFiniteSet(e.runs), Cardinality(e.runs) <= Slots,
         \A x \in Requests \ {r} : x \in e.runs => x \in interceptors[i].runs,
         RequestOK(q, r)'
  PROVE  IInv'
  <1>0. Types /\ Len(interceptors) \in Nat
    BY LenType DEF IInv
  <1>1. /\ interceptors' \in Seq(InterceptorType)
        /\ Len(interceptors') = Len(interceptors)
        /\ interceptors'[i] = e
        /\ \A j \in 1..Len(interceptors) : j # i => interceptors'[j] = interceptors[j]
    BY <1>0, UpdateFacts
  <1>2. Types'
    BY <1>1 DEF IInv, Types, environment
  <1>3. PoolsOK'
    <2>1. configuring' \subseteq 1..Len(interceptors)
      BY DEF IInv, Types
    <2> QED
      BY <1>1, <2>1 DEF IInv, PoolsOK
  <1>4. Grows
    <2>1. \A j \in 1..Len(interceptors) : interceptors'[j].turn = interceptors[j].turn
      BY <1>1
    <2>2. Turn' = Turn
      BY <2>1, <1>0 DEF Turn, Types
    <2> QED
      BY <1>0, <1>1, <2>1, <2>2, LenType DEF IInv, Grows, InterceptorType
  <1>5. \A x \in Requests \ {r} : GainsNoSlot(x)
    BY <1>1 DEF GainsNoSlot
  <1> QED
    BY <1>2, <1>3, <1>4, <1>5, OneRequestSteps DEF IInv, environment

LEMMA InterceptStep == ASSUME IInv, NEW r \in Requests, Intercept(r) PROVE IInv'
  <1>i. PICK i \in 1..Len(interceptors) : i = request[r].by
    BY Local DEF Intercept, RequestOK, Handled
  <1>0. request[r].at = "intercepting" /\ request[r].by = i
    BY <1>i DEF Intercept
  <1>1. CASE interceptors' = interceptors
    <2>1. \E status \in {"blocked", "error"} : Decide(r, None, status)
      <3>1. request[r].at # "running"
        BY <1>0
      <3>2. CASE request' = [request EXCEPT ![r].at = "running"]
                 /\ interceptors' = [interceptors EXCEPT ![i].runs = @ \cup {r}]
                 /\ ~Full(interceptors[i])
        <4>1. r \in interceptors'[i].runs
          BY <1>0, <3>2 DEF IInv, Types, InterceptorType
        <4>2. r \notin interceptors[i].runs
          BY <1>0, Local DEF RequestOK, HoldsSlot
        <4> QED
          BY <1>1, <4>1, <4>2
      <3> QED
        BY <1>0, <3>2 DEF Intercept
    <2>2. UNCHANGED <<environment, service>>
      BY <1>1 DEF Intercept, service
    <2> QED
      BY <1>0, <2>1, <2>2, DecideStep DEF Statuses
  <1>2. CASE interceptors' # interceptors
    <2> DEFINE self == interceptors[i]
    <2>0. self \in InterceptorType
      BY DEF IInv, Types
    <2>1. /\ Accepts(self, request[r]) /\ ~Full(self)
          /\ interceptors' = [interceptors EXCEPT ![i] = [self EXCEPT !.runs = self.runs \cup {r}]]
          /\ request' = [request EXCEPT ![r] = [request[r] EXCEPT !.at = "running"]]
      BY <1>0, <1>2 DEF Intercept
    <2>2. PICK e \in InterceptorType : e = [self EXCEPT !.runs = self.runs \cup {r}]
      BY <2>0 DEF InterceptorType
    <2>3. /\ interceptors' = [interceptors EXCEPT ![i] = e] /\ e.runs = self.runs \cup {r}
      BY <2>0, <2>1, <2>2 DEF InterceptorType
    <2>4. /\ e.limit = self.limit /\ e.trusted = self.trusted /\ e.turn = self.turn
          /\ e.key = self.key
      BY <2>0, <2>2 DEF InterceptorType
    <2>5. IsFiniteSet(e.runs) /\ Cardinality(e.runs) <= Slots
      <3>1. IsFiniteSet(self.runs) /\ Cardinality(self.runs) \in Nat
        BY <1>0, FS_CardinalityType DEF IInv, PoolsOK
      <3>2. Cardinality(self.runs) < Slots
        BY <2>1, <3>1, GatewayAssumption DEF Full
      <3>3. /\ IsFiniteSet(self.runs \cup {r})
            /\ Cardinality(self.runs \cup {r}) = IF r \in self.runs THEN Cardinality(self.runs)
                                                 ELSE Cardinality(self.runs) + 1
        BY <3>1, FS_AddElement
      <3> QED
        BY <2>3, <3>1, <3>2, <3>3, GatewayAssumption
    <2>6. PICK q \in RequestType : q = [request[r] EXCEPT !.at = "running"]
      BY Local DEF RequestType, Steps
    <2>7. /\ interceptors'[i] = e /\ Len(interceptors') = Len(interceptors)
          /\ \A j \in 1..Len(interceptors) : j # i => interceptors'[j] = interceptors[j]
      BY <2>3, UpdateFacts DEF IInv
    <2>8. /\ q.at = "running" /\ q.by = i /\ q.size = request[r].size
          /\ q.sender = request[r].sender /\ q.owners = request[r].owners
          /\ q.since = request[r].since /\ q.code = request[r].code
          /\ q.token = request[r].token /\ request' = [request EXCEPT ![r] = q]
      BY <1>0, <2>1, <2>6, Local DEF RequestType
    <2>9. \A j \in 1..Len(interceptors) : r \notin interceptors[j].runs
      BY <1>0, Local DEF RequestOK, HoldsSlot
    <2>10. RequestOK(q, r)'
      <3>1. Handled(q)'
        BY <1>0, <2>4, <2>7, <2>8, Local DEF RequestOK, Handled
      <3>2. Answered(q)' /\ Waiting(q)'
        BY <1>0, <2>8, Local DEF RequestOK, Answered, HasVerdict, Waiting
      <3>3. \A j \in 1..Len(interceptors) : HoldsSlot(j, q, r)'
        BY <2>1, <2>4, <2>7, <2>8, <2>9 DEF HoldsSlot, Running, Accepts
      <3> QED
        BY <1>0, <2>7, <2>8, <3>1, <3>2, <3>3, Local DEF RequestOK
    <2>11. \A x \in Requests \ {r} : x \in e.runs => x \in self.runs
      BY <2>3
    <2>12. UNCHANGED <<environment, interceptor, configuring>>
      BY DEF Intercept
    <2> HIDE DEF self
    <2>13. self = interceptors[i]
      BY DEF self
    <2> QED
      BY <2>3, <2>4, <2>5, <2>8, <2>10, <2>11, <2>12, <2>13, BothStep
  <1> QED
    BY <1>1, <1>2

LEMMA EndRunStep == ASSUME IInv, NEW r \in Requests, EndRun(r) PROVE IInv'
  <1>0. DOMAIN interceptors = 1..Len(interceptors)
    BY DEF IInv, Types
  <1>1. PICK i \in 1..Len(interceptors) :
          /\ r \in interceptors[i].runs
          /\ interceptors' = [interceptors EXCEPT ![i].runs = @ \ {r}]
    BY <1>0 DEF EndRun
  <1> DEFINE self == interceptors[i]
  <1>2. self \in InterceptorType
    BY DEF IInv, Types
  <1>e. PICK e \in InterceptorType : e = [self EXCEPT !.runs = self.runs \ {r}]
    BY <1>2 DEF InterceptorType
  <1>3. /\ e.runs = self.runs \ {r}
        /\ e.limit = self.limit /\ e.trusted = self.trusted /\ e.turn = self.turn
        /\ e.key = self.key
        /\ interceptors' = [interceptors EXCEPT ![i] = e]
    BY <1>1, <1>2, <1>e DEF InterceptorType
  <1>4. IsFiniteSet(e.runs) /\ Cardinality(e.runs) <= Slots
    <2>1. IsFiniteSet(self.runs) /\ Cardinality(self.runs) \in Nat /\ Cardinality(self.runs) <= Slots
      BY FS_CardinalityType DEF IInv, PoolsOK
    <2>2. /\ IsFiniteSet(self.runs \ {r})
          /\ Cardinality(self.runs \ {r}) = IF r \in self.runs THEN Cardinality(self.runs) - 1
                                            ELSE Cardinality(self.runs)
      BY <2>1, FS_RemoveElement
    <2> QED
      BY <1>3, <2>1, <2>2, GatewayAssumption
  <1>5. PICK q \in RequestType :
          /\ request' = [request EXCEPT ![r] = q]
          /\ \/ q = request[r]
             \/ /\ request[r].at = "running"
                /\ \E outcome \in Outcomes : q = [request[r] EXCEPT !.outcome = outcome]
    <2>1. CASE request[r].at = "running"
      <3>1. PICK outcome \in Outcomes : request' = [request EXCEPT ![r].outcome = outcome]
        BY <2>1 DEF EndRun
      <3>2. [request[r] EXCEPT !.outcome = outcome] \in RequestType
        BY Local, GatewayAssumption DEF RequestType
      <3> QED
        BY <2>1, <3>1, <3>2
    <2>2. CASE request[r].at # "running"
      <3>1. request' = request
        BY <2>2 DEF EndRun
      <3>2. request = [request EXCEPT ![r] = request[r]]
        BY DEF IInv, Types
      <3> QED
        BY <3>1, <3>2, Local
    <2> QED
      BY <2>1, <2>2
  <1>6. /\ q.at = request[r].at /\ q.by = request[r].by /\ q.size = request[r].size
        /\ q.sender = request[r].sender /\ q.owners = request[r].owners
        /\ q.since = request[r].since /\ q.code = request[r].code
        /\ q.token = request[r].token /\ q.status = request[r].status
        /\ q.key = request[r].key
        /\ q.at = "signing" => q.outcome = request[r].outcome
    BY <1>5, Local DEF RequestType
  <1>7. /\ interceptors'[i] = e /\ Len(interceptors') = Len(interceptors)
        /\ \A j \in 1..Len(interceptors) : j # i => interceptors'[j] = interceptors[j]
    BY <1>3, UpdateFacts DEF IInv
  <1>8. UNCHANGED <<environment, interceptor, configuring>>
    BY DEF EndRun
  <1>9. RequestOK(q, r)'
    <2>1. \A j \in 1..Len(interceptors) :
            /\ interceptors'[j].limit = interceptors[j].limit
            /\ interceptors'[j].trusted = interceptors[j].trusted
            /\ interceptors'[j].turn = interceptors[j].turn
            /\ interceptors'[j].key = interceptors[j].key
            /\ interceptors'[j].runs \subseteq interceptors[j].runs
      BY <1>3, <1>7
    <2>2. interceptor # 0 => Turn' = Turn
      BY <1>8, <2>1, LenType DEF Turn, IInv, Types
    <2>3. RequestOK(request[r], r)
      BY Local
    <2>4. Waiting(q)'
      BY <1>6, <1>8, <2>2, <2>3 DEF RequestOK, Waiting, environment
    <2>5. Handled(q)' /\ Answered(q)'
      BY <1>6, <2>1, <2>3, Local DEF RequestOK, Handled, Answered, HasVerdict
    <2>6. \A j \in 1..Len(interceptors) : HoldsSlot(j, q, r)'
      BY <1>6, <2>1, <2>3 DEF RequestOK, HoldsSlot, Running
    <2> QED
      BY <1>6, <1>7, <2>3, <2>4, <2>5, <2>6 DEF RequestOK
  <1> QED
    BY <1>3, <1>4, <1>5, <1>8, <1>9, BothStep

LEMMA VerdictFacts ==
  ASSUME IInv, NEW r \in Requests, NEW token \in SigningKeys \cup {None},
         NEW code \in Rendered(r)
  PROVE  /\ Verdict(r, token, code) \in RequestType
         /\ Verdict(r, token, code).at = "done"
         /\ Verdict(r, token, code).code = code
         /\ Verdict(r, token, code).token = token
         /\ Verdict(r, token, code).by = request[r].by
         /\ Verdict(r, token, code).status = request[r].status
         /\ Verdict(r, token, code).sender = request[r].sender
         /\ code = 200 \/ (code = 500 /\ request[r].outcome = "blocked")
  <1>1. code = 200 \/ (code = 500 /\ request[r].outcome = "blocked")
    BY DEF Rendered
  <1> QED
    BY <1>1, Local DEF Verdict, RequestType, Steps, Codes

LEMMA KeyPairType ==
  ASSUME NEW e \in InterceptorType
  PROVE  /\ KeyPair(e) \subseteq SigningKeys \cup {None}
         /\ e.key # None => KeyPair(e) = {e.key}
  BY DEF KeyPair, InterceptorType

LEMMA SignStep == ASSUME IInv, NEW r \in Requests, Sign(r) PROVE IInv'
  <1>i. PICK i \in 1..Len(interceptors) : i = request[r].by
    BY Local DEF Sign, RequestOK, Handled
  <1>0. /\ request[r].at = "signing" /\ request[r].status \in Statuses
        /\ request[r].outcome = "blocked" => request[r].status = "blocked"
        /\ request[r].sender \in Agents
        /\ UNCHANGED <<environment, interceptor, configuring>>
    BY Local DEF Sign, RequestOK, Handled, RequestType
  <1> DEFINE self == interceptors[i]
  <1>1. self \in InterceptorType
    BY DEF IInv, Types
  <1>2. CASE Fail(r) /\ UNCHANGED interceptors
    BY <1>0, <1>2, AnswerStep DEF Fail, Codes, service
  <1>3. CASE \E token \in Tokens(r), code \in Rendered(r) :
               /\ IF token = None THEN UNCHANGED interceptors
                  ELSE interceptors' = [interceptors EXCEPT ![request[r].by].key = token]
               /\ request' = [request EXCEPT ![r] = Verdict(r, token, code)]
    <2>1. PICK token \in Tokens(r), code \in Rendered(r) :
               /\ IF token = None THEN UNCHANGED interceptors
                  ELSE interceptors' = [interceptors EXCEPT ![i].key = token]
               /\ request' = [request EXCEPT ![r] = Verdict(r, token, code)]
      BY <1>i, <1>3
    <2>2. /\ token \in SigningKeys \cup {None}
          /\ token = None <=> request[r].status = "unverifiable"
          /\ token # None /\ self.key # None => token = self.key
      BY <1>i, <1>1, KeyPairType DEF Tokens
    <2>3. PICK q \in RequestType :
            /\ q.at = "done" /\ q.token = token /\ q.by = i
            /\ q.code = 200 \/ (q.code = 500 /\ q.status = "blocked")
            /\ q.status = request[r].status /\ q.sender = request[r].sender
            /\ request' = [request EXCEPT ![r] = q]
      <3>1. PICK q \in RequestType : q = Verdict(r, token, code)
        BY <2>2, VerdictFacts
      <3>2. /\ q.at = "done" /\ q.token = token
            /\ q.by = request[r].by /\ q.status = request[r].status
            /\ q.sender = request[r].sender
            /\ q.code = 200 \/ (q.code = 500 /\ request[r].outcome = "blocked")
        BY <2>2, <3>1, VerdictFacts
      <3> WITNESS q \in RequestType
      <3> QED
        BY <1>i, <1>0, <2>1, <3>1, <3>2
    <2>v. Answered(q) <=> (token # None => token = interceptors[i].key)
      <3>1. HasVerdict(q)
        BY <1>0, <2>3, GatewayAssumption DEF HasVerdict
      <3> QED
        BY <1>0, <2>2, <2>3, <3>1 DEF Answered, Codes
    <2>4. CASE token = None
      <3>1. RequestOK(q, r)
        BY <1>0, <2>3, <2>4, <2>v, LenType
           DEF IInv, RequestOK, Waiting, Handled, HoldsSlot
      <3>2. UNCHANGED <<environment, service>>
        BY <1>0, <2>1, <2>4 DEF service
      <3> QED
        BY <2>3, <3>1, <3>2, QuietStep
    <2>5. CASE token # None
      <3>1. PICK e \in InterceptorType : e = [self EXCEPT !.key = token]
        BY <1>1, <2>2 DEF InterceptorType
      <3>2. /\ interceptors' = [interceptors EXCEPT ![i] = e] /\ e.key = token
            /\ e.limit = self.limit /\ e.trusted = self.trusted /\ e.turn = self.turn
            /\ e.runs = self.runs
        BY <1>1, <2>1, <2>5, <3>1 DEF InterceptorType
      <3>3. interceptors'[i] = e /\ Len(interceptors') = Len(interceptors)
        BY <3>2, UpdateFacts DEF IInv
      <3>4. Len(interceptors) \in Nat
        BY LenType DEF IInv
      <3>5. RequestOK(q, r)'
        <4>1. Answered(q)'
          <5>1. HasVerdict(q)
            BY <1>0, <2>3, GatewayAssumption DEF HasVerdict
          <5> QED
            BY <2>2, <2>3, <3>2, <3>3, <5>1 DEF Answered, HasVerdict, Codes
        <4> QED
          BY <1>0, <2>3, <3>3, <3>4, <4>1 DEF RequestOK, Waiting, Handled, HoldsSlot
      <3>6. IsFiniteSet(e.runs) /\ Cardinality(e.runs) <= Slots
        BY <3>2 DEF IInv, PoolsOK
      <3>7. self.key # None => e.key = self.key
        BY <2>2, <2>5, <3>2
      <3> QED
        BY <1>0, <2>3, <3>2, <3>5, <3>6, <3>7, BothStep
    <2> QED
      BY <2>4, <2>5
  <1> QED
    BY <1>2, <1>3 DEF Sign

-----------------------------------------------------------------------------
(* The interceptors' own steps. *)

\* A step of no request.
LEMMA ServiceStep ==
  ASSUME IInv, Types', PoolsOK', Grows, api_keys' = api_keys, request' = request,
         \A x \in Requests : GainsNoSlot(x)
  PROVE  IInv'
  <1>1. ASSUME NEW x \in Requests PROVE RequestOK(request[x], x)'
    <2>1. PICK p \in RequestType : request[x] = p
      BY Local
    <2>2. RequestOK(p, x) /\ Types
      BY <2>1 DEF IInv
    <2>3. RequestOK(p, x)'
      BY <2>2, Persists
    <2> QED
      BY <2>1, <2>3 DEF RequestOK, Waiting, Handled, Answered, HasVerdict, HoldsSlot, Running, Owner
  <1> QED
    BY <1>1 DEF IInv

\* get_interceptor, and a key that the interceptor may read on its behalf.
LEMMA GetStep ==
  ASSUME IInv, UNCHANGED <<environment, configuring>>, request' \in [Requests -> RequestType],
         interceptor' = Current, NEW e \in InterceptorType,
         interceptors' = [Made EXCEPT ![Current] = e],
         e.limit = Made[Current].limit, e.trusted = Made[Current].trusted,
         e.runs = Made[Current].runs, e.turn = Made[Current].turn,
         Made[Current].key # None => e.key = Made[Current].key
  PROVE  /\ Types' /\ PoolsOK' /\ Grows /\ \A x \in Requests : GainsNoSlot(x)
         /\ interceptor' # 0 /\ Turn <= Turn'
  <1>0. Types /\ PoolsOK /\ Len(interceptors) \in Nat /\ interceptor \in Nat
    BY LenType DEF IInv
  <1>1. /\ Made \in Seq(InterceptorType) /\ Current \in 1..Len(Made)
        /\ Len(interceptors) <= Len(Made) /\ Len(Made) \in Nat
        /\ \A i \in 1..Len(interceptors) : Made[i] = interceptors[i]
    BY <1>0, MadeFacts
  <1>2. /\ interceptors' \in Seq(InterceptorType)
        /\ Len(interceptors') = Len(Made)
        /\ \A i \in 1..Len(Made) : interceptors'[i] = IF i = Current THEN e ELSE Made[i]
    BY <1>1, ExceptSeq
  <1>3. Types'
    BY <1>0, <1>1, <1>2 DEF Types, environment
  <1>4. \A i \in 1..Len(Made) : /\ interceptors'[i].runs = Made[i].runs
                                /\ interceptors'[i].turn = Made[i].turn
                                /\ interceptors'[i].limit = Made[i].limit
                                /\ interceptors'[i].trusted = Made[i].trusted
                                /\ Made[i].key # None => interceptors'[i].key = Made[i].key
    BY <1>2
  <1>5. interceptor = 0 =>
          /\ Len(Made) = Len(interceptors) + 1 /\ Current = Len(Made)
          /\ Made[Len(Made)].runs = {} /\ Made[Len(Made)].turn = 1
    BY <1>0, MadeFacts, InterceptorTyped, GatewayAssumption
  <1>6. interceptor # 0 => Made = interceptors /\ Current = interceptor
    BY <1>0, MadeFacts
  <1>7. PoolsOK'
    <2>1. \A i \in 1..Len(Made) : IsFiniteSet(Made[i].runs) /\ Cardinality(Made[i].runs) <= Slots
      <3> TAKE i \in 1..Len(Made)
      <3>1. CASE i \in 1..Len(interceptors)
        BY <1>0, <1>1, <3>1 DEF PoolsOK
      <3>2. CASE i \notin 1..Len(interceptors)
        <4>1. Made[i].runs = {}
          BY <1>0, <1>1, <1>5, <1>6, <3>2
        <4> QED
          BY <4>1, FS_EmptySet, GatewayAssumption
      <3> QED
        BY <3>1, <3>2
    <2>2. \A i \in configuring : i \in 1..Len(interceptors)
      BY <1>0 DEF Types
    <2> QED
      BY <1>0, <1>1, <1>2, <1>4, <2>1, <2>2 DEF PoolsOK
  <1>8. interceptor' # 0 /\ Turn <= Turn'
    <2>1. Turn' = Made[Current].turn
      BY <1>1, <1>4 DEF Turn
    <2>2. CASE interceptor = 0
      BY <1>1, <1>5, <2>1, <2>2 DEF Turn
    <2>3. CASE interceptor # 0
      BY <1>0, <1>1, <1>6, <2>1, <2>3, LenType DEF Turn
    <2> QED
      BY <1>1, <2>2, <2>3
  <1>9. Grows
    <2>1. \A i \in 1..Len(interceptors) : interceptors[i].turn \in Nat
      BY <1>0, LenType DEF InterceptorType
    <2> QED
      BY <1>0, <1>1, <1>2, <1>4, <1>8, <2>1 DEF Grows
  <1>10. \A x \in Requests : GainsNoSlot(x)
    <2> SUFFICES ASSUME NEW x \in Requests, NEW i \in 1..Len(interceptors)',
                        x \in interceptors'[i].runs
                 PROVE  i \in 1..Len(interceptors) /\ x \in interceptors[i].runs
      BY DEF GainsNoSlot
    <2>1. i \in 1..Len(Made) /\ x \in Made[i].runs
      BY <1>2, <1>4
    <2> QED
      BY <1>0, <1>1, <1>5, <1>6, <2>1
  <1> QED
    BY <1>3, <1>7, <1>8, <1>9, <1>10

LEMMA CurrentType ==
  ASSUME Types
  PROVE  Made[Current] \in InterceptorType /\ Made = [Made EXCEPT ![Current] = Made[Current]]
  BY MadeFacts

LEMMA ArriveStep == ASSUME IInv, NEW r \in Requests, Arrive(r) PROVE IInv'
  <1>0. Types /\ Len(interceptors) \in Nat
    BY LenType DEF IInv
  <1>c. UNCHANGED <<environment, configuring>> /\ api_keys' = api_keys
    BY DEF Arrive, environment
  <1>1. PICK q \in RequestType :
          /\ request' = [request EXCEPT ![r] = q]
          /\ q.token = None /\ q.by = 0
          /\ q.status = None
          /\ \/ q.at = "done" /\ q.code # 0 /\ q.code # 200
             \/ /\ q.at = "receiving" /\ q.code = 0
                /\ q.since = Turn /\ q.owners = Owner(api_keys, q.key)
    <2>1. CASE \E code \in {400, 500} : Answer(r, code)
      <3>1. PICK code \in {400, 500} : Answer(r, code)
        BY <2>1
      <3>2. PICK q \in RequestType :
              /\ request' = [request EXCEPT ![r] = q]
              /\ q.at = "done" /\ q.code = code /\ q.by = 0 /\ q.token = None
              /\ q.status = None
        BY <3>1, Refusal DEF Codes
      <3>3. q.code # 0 /\ q.code # 200
        BY <3>2
      <3> WITNESS q \in RequestType
      <3> QED
        BY <3>2, <3>3
    <2>2. CASE ~(\E code \in {400, 500} : Answer(r, code))
      <3>1. PICK limit \in Nat : limit = Made[Returned].limit + Allowance
        BY <1>0, CurrentType, GatewayAssumption DEF Returned, InterceptorType
      <3>2. PICK key \in ApiKeys \cup {None}, size \in Sizes :
              request' = [request EXCEPT ![r] = Arrival(key, size, limit)]
        BY <2>2, <3>1 DEF Arrive
      <3>3. Owner(api_keys, key) \subseteq Agents
        BY <1>0, GatewayAssumption DEF Owner, Types
      <3>4. Turn \in Nat /\ size \in Nat
        BY <1>0, LenType, GatewayAssumption
      <3>5. PICK q : q = Arrival(key, size, limit)
        OBVIOUS
      <3>6. q \in RequestType
        BY <3>3, <3>4, <3>5 DEF Arrival, RequestType, Steps
      <3>7. /\ q.token = None /\ q.by = 0 /\ q.at = "receiving" /\ q.code = 0
            /\ q.status = None
            /\ q.since = Turn /\ q.owners = Owner(api_keys, q.key)
        BY <3>5 DEF Arrival
      <3> QED
        BY <3>2, <3>5, <3>6, <3>7
    <2> QED
      BY <2>1, <2>2
  <1>2. PICK e \in InterceptorType : e = Made[Current] /\ interceptors' = [Made EXCEPT ![Current] = e]
    BY <1>0, CurrentType DEF Arrive, GetInterceptor
  <1>3. /\ Types' /\ PoolsOK' /\ Grows /\ \A x \in Requests : GainsNoSlot(x)
        /\ interceptor' # 0 /\ Turn <= Turn'
    <2>1. request' \in [Requests -> RequestType] /\ interceptor' = Current
      BY <1>0, <1>1 DEF Types, Arrive, GetInterceptor
    <2> QED
      BY <1>c, <1>2, <2>1, GetStep
  <1>4. RequestOK(q, r)'
    <2>1. Len(interceptors)' \in Nat
      BY <1>3 DEF Types
    <2>2. \A i \in 1..Len(interceptors)' : HoldsSlot(i, q, r)'
      <3>1. ~(request[r].at \in {"running", "signing", "done"})
        BY DEF Arrive
      <3>2. \A i \in 1..Len(interceptors) : r \notin interceptors[i].runs
        BY <3>1, Local DEF RequestOK, HoldsSlot
      <3> QED
        BY <1>3, <3>2 DEF HoldsSlot, GainsNoSlot
    <2>3. Waiting(q)' /\ Handled(q)' /\ Answered(q)'
      BY <1>c, <1>1, <1>3 DEF Waiting, Handled, Answered, HasVerdict
    <2> QED
      BY <1>1, <2>1, <2>2, <2>3 DEF RequestOK
  <1> QED
    BY <1>c, <1>1, <1>3, <1>4, OneRequestSteps DEF IInv

LEMMA JwksStep == ASSUME IInv, Jwks PROVE IInv'
  <1>0. Types
    BY DEF IInv
  <1>1. PICK e \in InterceptorType :
          /\ interceptors' = [Made EXCEPT ![Current] = e]
          /\ e.limit = Made[Current].limit /\ e.trusted = Made[Current].trusted
          /\ e.runs = Made[Current].runs /\ e.turn = Made[Current].turn
          /\ Made[Current].key # None => e.key = Made[Current].key
    <2>1. CASE interceptors' = Made
      BY <1>0, <2>1, CurrentType
    <2>2. CASE interceptors' # Made
      <3>1. PICK key \in KeyPair(Made[Current]) :
              interceptors' = [Made EXCEPT ![Current].key = key]
        BY <2>2 DEF Jwks, Returned
      <3>2. Made[Current] \in InterceptorType
        BY <1>0, CurrentType
      <3>3. key \in SigningKeys \cup {None} /\ (Made[Current].key # None => key = Made[Current].key)
        BY <3>1, <3>2, KeyPairType
      <3> DEFINE e == [Made[Current] EXCEPT !.key = key]
      <3>4. /\ e \in InterceptorType /\ e.key = key
            /\ e.limit = Made[Current].limit /\ e.trusted = Made[Current].trusted
            /\ e.runs = Made[Current].runs /\ e.turn = Made[Current].turn
        BY <3>2, <3>3 DEF InterceptorType
      <3>5. interceptors' = [Made EXCEPT ![Current] = e]
        BY <3>1
      <3> QED
        BY <3>3, <3>4, <3>5
    <2> QED
      BY <2>1, <2>2
  <1>2. /\ UNCHANGED <<environment, configuring>> /\ interceptor' = Current
        /\ request' = request /\ api_keys' = api_keys
    BY DEF Jwks, environment
  <1>3. request' \in [Requests -> RequestType]
    BY <1>0, <1>2 DEF Types
  <1>4. Types' /\ PoolsOK' /\ Grows /\ \A x \in Requests : GainsNoSlot(x)
    BY <1>1, <1>2, <1>3, GetStep
  <1> QED
    BY <1>2, <1>4, ServiceStep

LEMMA ConfigureStep == ASSUME IInv, Configure PROVE IInv'
  <1>0. Types /\ PoolsOK /\ Len(interceptors) \in Nat /\ interceptor \in 0..Len(interceptors)
    BY LenType DEF IInv, Types
  <1>1. PICK config \in Config : interceptors' = Append(interceptors, Interceptor(config, 0))
    BY GatewayAssumption DEF Configure
  <1>2. PICK e \in InterceptorType : e = Interceptor(config, 0) /\ e.runs = {} /\ e.turn = 0
    BY <1>0, InterceptorTyped
  <1>3. /\ interceptors' \in Seq(InterceptorType)
        /\ Len(interceptors') = Len(interceptors) + 1
        /\ interceptors'[Len(interceptors) + 1] = e
        /\ \A i \in 1..Len(interceptors) : interceptors'[i] = interceptors[i]
    BY <1>0, <1>1, <1>2, AppendProperties DEF Types
  <1>4. /\ UNCHANGED <<environment, interceptor, request>> /\ api_keys' = api_keys
        /\ configuring' = configuring \cup {Len(interceptors) + 1}
    BY DEF Configure, environment
  <1>5. Types'
    <2>1. configuring' \subseteq 1..Len(interceptors)'
      <3>1. \A i \in configuring : i \in 1..Len(interceptors)
        BY <1>0 DEF Types
      <3> QED
        BY <1>0, <1>3, <1>4, <3>1
    <2>2. request' \in [Requests -> RequestType] /\ interceptor' \in 0..Len(interceptors)'
      BY <1>0, <1>3, <1>4 DEF Types
    <2> QED
      BY <1>0, <1>3, <1>4, <2>1, <2>2 DEF Types, environment
  <1>6. PoolsOK'
    <2>1. \A i \in 1..Len(interceptors)' : i \in 1..Len(interceptors) \/ i = Len(interceptors) + 1
      BY <1>0, <1>3
    <2>2. \A i \in 1..Len(interceptors)' :
            IsFiniteSet(interceptors'[i].runs) /\ Cardinality(interceptors'[i].runs) <= Slots
      <3> TAKE i \in 1..Len(interceptors)'
      <3>1. CASE i \in 1..Len(interceptors)
        BY <1>0, <1>3, <3>1 DEF PoolsOK
      <3>2. CASE i = Len(interceptors) + 1
        <4>1. interceptors'[i].runs = {}
          BY <1>2, <1>3, <3>2
        <4> QED
          BY <4>1, FS_EmptySet, GatewayAssumption
      <3> QED
        BY <2>1, <3>1, <3>2
    <2>3. \A i \in configuring' : interceptors'[i].turn = 0
      BY <1>0, <1>2, <1>3, <1>4 DEF PoolsOK, Types
    <2> QED
      BY <2>2, <2>3 DEF PoolsOK
  <1>7. Grows
    <2>1. Turn' = Turn
      BY <1>0, <1>3, <1>4 DEF Turn
    <2>2. Turn \in Nat /\ \A i \in 1..Len(interceptors) : interceptors[i].turn \in Nat
      BY <1>0, LenType DEF InterceptorType
    <2> QED
      BY <1>0, <1>3, <1>4, <2>1, <2>2 DEF Grows
  <1>8. \A x \in Requests : GainsNoSlot(x)
    <2> SUFFICES ASSUME NEW x \in Requests, NEW i \in 1..Len(interceptors)',
                        x \in interceptors'[i].runs
                 PROVE  i \in 1..Len(interceptors) /\ x \in interceptors[i].runs
      BY DEF GainsNoSlot
    <2>1. i \in 1..Len(interceptors) \/ i = Len(interceptors) + 1
      BY <1>0, <1>3
    <2> QED
      BY <1>2, <1>3, <2>1
  <1> QED
    BY <1>4, <1>5, <1>6, <1>7, <1>8, ServiceStep

LEMMA SwapStep == ASSUME IInv, NEW i \in configuring, Swap(i) PROVE IInv'
  <1>0. /\ Types /\ PoolsOK /\ Len(interceptors) \in Nat /\ Turn \in Nat
        /\ interceptor \in 0..Len(interceptors) /\ i \in 1..Len(interceptors)
        /\ interceptors[i] \in InterceptorType
    BY LenType DEF IInv, Types
  <1>1. /\ UNCHANGED <<environment, request>> /\ api_keys' = api_keys
        /\ interceptor' = i /\ configuring' = configuring \ {i}
        /\ interceptors' = [interceptors EXCEPT ![i].turn = Turn + 1]
    BY DEF Swap, environment
  <1>t. PICK turn \in Nat : turn = Turn + 1
    BY <1>0
  <1>2. PICK e \in InterceptorType : e = [interceptors[i] EXCEPT !.turn = turn]
    BY <1>0 DEF InterceptorType
  <1>3. /\ e.limit = interceptors[i].limit /\ e.trusted = interceptors[i].trusted
        /\ e.runs = interceptors[i].runs /\ e.key = interceptors[i].key /\ e.turn = Turn + 1
        /\ interceptors' = [interceptors EXCEPT ![i] = e]
    BY <1>0, <1>1, <1>t, <1>2 DEF InterceptorType
  <1>4. /\ interceptors' \in Seq(InterceptorType)
        /\ Len(interceptors') = Len(interceptors)
        /\ interceptors'[i] = e
        /\ \A j \in 1..Len(interceptors) : j # i => interceptors'[j] = interceptors[j]
    BY <1>0, <1>3, UpdateFacts
  <1>5. Types'
    BY <1>0, <1>1, <1>4 DEF Types, environment
  <1>6. PoolsOK'
    BY <1>0, <1>1, <1>3, <1>4 DEF PoolsOK, Types
  <1>7. Grows
    <2>1. Turn' = Turn + 1
      BY <1>0, <1>1, <1>3, <1>4 DEF Turn
    <2>2. \A j \in 1..Len(interceptors) : interceptors[j].turn \in Nat
      BY <1>0, LenType DEF InterceptorType
    <2>3. interceptors[i].turn = 0
      BY <1>0 DEF PoolsOK
    <2> QED
      BY <1>0, <1>1, <1>3, <1>4, <2>1, <2>2, <2>3 DEF Grows
  <1>8. \A x \in Requests : GainsNoSlot(x)
    BY <1>3, <1>4 DEF GainsNoSlot
  <1> QED
    BY <1>1, <1>5, <1>6, <1>7, <1>8, ServiceStep

\* The only step that changes what several requests have on record.
LEMMA RotateKeysStep == ASSUME IInv, RotateKeys PROVE IInv'
  <1>0. Types /\ PoolsOK /\ Len(interceptors) \in Nat
    BY LenType DEF IInv
  <1>1. UNCHANGED <<trusted_env, service>> /\ api_keys' \in KeyMaps
    BY DEF RotateKeys
  <1>2. /\ interceptors' = interceptors /\ interceptor' = interceptor
        /\ configuring' = configuring /\ Turn' = Turn
    BY <1>1 DEF service, Turn
  <1>3. ASSUME NEW x \in Requests
        PROVE  \E p \in RequestType, q \in RequestType :
                 /\ request[x] = p /\ request'[x] = q
                 /\ q.at = p.at /\ q.key = p.key /\ q.size = p.size
                 /\ q.sender = p.sender /\ q.by = p.by /\ q.since = p.since
                 /\ q.outcome = p.outcome /\ q.status = p.status /\ q.code = p.code /\ q.token = p.token
                 /\ q.owners = IF p.at \in {"receiving", "authenticating"}
                               THEN p.owners \cup Owner(api_keys', p.key) ELSE p.owners
    <2>1. PICK p \in RequestType : request[x] = p
      BY Local
    <2>2. Owner(api_keys', p.key) \subseteq Agents
      BY <1>1, GatewayAssumption DEF Owner
    <2> DEFINE owners == IF p.at \in {"receiving", "authenticating"}
                         THEN p.owners \cup Owner(api_keys', p.key) ELSE p.owners
    <2>3. owners \subseteq Agents
      BY <2>1, <2>2 DEF RequestType
    <2>4. request'[x] = [p EXCEPT !.owners = owners]
      BY <2>1 DEF RotateKeys
    <2> HIDE DEF owners
    <2> DEFINE q == [p EXCEPT !.owners = owners]
    <2>5. /\ q \in RequestType
          /\ q.at = p.at /\ q.key = p.key /\ q.size = p.size
          /\ q.sender = p.sender /\ q.by = p.by /\ q.since = p.since
          /\ q.outcome = p.outcome /\ q.status = p.status /\ q.code = p.code /\ q.token = p.token
          /\ q.owners = owners
      BY <2>3 DEF RequestType
    <2> QED
      BY <2>1, <2>4, <2>5 DEF owners
  <1>4. request' \in [Requests -> RequestType]
    <2>1. \A x \in Requests : request'[x] \in RequestType
      BY <1>3
    <2>2. request' = [x \in Requests |-> request'[x]]
      BY DEF RotateKeys
    <2> QED
      BY <2>1, <2>2
  <1>5. Types' /\ PoolsOK'
    BY <1>0, <1>1, <1>2, <1>4 DEF Types, PoolsOK
  <1>6. ASSUME NEW x \in Requests PROVE RequestOK(request[x], x)'
    <2>1. PICK p \in RequestType, q \in RequestType :
                 /\ request[x] = p /\ request'[x] = q
                 /\ q.at = p.at /\ q.key = p.key /\ q.size = p.size
                 /\ q.sender = p.sender /\ q.by = p.by /\ q.since = p.since
                 /\ q.outcome = p.outcome /\ q.status = p.status /\ q.code = p.code /\ q.token = p.token
                 /\ q.owners = IF p.at \in {"receiving", "authenticating"}
                               THEN p.owners \cup Owner(api_keys', p.key) ELSE p.owners
      BY <1>3
    <2>2. RequestOK(p, x)
      BY <2>1, Local
    <2>3. Waiting(q)'
      BY <1>2, <2>1, <2>2 DEF RequestOK, Waiting, Owner
    <2>4. Handled(q)' /\ Answered(q)'
      BY <1>2, <2>1, <2>2 DEF RequestOK, Handled, Answered, HasVerdict
    <2>5. \A i \in 1..Len(interceptors)' : HoldsSlot(i, q, x)'
      BY <1>2, <2>1, <2>2 DEF RequestOK, HoldsSlot, Running
    <2>6. RequestOK(q, x)'
      BY <1>2, <2>1, <2>2, <2>3, <2>4, <2>5 DEF RequestOK
    <2> QED
      BY <2>1, <2>6 DEF RequestOK, Waiting, Handled, Answered, HasVerdict, HoldsSlot, Running, Owner
  <1> QED
    BY <1>5, <1>6 DEF IInv

-----------------------------------------------------------------------------
(* The counters.  A step either leaves the verdicts of answered requests as *)
(* they are, and counts nothing, or builds one more and counts it.          *)

Verdicts == {r \in Requests : HasVerdict(request[r])}
WithStatus(s) == {r \in Verdicts : request[r].status = s}
FromSender(a) == {r \in Verdicts : request[r].sender = a}

Counted ==
  /\ metrics \in [total : Nat, status : [Statuses -> Nat], sender : [Agents -> Nat]]
  /\ IsFiniteSet(Verdicts)
  /\ metrics.total = Cardinality(Verdicts)
  /\ \A s \in Statuses : metrics.status[s] = Cardinality(WithStatus(s))
  /\ \A a \in Agents : metrics.sender[a] = Cardinality(FromSender(a))

LEMMA NoVerdict ==
  ASSUME Counted, metrics' = metrics,
         \A x \in Requests :
           /\ HasVerdict(request'[x]) <=> HasVerdict(request[x])
           /\ HasVerdict(request[x]) => /\ request'[x].status = request[x].status
                                        /\ request'[x].sender = request[x].sender
  PROVE  Counted'
  <1>1. Verdicts' = Verdicts
    BY DEF Verdicts, HasVerdict
  <1>2. \A s : WithStatus(s)' = WithStatus(s)
    BY DEF Verdicts, WithStatus
  <1>3. \A a : FromSender(a)' = FromSender(a)
    BY DEF Verdicts, FromSender
  <1> QED
    BY <1>1, <1>2, <1>3 DEF Counted

\* A step of a request that is not answered, and not with a verdict.
LEMMA NoVerdictHere ==
  ASSUME IInv, Counted, metrics' = metrics, NEW r \in Requests, NEW q,
         request' = [request EXCEPT ![r] = q], ~HasVerdict(q), request[r].at # "done"
  PROVE  Counted'
  <1>1. ~HasVerdict(request[r])
    BY DEF HasVerdict
  <1>2. \A x \in Requests : request'[x] = IF x = r THEN q ELSE request[x]
    BY DEF IInv, Types
  <1> QED
    BY <1>1, <1>2, NoVerdict

LEMMA NoVerdictChange ==
  ASSUME IInv, Counted, metrics' = metrics, request' = request
  PROVE  Counted'
  BY NoVerdict

LEMMA RefusalCounts ==
  ASSUME IInv, Counted, metrics' = metrics, NEW r \in Requests,
         NEW code \in Codes \ {200}, Answer(r, code), request[r].at # "done"
  PROVE  Counted'
  <1>1. PICK q \in RequestType : request' = [request EXCEPT ![r] = q] /\ q.status = None
    BY Refusal
  <1> QED
    BY <1>1, NoVerdictHere DEF HasVerdict

\* One element more, in the sets that it belongs to.
LEMMA OneMore ==
  ASSUME NEW S, NEW x, IsFiniteSet(S), x \notin S
  PROVE  IsFiniteSet(S \cup {x}) /\ Cardinality(S \cup {x}) = Cardinality(S) + 1
  BY FS_AddElement

LEMMA VerdictCounts ==
  ASSUME IInv, Counted, NEW r \in Requests, NEW q \in RequestType,
         request[r].at = "signing", Record(r),
         request' = [request EXCEPT ![r] = q], q.at = "done",
         q.status = request[r].status, q.sender = request[r].sender
  PROVE  Counted'
  <1>1. /\ request[r].status \in Statuses /\ request[r].sender \in Agents
        /\ ~HasVerdict(request[r])
    BY Local DEF RequestOK, Handled, HasVerdict, RequestType
  <1>s. PICK s \in Statuses : s = request[r].status /\ s = q.status
    BY <1>1
  <1>a. PICK a \in Agents : a = request[r].sender /\ a = q.sender
    BY <1>1
  <1>2. /\ metrics'.total = metrics.total + 1
        /\ metrics'.status = [metrics.status EXCEPT ![s] = @ + 1]
        /\ metrics'.sender = [metrics.sender EXCEPT ![a] = @ + 1]
        /\ metrics' \in [total : Nat, status : [Statuses -> Nat], sender : [Agents -> Nat]]
    <2>1. /\ metrics.status \in [Statuses -> Nat] /\ metrics.sender \in [Agents -> Nat]
          /\ metrics.total \in Nat
      BY DEF Counted
    <2>2. /\ [metrics.status EXCEPT ![s] = @ + 1] \in [Statuses -> Nat]
          /\ [metrics.sender EXCEPT ![a] = @ + 1] \in [Agents -> Nat]
          /\ metrics.total + 1 \in Nat
      BY <2>1
    <2> QED
      BY <1>s, <1>a, <2>2 DEF Record
  <1>3. \A x \in Requests : request'[x] = IF x = r THEN q ELSE request[x]
    BY DEF IInv, Types
  <1>h. HasVerdict(q)
    BY <1>s, GatewayAssumption DEF HasVerdict
  <1>4. Verdicts' = Verdicts \cup {r} /\ r \notin Verdicts /\ IsFiniteSet(Verdicts)
    BY <1>1, <1>3, <1>h DEF Verdicts, HasVerdict, Counted
  <1>5. IsFiniteSet(Verdicts') /\ metrics'.total = Cardinality(Verdicts')
    BY <1>2, <1>4, OneMore DEF Counted
  <1>6. ASSUME NEW t \in Statuses PROVE metrics'.status[t] = Cardinality(WithStatus(t)')
    <2>1. IsFiniteSet(WithStatus(t)) /\ r \notin WithStatus(t)
      BY <1>4, FS_Subset DEF WithStatus
    <2>2. CASE t = s
      <3>1. WithStatus(t)' = WithStatus(t) \cup {r}
        BY <1>s, <1>3, <1>4, <2>2 DEF WithStatus, Verdicts
      <3>2. Cardinality(WithStatus(t) \cup {r}) = Cardinality(WithStatus(t)) + 1
        BY <2>1, OneMore
      <3>3. metrics'.status[t] = metrics.status[t] + 1
        BY <1>2, <2>2 DEF Counted
      <3> QED
        BY <3>1, <3>2, <3>3 DEF Counted
    <2>3. CASE t # s
      <3>1. WithStatus(t)' = WithStatus(t)
        BY <1>s, <1>3, <1>4, <2>3 DEF WithStatus, Verdicts
      <3>2. metrics'.status[t] = metrics.status[t]
        BY <1>2, <2>3 DEF Counted
      <3> QED
        BY <3>1, <3>2 DEF Counted
    <2> QED
      BY <2>2, <2>3
  <1>7. ASSUME NEW b \in Agents PROVE metrics'.sender[b] = Cardinality(FromSender(b)')
    <2>1. IsFiniteSet(FromSender(b)) /\ r \notin FromSender(b)
      BY <1>4, FS_Subset DEF FromSender
    <2>2. CASE b = a
      <3>1. FromSender(b)' = FromSender(b) \cup {r}
        BY <1>a, <1>3, <1>4, <2>2 DEF FromSender, Verdicts
      <3>2. Cardinality(FromSender(b) \cup {r}) = Cardinality(FromSender(b)) + 1
        BY <2>1, OneMore
      <3>3. metrics'.sender[b] = metrics.sender[b] + 1
        BY <1>2, <2>2 DEF Counted
      <3> QED
        BY <3>1, <3>2, <3>3 DEF Counted
    <2>3. CASE b # a
      <3>1. FromSender(b)' = FromSender(b)
        BY <1>a, <1>3, <1>4, <2>3 DEF FromSender, Verdicts
      <3>2. metrics'.sender[b] = metrics.sender[b]
        BY <1>2, <2>3 DEF Counted
      <3> QED
        BY <3>1, <3>2 DEF Counted
    <2> QED
      BY <2>2, <2>3
  <1> QED
    BY <1>2, <1>5, <1>6, <1>7 DEF Counted

LEMMA DecideCounts ==
  ASSUME IInv, Counted, metrics' = metrics, NEW r \in Requests, NEW outcome, NEW status,
         Decide(r, outcome, status), request[r].at \in {"intercepting", "running"}
  PROVE  Counted'
  <1> DEFINE q == [request[r] EXCEPT !.at = "signing", !.outcome = outcome, !.status = status]
  <1>1. request' = [request EXCEPT ![r] = q]
    BY DEF Decide
  <1>2. q.at = "signing" /\ request[r].at # "done"
    BY Local DEF RequestType
  <1> HIDE DEF q
  <1> QED
    BY <1>1, <1>2, NoVerdictHere DEF HasVerdict

LEMMA SignCounts == ASSUME IInv, Counted, NEW r \in Requests, Sign(r) PROVE Counted'
  <1>0. request[r].at = "signing"
    BY DEF Sign
  <1>1. CASE Fail(r)
    BY <1>0, <1>1, RefusalCounts DEF Fail, Codes
  <1>2. CASE ~Fail(r)
    <2>1. PICK token \in Tokens(r), code \in Rendered(r) :
            Record(r) /\ request' = [request EXCEPT ![r] = Verdict(r, token, code)]
      BY <1>2 DEF Sign
    <2>2. PICK i \in 1..Len(interceptors) : i = request[r].by
      BY <1>0, Local DEF RequestOK, Handled
    <2>3. interceptors[i] \in InterceptorType
      BY DEF IInv, Types
    <2>4. token \in SigningKeys \cup {None}
      BY <2>2, <2>3, KeyPairType DEF Tokens
    <2>5. PICK q : q = Verdict(r, token, code)
      OBVIOUS
    <2>6. /\ q \in RequestType /\ q.at = "done"
          /\ q.status = request[r].status /\ q.sender = request[r].sender
      BY <2>4, <2>5, VerdictFacts
    <2> QED
      BY <1>0, <2>1, <2>5, <2>6, VerdictCounts
  <1> QED
    BY <1>1, <1>2

LEMMA ArriveCounts == ASSUME IInv, Counted, NEW r \in Requests, Arrive(r) PROVE Counted'
  <1>0. request[r].at # "done" /\ metrics' = metrics
    BY DEF Arrive
  <1>1. CASE \E code \in {400, 500} : Answer(r, code)
    BY <1>0, <1>1, RefusalCounts DEF Codes
  <1>2. CASE \E key, size, limit : request' = [request EXCEPT ![r] = Arrival(key, size, limit)]
    <2>1. PICK key, size, limit : request' = [request EXCEPT ![r] = Arrival(key, size, limit)]
      BY <1>2
    <2>2. PICK q : q = Arrival(key, size, limit)
      OBVIOUS
    <2>3. ~HasVerdict(q)
      BY <2>2 DEF Arrival, HasVerdict
    <2>4. request' = [request EXCEPT ![r] = q]
      BY <2>1, <2>2
    <2> QED
      BY <1>0, <2>3, <2>4, NoVerdictHere
  <1> QED
    BY <1>1, <1>2 DEF Arrive

\* A request that goes on and is not answered.
LEMMA OpenCounts ==
  ASSUME IInv, Counted, metrics' = metrics, NEW r \in Requests, NEW q,
         request' = [request EXCEPT ![r] = q], q.at # "done", request[r].at # "done"
  PROVE  Counted'
  BY NoVerdictHere DEF HasVerdict

LEMMA ReceiveBodyCounts == ASSUME IInv, Counted, NEW r \in Requests, ReceiveBody(r) PROVE Counted'
  <1>0. request[r].at # "done" /\ metrics' = metrics
    BY DEF ReceiveBody
  <1>1. CASE Answer(r, 400)
    BY <1>0, <1>1, RefusalCounts DEF Codes
  <1>2. CASE ~Answer(r, 400)
    <2> DEFINE q == [request[r] EXCEPT !.at = "authenticating", !.limit = 0]
    <2>1. q.at # "done"
      BY Local DEF RequestType
    <2>2. request' = [request EXCEPT ![r] = q]
      BY <1>2 DEF ReceiveBody
    <2> HIDE DEF q
    <2> QED
      BY <1>0, <2>1, <2>2, OpenCounts
  <1> QED
    BY <1>1, <1>2

LEMMA AuthenticateCounts == ASSUME IInv, Counted, NEW r \in Requests, Authenticate(r) PROVE Counted'
  <1>0. request[r].at # "done" /\ metrics' = metrics
    BY DEF Authenticate
  <1>1. CASE Answer(r, 400)
    BY <1>0, <1>1, RefusalCounts DEF Codes
  <1>2. CASE ~Answer(r, 400)
    <2>1. PICK agent : request' = [request EXCEPT ![r].at = "handling", ![r].sender = agent]
      BY <1>2 DEF Authenticate
    <2> DEFINE q == [request[r] EXCEPT !.at = "handling", !.sender = agent]
    <2>2. q.at # "done"
      BY Local DEF RequestType
    <2>3. request' = [request EXCEPT ![r] = q]
      BY <2>1
    <2> HIDE DEF q
    <2> QED
      BY <1>0, <2>2, <2>3, OpenCounts
  <1> QED
    BY <1>1, <1>2

LEMMA HandleCounts == ASSUME IInv, Counted, NEW r \in Requests, Handle(r) PROVE Counted'
  <1> DEFINE q == [request[r] EXCEPT !.at = "intercepting", !.by = Returned]
  <1>1. q.at # "done"
    BY Local DEF RequestType
  <1>2. /\ request' = [request EXCEPT ![r] = q]
        /\ request[r].at # "done" /\ metrics' = metrics
    BY DEF Handle
  <1> HIDE DEF q
  <1> QED
    BY <1>1, <1>2, OpenCounts

LEMMA InterceptCounts == ASSUME IInv, Counted, NEW r \in Requests, Intercept(r) PROVE Counted'
  <1>0. request[r].at = "intercepting" /\ metrics' = metrics
    BY DEF Intercept
  <1>1. CASE \E status : Decide(r, None, status)
    BY <1>0, <1>1, DecideCounts
  <1>2. CASE request' = [request EXCEPT ![r].at = "running"]
    <2> DEFINE q == [request[r] EXCEPT !.at = "running"]
    <2>1. q.at # "done" /\ request' = [request EXCEPT ![r] = q]
      BY <1>2, Local DEF RequestType
    <2> HIDE DEF q
    <2> QED
      BY <1>0, <2>1, OpenCounts
  <1> QED
    BY <1>1, <1>2 DEF Intercept

LEMMA EndRunCounts == ASSUME IInv, Counted, NEW r \in Requests, EndRun(r) PROVE Counted'
  <1>0. metrics' = metrics
    BY DEF EndRun
  <1>1. CASE request[r].at # "running"
    BY <1>0, <1>1, NoVerdictChange DEF EndRun
  <1>2. CASE request[r].at = "running"
    <2>1. PICK outcome : request' = [request EXCEPT ![r].outcome = outcome]
      BY <1>2 DEF EndRun
    <2> DEFINE q == [request[r] EXCEPT !.outcome = outcome]
    <2>2. q.at # "done" /\ request' = [request EXCEPT ![r] = q]
      BY <1>2, <2>1, Local DEF RequestType
    <2> HIDE DEF q
    <2> QED
      BY <1>0, <1>2, <2>2, OpenCounts
  <1> QED
    BY <1>1, <1>2

LEMMA ResumeCounts ==
  ASSUME IInv, Counted, NEW r \in Requests, Resume(r) \/ TimeOut(r)
  PROVE  Counted'
  <1>1. request[r].at = "running" /\ metrics' = metrics /\ \E outcome, status : Decide(r, outcome, status)
    BY DEF Resume, TimeOut
  <1> QED
    BY <1>1, DecideCounts

LEMMA RotateKeysCounts == ASSUME IInv, Counted, RotateKeys PROVE Counted'
  <1>1. ASSUME NEW x \in Requests
        PROVE  /\ request'[x].at = request[x].at
               /\ request'[x].status = request[x].status
               /\ request'[x].sender = request[x].sender
    <2>1. PICK owners : request'[x] = [request[x] EXCEPT !.owners = owners]
      BY DEF RotateKeys
    <2> QED
      BY <2>1, Local DEF RequestType
  <1>2. metrics' = metrics
    BY DEF RotateKeys
  <1> QED
    BY <1>1, <1>2, NoVerdict DEF HasVerdict

-----------------------------------------------------------------------------
(* The invariant. *)

LEMMA Initially == Init => IInv /\ Counted
  <1> SUFFICES ASSUME Init PROVE IInv /\ Counted
    OBVIOUS
  <1>1. /\ interceptors = << >> /\ Len(interceptors) = 0 /\ interceptor = 0
        /\ configuring = {}
        /\ \A x \in Requests : request[x] = NewRequest
    BY DEF Init
  <1>2. Types
    <2>1. request \in [Requests -> RequestType]
      BY NewRequestType DEF Init
    <2> QED
      BY <1>1, <2>1 DEF Types, Init
  <1>3. PoolsOK
    BY <1>1 DEF PoolsOK
  <1>4. ASSUME NEW x \in Requests PROVE RequestOK(NewRequest, x)
    BY <1>1 DEF NewRequest, RequestOK, Waiting, Handled, Answered, HasVerdict, HoldsSlot
  <1>5. Verdicts = {}
    BY <1>1 DEF NewRequest, Verdicts, HasVerdict
  <1>6. \A s : WithStatus(s) = {} /\ FromSender(s) = {}
    BY <1>5 DEF WithStatus, FromSender
  <1>7. Counted
    BY <1>5, <1>6, FS_EmptySet DEF Counted, Init
  <1> QED
    BY <1>1, <1>2, <1>3, <1>4, <1>7 DEF IInv

LEMMA Inductive == IInv /\ Counted /\ [Next]_vars => (IInv /\ Counted)'
  <1> SUFFICES ASSUME IInv, Counted, [Next]_vars PROVE IInv' /\ Counted'
    OBVIOUS
  <1>1. ASSUME NEW r \in Requests, Arrive(r) PROVE IInv' /\ Counted'
    BY <1>1, ArriveStep, ArriveCounts
  <1>2. ASSUME NEW r \in Requests, ReceiveBody(r) PROVE IInv' /\ Counted'
    BY <1>2, ReceiveBodyStep, ReceiveBodyCounts
  <1>3. ASSUME NEW r \in Requests, Authenticate(r) PROVE IInv' /\ Counted'
    BY <1>3, AuthenticateStep, AuthenticateCounts
  <1>4. ASSUME NEW r \in Requests, Handle(r) PROVE IInv' /\ Counted'
    BY <1>4, HandleStep, HandleCounts
  <1>5. ASSUME NEW r \in Requests, Intercept(r) PROVE IInv' /\ Counted'
    BY <1>5, InterceptStep, InterceptCounts
  <1>6. ASSUME NEW r \in Requests, EndRun(r) PROVE IInv' /\ Counted'
    BY <1>6, EndRunStep, EndRunCounts
  <1>7. ASSUME NEW r \in Requests, Resume(r) \/ TimeOut(r) PROVE IInv' /\ Counted'
    BY <1>7, ResumeStep, ResumeCounts
  <1>8. ASSUME NEW r \in Requests, Sign(r) PROVE IInv' /\ Counted'
    BY <1>8, SignStep, SignCounts
  <1>9. CASE Jwks
    <2>1. metrics' = metrics /\ request' = request
      BY <1>9 DEF Jwks
    <2> QED
      BY <1>9, <2>1, JwksStep, NoVerdictChange
  <1>10. CASE Configure
    <2>1. metrics' = metrics /\ request' = request
      BY <1>10 DEF Configure
    <2> QED
      BY <1>10, <2>1, ConfigureStep, NoVerdictChange
  <1>11. CASE RotateKeys
    BY <1>11, RotateKeysStep, RotateKeysCounts
  <1>12. ASSUME NEW i \in configuring, Swap(i) PROVE IInv' /\ Counted'
    <2>1. metrics' = metrics /\ request' = request
      BY <1>12 DEF Swap
    <2> QED
      BY <1>12, <2>1, SwapStep, NoVerdictChange
  <1>13. CASE UNCHANGED vars
    <2>1. /\ api_keys' = api_keys /\ trusted_env' = trusted_env
          /\ interceptors' = interceptors /\ interceptor' = interceptor
          /\ configuring' = configuring /\ request' = request /\ metrics' = metrics
      BY <1>13 DEF vars
    <2>2. IInv'
      BY <2>1 DEF IInv, Types, PoolsOK, RequestOK, Waiting, Handled, Answered, HasVerdict, HoldsSlot,
                  Running, Turn
    <2> QED
      BY <2>1, <2>2, NoVerdictChange
  <1> QED
    BY <1>1, <1>2, <1>3, <1>4, <1>5, <1>6, <1>7, <1>8, <1>9, <1>10, <1>11, <1>12, <1>13
       DEF Next

\* The invariant that all of the gateway's theorems follow from: the states of
\* the requests, of the engine pools and of the counters of endpoints.py.
THEOREM Invariance == Spec => [](IInv /\ Counted)
  <1> QED
    BY Initially, Inductive, PTL DEF Spec

-----------------------------------------------------------------------------
(* What the invariant says of the gateway. *)

LEMMA ImpliesTypeOK == IInv => TypeOK
  <1> SUFFICES ASSUME IInv PROVE TypeOK
    OBVIOUS
  <1>0. Types /\ PoolsOK /\ DOMAIN interceptors = 1..Len(interceptors)
    BY DEF IInv, Types
  <1>1. interceptor \in 0..Len(interceptors) /\ configuring \subseteq DOMAIN interceptors
    BY <1>0 DEF Types
  <1>2. ASSUME NEW i \in DOMAIN interceptors
        PROVE  /\ interceptors[i].trusted \subseteq Agents
               /\ interceptors[i].key \in SigningKeys \cup {None}
               /\ interceptors[i].runs \subseteq Requests
               /\ Cardinality(interceptors[i].runs) <= Slots
    <2>1. interceptors[i] \in InterceptorType
      BY <1>0 DEF Types
    <2> QED
      BY <1>0, <2>1 DEF PoolsOK, InterceptorType
  <1>3. ASSUME NEW r \in Requests
        PROVE  /\ request[r].at \in Steps /\ request[r].code \in Codes \cup {0}
               /\ request[r].sender \in Agents \cup {None}
               /\ request[r].by \in 0..Len(interceptors)
               /\ request[r].status \in Statuses \cup {None}
               /\ (request[r].at = "done") = (request[r].code # 0)
    BY Local DEF RequestType, RequestOK, Answered, HasVerdict
  <1> QED
    BY <1>1, <1>2, <1>3 DEF TypeOK

\* What the gateway keeps has its type, for every interceptor and request, and
\* no engine pool holds more runs than it has slots.
THEOREM GatewayTypeCorrect == Spec => []TypeOK
  <1> QED
    BY Invariance, ImpliesTypeOK, PTL

\* A message is judged, counted and signed as sent by an agent that owned the
\* request's key while it was coming in (require_agent_identity and
\* intercept_message), however often the key map is rotated.
THEOREM SenderOwnsKey == Spec => []SenderOwnedKey
  <1>1. IInv => SenderOwnedKey
    BY Local DEF RequestOK, Handled, SenderOwnedKey
  <1> QED
    BY Invariance, <1>1, PTL

\* What reaches an engine is within the limit of the interceptor that runs it
\* and was sent by an agent that it trusts, however the interceptors are
\* replaced between the check of the body's size and intercept.
THEOREM AdmittedByItsHandler == Spec => []AdmittedByHandler
  <1>1. IInv => AdmittedByHandler
    <2> SUFFICES ASSUME IInv, NEW i \in DOMAIN interceptors, NEW r \in interceptors[i].runs,
                        request[r].at = "running"
                 PROVE  Running(i, request[r])
      BY DEF AdmittedByHandler, Running
    <2>1. i \in 1..Len(interceptors)
      BY DEF IInv, Types
    <2>2. r \in Requests
      <3>1. interceptors[i] \in InterceptorType
        BY <2>1 DEF IInv, Types
      <3> QED
        BY <3>1 DEF InterceptorType
    <2> QED
      BY <2>1, <2>2, Local DEF RequestOK, HoldsSlot
  <1> QED
    BY Invariance, <1>1, PTL

\* Exactly the verdicts that verified nothing are returned without a signature
\* (_build_verdict).
THEOREM SignedUnlessUnverifiable == Spec => []UnsignedIffUnverifiable
  <1>1. IInv => UnsignedIffUnverifiable
    BY Local DEF RequestOK, Answered, HasVerdict, UnsignedIffUnverifiable
  <1> QED
    BY Invariance, <1>1, PTL

\* The tokens of an interceptor are all signed with the one key that it
\* publishes (_ensure_key_pair), whatever the environment says later.
THEOREM TokensUnderOneKey == Spec => []OneKeyPerInterceptor
  <1>1. IInv => OneKeyPerInterceptor
    BY Local DEF RequestOK, Answered, HasVerdict, OneKeyPerInterceptor
  <1> QED
    BY Invariance, <1>1, PTL

\* A request is handled by an interceptor that became current no earlier than
\* the one that was current when it arrived (configure_interceptor's swap).
THEOREM HandledByFresh == Spec => []FreshInterceptor
  <1>1. IInv => FreshInterceptor
    <2> SUFFICES ASSUME IInv, NEW r \in Requests,
                        request[r].at \in {"intercepting", "running", "signing"}
                 PROVE  interceptors[request[r].by].turn >= request[r].since
      BY DEF FreshInterceptor
    <2>1. PICK i \in 1..Len(interceptors) : i = request[r].by
      BY Local DEF RequestOK, Handled
    <2>2. interceptors[i].turn \in Nat /\ request[r].since \in Nat
      <3>1. interceptors[i] \in InterceptorType
        BY DEF IInv, Types
      <3> QED
        BY <3>1, Local DEF InterceptorType, RequestType
    <2> QED
      BY <2>1, <2>2, Local DEF RequestOK, Handled
  <1> QED
    BY Invariance, <1>1, PTL

\* The counters of /metrics are the verdicts that were built: their number, how
\* many of each status, and how many of each sender (record_intercept).  Every
\* verdict that is returned is among them, and of the others each is a message
\* that an engine blocked and whose answer could not be rendered.
THEOREM MetricsCountVerdicts == Spec => []MetricsAreVerdicts
  <1>1. IInv /\ Counted => MetricsAreVerdicts
    <2> SUFFICES ASSUME IInv, Counted PROVE MetricsAreVerdicts
      OBVIOUS
    <2>1. ASSUME NEW r \in Requests
          PROVE  /\ request[r].code = 200 => HasVerdict(request[r])
                 /\ HasVerdict(request[r]) /\ request[r].code # 200 =>
                      request[r].code = 500 /\ request[r].status = "blocked"
      BY Local DEF RequestOK, Answered
    <2> QED
      BY <2>1 DEF Counted, MetricsAreVerdicts, Verdicts, WithStatus, FromSender
  <1> QED
    BY Invariance, <1>1, PTL

=============================================================================
