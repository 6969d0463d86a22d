------------------------------ MODULE Gateway ------------------------------
(***************************************************************************)
(* The HTTP gateway (protocol/endpoints.py) and the pipeline behind it     *)
(* (A2AVerificationInterceptor.intercept): requests to /a2a/intercept on   *)
(* one event loop, while other threads replace the interceptor, ask for    *)
(* the key set, and the environment's keys are rotated.                    *)
(*                                                                         *)
(* An interceptor is a record of what of it requests can tell apart: its   *)
(* size limit, the agents it trusts, its signing key and the engine runs   *)
(* that hold its slots.  What the trust boundary and the engine pool do in *)
(* full is in TrustBoundary and EngineBudget: here a sender may be refused *)
(* for any reason, trusted or not, and an engine may end or not.           *)
(***************************************************************************)
EXTENDS Integers, FiniteSets, Sequences

CONSTANTS
  Requests, Agents, ApiKeys, SigningKeys,
  KeyMaps,          \* what QWED_A2A_API_KEYS may say: API keys -> agents
  TrustLists,       \* what QWED_A2A_TRUSTED_AGENTS may say
  Unloadable,       \* an entry of it that makes loading raise
  DefaultConfig, Configs,  \* records: limit, trusted
  Sizes,            \* sizes of request bodies, which are mostly payload
  Allowance,        \* ENVELOPE_ALLOWANCE_BYTES
  Outcomes,         \* what engines end with: a status, or "raised"
  Slots,            \* _ENGINE_WORKERS + _ENGINE_QUEUE
  MaxInterceptors,  \* bound: interceptors made
  None

VARIABLES
  api_keys, trusted_env,  \* the environment
  interceptors,     \* all that were made, a sequence
  interceptor,      \* _interceptor: the index of the current one, 0 for None
  configuring,      \* those made by configure_interceptor and not yet current
  request,          \* per request: its step, its local variables, its answer
  metrics

vars == <<api_keys, trusted_env, interceptors, interceptor,
          configuring, request, metrics>>
environment == <<api_keys, trusted_env>>
service == <<interceptors, interceptor, configuring>>

Statuses == {"verified", "blocked", "unverifiable", "heuristic_pass", "error"}
Steps == {"new", "receiving", "authenticating", "handling", "intercepting",
          "running", "signing", "done"}
Codes == {200, 400, 500, 503}   \* 400 for all codes from 400 to 499
Config == [limit : Nat, trusted : SUBSET Agents]

ASSUME GatewayAssumption ==
  /\ None \notin Agents \cup SigningKeys \cup Statuses
  /\ Unloadable \notin Agents
  /\ \A map \in KeyMaps : \A k \in DOMAIN map : map[k] \in Agents
  /\ TrustLists \subseteq Seq(Agents \cup {Unloadable})
  /\ DefaultConfig \in Config /\ Configs \subseteq Config
  /\ Sizes \subseteq Nat /\ Allowance \in Nat /\ Slots \in Nat
  /\ Outcomes \subseteq Statuses \cup {"raised"}

-----------------------------------------------------------------------------
(* Interceptors. *)

\* _load_trusted_agents: the entries are granted one by one, and those before
\* an entry that raises stay granted.
Unread(list) == {i \in DOMAIN list : list[i] = Unloadable}
Raises(list) == Unread(list) # {}
Loaded(list) == {list[i] : i \in {j \in DOMAIN list : \A k \in Unread(list) : j < k}}

\* turn is history: 1 for the first interceptor that is current, 2 for the
\* next; 0 for one that has not been.
Interceptor(config, turn) ==
  [limit |-> config.limit, trusted |-> config.trusted \cup Loaded(trusted_env),
   key |-> None, runs |-> {}, turn |-> turn]

\* get_interceptor: the singleton is made on first use, under the lock, and
\* is there before its agents are loaded.
Made == IF interceptor # 0 THEN interceptors
        ELSE Append(interceptors, Interceptor(DefaultConfig, 1))

Current == IF interceptor # 0 THEN interceptor ELSE Len(Made)

GetInterceptor == interceptors' = Made /\ interceptor' = Current

\* Mutation: the first interceptor is remembered, as by functools.cache.
ReturnedFirst == 1

Returned == Current

\* History: how many interceptors have been current.
Turn == IF interceptor = 0 THEN 0 ELSE interceptors[interceptor].turn

LoadRaises == interceptor = 0 /\ Raises(trusted_env)

\* Mutation: the signing key is read from the environment every time.
KeyPairUncached(self) == SigningKeys \cup {None}

\* _ensure_key_pair: the key is read from the environment when it is first
\* needed, then kept.  The environment may change at any time and not be set
\* at all (None, which raises): what is read of it is any of its values.
KeyPair(self) == IF self.key # None THEN {self.key} ELSE SigningKeys \cup {None}

-----------------------------------------------------------------------------
(* A request, step by step.  Its steps run on the event loop, but for the   *)
(* engine and the check of the key; other threads run between any two.      *)

NewRequest == [at |-> "new", key |-> None, size |-> 0, limit |-> 0,
               sender |-> None, by |-> 0, outcome |-> None, status |-> None,
               code |-> 0, token |-> None, owners |-> {}, since |-> 0]

Owner(map, key) == IF key \in DOMAIN map THEN {map[key]} ELSE {}

\* The verdict's status, with the outcome of an engine that it is made of.
Decide(r, outcome, status) ==
  request' = [request EXCEPT ![r].at = "signing", ![r].outcome = outcome,
                             ![r].status = status]

\* With the answer, all that is not part of it or on record is forgotten.
Answer(r, code) ==
  request' = [request EXCEPT ![r] =
                [NewRequest EXCEPT !.at = "done", !.code = code]]

Arrival(key, size, limit) ==
  [at |-> "receiving", key |-> key, size |-> size, limit |-> limit,
   sender |-> None, by |-> 0, outcome |-> None, status |-> None, code |-> 0,
   token |-> None, owners |-> Owner(api_keys, key), since |-> Turn]

\* _BodySizeLimitRoute: the limit is read from the interceptor of the moment.
\* A Content-Length that is over it or malformed is refused at once.
Arrive(r) ==
  /\ request[r].at = "new"
  /\ GetInterceptor
  /\ \E key \in ApiKeys \cup {None}, size \in Sizes :
       LET limit == Made[Returned].limit + Allowance
       IN  \/ LoadRaises /\ Answer(r, 500)
           \/ ~LoadRaises /\ Answer(r, 400)
           \/ /\ ~LoadRaises
              /\ request' = [request EXCEPT ![r] = Arrival(key, size, limit)]
  /\ UNCHANGED <<environment, configuring, metrics>>

\* The body comes in, is cut off where it exceeds the limit, and is parsed.
ReceiveBody(r) ==
  /\ request[r].at = "receiving"
  /\ \/ Answer(r, 400)
     \/ /\ request[r].size <= request[r].limit
        /\ request' = [request EXCEPT ![r].at = "authenticating", ![r].limit = 0]
  /\ UNCHANGED <<environment, service, metrics>>

\* Mutation: the sender is who the body says it is.
IdentitiesFromBody(r) ==
  IF Owner(api_keys, request[r].key) = {} THEN {} ELSE Agents

Identities(r) == Owner(api_keys, request[r].key)

\* require_agent_identity, which reads the key map afresh; then the message is
\* checked against its schema, and its sender replaced by the key's agent.
Authenticate(r) ==
  /\ request[r].at = "authenticating"
  /\ \/ Answer(r, 400)
     \/ \E agent \in Identities(r) :
          request' = [request EXCEPT ![r].at = "handling", ![r].sender = agent]
  /\ UNCHANGED <<environment, service, metrics>>

\* intercept_message asks for the interceptor again; there is one by now.
Handle(r) ==
  /\ request[r].at = "handling"
  /\ request' = [request EXCEPT ![r].at = "intercepting", ![r].by = Returned]
  /\ UNCHANGED <<environment, service, metrics>>

\* Mutation: the size was checked by the router.
AcceptsAnySize(self, q) == q.sender \in self.trusted

Accepts(self, q) == q.size <= self.limit /\ q.sender \in self.trusted

\* Mutation: one run too many is let in.
FullTooLate(self) == Cardinality(self.runs) > Slots

Full(self) == Cardinality(self.runs) >= Slots

\* intercept, up to its await: size, trust, and a slot of the engine pool.
Intercept(r) ==
  LET i == request[r].by
      self == interceptors[i]
  IN  /\ request[r].at = "intercepting"
      /\ \/ Decide(r, None, "blocked") /\ UNCHANGED interceptors
         \/ /\ Accepts(self, request[r]) /\ Full(self)
            /\ Decide(r, None, "error") /\ UNCHANGED interceptors
         \/ /\ Accepts(self, request[r]) /\ ~Full(self)
            /\ interceptors' = [interceptors EXCEPT ![i].runs = @ \cup {r}]
            /\ request' = [request EXCEPT ![r].at = "running"]
      /\ UNCHANGED <<environment, interceptor, configuring, metrics>>

\* An engine is done, waited for or not.
EndRun(r) ==
  /\ \E i \in DOMAIN interceptors :
       /\ r \in interceptors[i].runs
       /\ interceptors' = [interceptors EXCEPT ![i].runs = @ \ {r}]
  /\ IF request[r].at = "running"
     THEN \E outcome \in Outcomes :
            request' = [request EXCEPT ![r].outcome = outcome]
     ELSE UNCHANGED request
  /\ UNCHANGED <<environment, interceptor, configuring, metrics>>

Resume(r) ==
  /\ request[r].at = "running" /\ request[r].outcome # None
  /\ IF request[r].outcome = "raised" THEN Decide(r, None, "error")
     ELSE Decide(r, request[r].outcome, request[r].outcome)
  /\ UNCHANGED <<environment, service, metrics>>

TimeOut(r) ==
  /\ request[r].at = "running"
  /\ Decide(r, None, "error")
  /\ UNCHANGED <<environment, service, metrics>>

\* record_intercept.
Record(r) ==
  metrics' = [total |-> metrics.total + 1,
              status |-> [metrics.status EXCEPT ![request[r].status] = @ + 1],
              sender |-> [metrics.sender EXCEPT ![request[r].sender] = @ + 1]]

\* What is kept of a request whose verdict has been built.
Verdict(r, token, code) ==
  [at |-> "done", key |-> None, size |-> 0, limit |-> 0,
   sender |-> request[r].sender, by |-> request[r].by, outcome |-> None,
   status |-> request[r].status, code |-> code, token |-> token,
   owners |-> {}, since |-> 0]

\* model_dump, and the rendering of what it yields: they raise if the engine's
\* result quotes what is not text, as contradictory claims with a lone
\* surrogate in them do.  Engines quote a payload in no other result.
Rendered(r) == IF request[r].outcome = "blocked" THEN {200, 500} ELSE {200}

\* Mutation: a verdict that cannot be signed goes out unsigned.
TokensIfPossible(r) ==
  IF request[r].status = "unverifiable" THEN {None}
  ELSE KeyPair(interceptors[request[r].by])

\* Every verdict is signed but "unverifiable".  A token stands for its key.
Tokens(r) ==
  IF request[r].status = "unverifiable" THEN {None}
  ELSE KeyPair(interceptors[request[r].by]) \ {None}

Unsignable(r) == /\ request[r].status # "unverifiable"
                 /\ None \in KeyPair(interceptors[request[r].by])

\* Mutation: the intercept is recorded before it is signed.
FailRecorded(r) == Answer(r, 503) /\ Record(r)

\* A verdict that cannot be signed is neither recorded nor returned.
Fail(r) == Answer(r, 503) /\ UNCHANGED metrics

\* _build_verdict, _record, and the answer: one step of the event loop, of
\* which the part after _record may still raise.
Sign(r) ==
  /\ request[r].at = "signing"
  /\ \/ Unsignable(r) /\ Fail(r) /\ UNCHANGED interceptors
     \/ \E token \in Tokens(r), code \in Rendered(r) :
          /\ IF token = None THEN UNCHANGED interceptors
             ELSE interceptors' = [interceptors EXCEPT ![request[r].by].key = token]
          /\ Record(r)
          /\ request' = [request EXCEPT ![r] = Verdict(r, token, code)]
  /\ UNCHANGED <<environment, interceptor, configuring>>

-----------------------------------------------------------------------------
(* Other threads. *)

\* jwks_endpoint: the key of the current interceptor, if it has one.
Jwks ==
  /\ interceptor' = Current
  /\ \/ LoadRaises /\ interceptors' = Made
     \/ /\ ~LoadRaises
        /\ \E key \in KeyPair(Made[Returned]) :
             interceptors' = [Made EXCEPT ![Returned].key = key]
  /\ UNCHANGED <<environment, configuring, request, metrics>>

\* configure_interceptor, up to its lock; a list that raises ends it there.
Configure ==
  /\ ~Raises(trusted_env)
  /\ Len(interceptors) + (IF interceptor = 0 THEN 1 ELSE 0) < MaxInterceptors
  /\ \E config \in Configs :
       interceptors' = Append(interceptors, Interceptor(config, 0))
  /\ configuring' = configuring \cup {Len(interceptors) + 1}
  /\ UNCHANGED <<environment, interceptor, request, metrics>>

\* The swap: requests in flight keep the interceptor they have.
Swap(i) ==
  /\ i \in configuring
  /\ interceptor' = i
  /\ configuring' = configuring \ {i}
  /\ interceptors' = [interceptors EXCEPT ![i].turn = Turn + 1]
  /\ UNCHANGED <<environment, request, metrics>>

RotateKeys ==
  /\ api_keys' \in KeyMaps
  /\ request' = [r \in Requests |->
       [request[r] EXCEPT !.owners =
          IF request[r].at \in {"receiving", "authenticating"}
          THEN @ \cup Owner(api_keys', request[r].key) ELSE @]]
  /\ UNCHANGED <<trusted_env, service, metrics>>

-----------------------------------------------------------------------------
Init ==
  /\ api_keys \in KeyMaps
  /\ trusted_env \in TrustLists
  /\ interceptors = << >> /\ interceptor = 0 /\ configuring = {}
  /\ request = [r \in Requests |-> NewRequest]
  /\ metrics = [total |-> 0, status |-> [s \in Statuses |-> 0],
                sender |-> [a \in Agents |-> 0]]

Next == \/ \E r \in Requests :
             \/ Arrive(r) \/ ReceiveBody(r) \/ Authenticate(r) \/ Handle(r)
             \/ Intercept(r) \/ EndRun(r) \/ Resume(r) \/ TimeOut(r) \/ Sign(r)
        \/ Jwks \/ Configure \/ RotateKeys
        \/ \E i \in configuring : Swap(i)

Spec == Init /\ [][Next]_vars

-----------------------------------------------------------------------------
(* Properties. *)

TypeOK ==
  /\ interceptor \in 0..Len(interceptors)
  /\ configuring \subseteq DOMAIN interceptors
  /\ \A i \in DOMAIN interceptors :
       LET self == interceptors[i]
       IN  /\ self.trusted \subseteq Agents
           /\ self.key \in SigningKeys \cup {None}
           /\ self.runs \subseteq Requests /\ Cardinality(self.runs) <= Slots
  /\ \A r \in Requests :
       LET q == request[r]
       IN  /\ q.at \in Steps /\ q.code \in Codes \cup {0}
           /\ q.sender \in Agents \cup {None}
           /\ q.by \in 0..Len(interceptors)
           /\ q.status \in Statuses \cup {None}
           /\ (q.at = "done") = (q.code # 0)

\* "The authenticated API-key identity overrides the body-declared sender"
\* (intercept_message), through rotations of the keys: a message is judged,
\* counted and signed as sent by an agent that owned the request's key while
\* it was coming in.
SenderOwnedKey ==
  \A r \in Requests :
    request[r].at \in {"handling", "intercepting", "running", "signing"} =>
      request[r].sender \in request[r].owners

\* The body limit comes from the interceptor of the arrival and leaves room
\* for an envelope, the payload limit from the one that handles the message:
\* what reaches an engine is within the limit of its own interceptor and was
\* sent by an agent it trusts, however they were replaced meanwhile.
AdmittedByHandler ==
  \A i \in DOMAIN interceptors :
    \A r \in interceptors[i].runs :
      request[r].at = "running" =>
        /\ request[r].by = i
        /\ request[r].size <= interceptors[i].limit
        /\ request[r].sender \in interceptors[i].trusted

\* "Refusing to return an unsigned verdict" (_build_verdict): exactly the
\* verdicts that verified nothing go out without a signature.
UnsignedIffUnverifiable ==
  \A r \in Requests :
    request[r].code = 200 => (request[r].token = None <=> request[r].status = "unverifiable")

\* "A persistent signing key for audit continuity": through rotations of the
\* environment, and whether a verdict or a query of the key set came first,
\* the tokens of an interceptor are all signed with the one key it publishes.
OneKeyPerInterceptor ==
  \A r \in Requests :
    request[r].token # None => request[r].token = interceptors[request[r].by].key

\* "Atomic swap" (configure_interceptor): a request is handled by an
\* interceptor that was current at or after its arrival - never by an older
\* one, nor by a default that comes back.
FreshInterceptor ==
  \A r \in Requests :
    request[r].at \in {"intercepting", "running", "signing"} =>
      interceptors[request[r].by].turn >= request[r].since

\* /metrics counts verdicts (record_intercept): every verdict that was returned,
\* once, under the status and the sender that its caller was told, and none of
\* those that could not be signed.  Of the verdicts it counts, only those by
\* which an engine blocked a message may have been lost to an error 500.
HasVerdict(q) == q.at = "done" /\ q.status # None

MetricsAreVerdicts ==
  LET Built == {r \in Requests : HasVerdict(request[r])}
  IN  /\ metrics.total = Cardinality(Built)
      /\ \A s \in Statuses :
           metrics.status[s] = Cardinality({r \in Built : request[r].status = s})
      /\ \A a \in Agents :
           metrics.sender[a] = Cardinality({r \in Built : request[r].sender = a})
      /\ {r \in Requests : request[r].code = 200} \subseteq Built
      /\ \A r \in Built :
           request[r].code # 200 => request[r].code = 500 /\ request[r].status = "blocked"

=============================================================================
