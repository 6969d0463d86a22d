---------------------------- MODULE Attestation ----------------------------
(***************************************************************************)
(* A2ACryptoService: verdicts are signed as short-lived tokens, and a      *)
(* token is accepted at most once.  Two records of token ids make that so, *)
(* both JtiRegistry objects: the issuance record of each service           *)
(* (issued), and the consumption registry (seen), which several services   *)
(* may share.  A call of sign_verdict or verify_attestation reads the      *)
(* clock twice and is suspended anywhere in between, so it is several      *)
(* actions; a lock is held only by the registries, and only after the      *)
(* second reading.                                                         *)
(*                                                                         *)
(* Signatures are perfect: a token verifies under the key that made it.    *)
(***************************************************************************)
EXTENDS Integers, Sequences, Functions

CONSTANTS
  Services,      \* the A2ACryptoService objects
  Config,        \* what each was constructed with: issuer, key, kid,
                 \* deployment, registry, and the keys of its trusted peers
  Retention,     \* ttl_seconds of each consumption registry
  NoKey,         \* the key of a service that has none and only verifies
  NoKid,         \* a token or a registered key without kid
  NoJti,         \* the empty jti
  NoSession,     \* session_id=None
  Foreign,       \* tokens of issuers outside Services
  Traces,        \* the trace ids callers sign under
  Subjects,      \* sender, receiver and payload hash, as one value
  Sessions,      \* the session ids in use
  Calls,         \* calls that may be in progress at once
  Validity,      \* validity_seconds
  MaxClock,      \* bound: ticks of time.time()
  Stall          \* bound: ticks from a call's first clock reading to its end

Registries == DOMAIN Retention

\* Services that share a registry are workers of one issuer; the constructor
\* refuses a registry that forgets earlier than tokens expire; the trusted
\* issuers are a dictionary, so each peer has one deployment for all its keys.
ASSUME AttestationAssumption ==
  /\ \A s \in Services : /\ Config[s].registry \in Registries
                         /\ Retention[Config[s].registry] >= Validity
  /\ \A s, t \in Services : Config[s].registry = Config[t].registry
                              => Config[s].issuer = Config[t].issuer
  /\ \A s \in Services :
       /\ Config[s].peers \in Seq(Range(Config[s].peers))
       /\ \A p, q \in Range(Config[s].peers) :
            p.iss = q.iss => p.deployment = q.deployment
  /\ Retention \in [Registries -> Nat]
  /\ Validity \in Nat
  /\ MaxClock \in Nat
  /\ Stall \in Nat
  /\ \A t \in Foreign : t.exp \in Nat

VARIABLES
  clock,       \* time.time(), in ticks
  issued,      \* per service: a dictionary, jti to the end of its retention
  seen,        \* per registry: a dictionary, registry key to the same
  minted,      \* history: the tokens each service signed
  accepted,    \* history: the tokens each service accepted
  call,        \* the calls in progress
  reply        \* the answer the last step gave, if it gave one

vars == <<clock, issued, seen, minted, accepted, call, reply>>

-----------------------------------------------------------------------------
\* A token: its claims and its header's kid.  subject stands for sender,
\* receiver and payload hash; block says whether the qwed_a2a claims have
\* their structure.
Token == Foreign \cup
  [iss : {Config[s].issuer : s \in Services}, key : {Config[s].key : s \in Services},
   kid : {Config[s].kid : s \in Services},
   deployment : {Config[s].deployment : s \in Services}, jti : Traces, exp : Nat,
   subject : Subjects, session : Sessions \cup {NoSession}, block : {TRUE}]

InProgress == [at : {"stamped", "reserved", "decoded"},
               svc : Services, tok : Token, read : Nat]
Idle == [at |-> "idle"]

Faults == {"no-keys", "expired", "kid-mismatch", "invalid", "structure",
           "deployment", "context", "session", "missing-jti"}
Answers == Faults \cup {"duplicate", "signed", "failed", "replay", "valid"}
NoReply == [result |-> "none"]

Dictionary(d) == d \in [DOMAIN d -> Nat]

Typed ==
  /\ clock \in Nat
  /\ DOMAIN issued = Services /\ \A s \in Services : Dictionary(issued[s])
  /\ DOMAIN seen = Registries /\ \A g \in Registries : Dictionary(seen[g])
  /\ minted \subseteq [svc : Services, tok : Token]
  /\ accepted \subseteq [svc : Services, tok : Token]
  /\ call \in [Calls -> InProgress \cup {Idle}]
  /\ reply \in [result : Answers, svc : Services, tok : Token] \cup {NoReply}

\* Nothing is dated later than the code may date it: a call's first reading, and
\* the end of a registry's entry, which is kept for its ttl or for the life of
\* its token.
Dated ==
  /\ \A c \in Calls : call[c] # Idle => call[c].read <= clock
  /\ \A c \in Calls : call[c].at \in {"stamped", "reserved"} =>
       call[c].tok.exp = call[c].read + Validity
  /\ \A s \in Services : \A k \in DOMAIN issued[s] : issued[s][k] <= clock + Validity
  /\ \A g \in Registries : \A k \in DOMAIN seen[g] :
       \/ seen[g][k] <= clock + Retention[g]
       \/ \E m \in accepted : seen[g][k] = m.tok.exp

TypeOK == Typed /\ Dated

Init ==
  /\ clock = 0
  /\ issued = [s \in Services |-> << >>]
  /\ seen = [g \in Registries |-> << >>]
  /\ minted = {}
  /\ accepted = {}
  /\ call = [c \in Calls |-> Idle]
  /\ reply = NoReply

Enter(c, at, s, t) ==
  call' = [call EXCEPT ![c] = [at |-> at, svc |-> s, tok |-> t, read |-> clock]]
Advance(c, at) == call' = [call EXCEPT ![c].at = at]
Leave(c) == call' = [call EXCEPT ![c] = Idle]
Answer(result, s, t) == reply' = [result |-> result, svc |-> s, tok |-> t]

-----------------------------------------------------------------------------
(* JtiRegistry: what its locked sections do, given the clock reading now.  *)

\* Mutation: entries are evicted one tick early.
LiveEarly(dict, now) == Restrict(dict, {k \in DOMAIN dict : dict[k] > now + 1})

\* _evict, which every check_and_register performs first.
Live(dict, now) == Restrict(dict, {k \in DOMAIN dict : dict[k] > now})

IsRegistered(dict, k, now) == k \in DOMAIN Live(dict, now)

\* Mutation: an entry is kept for its ttl from the end of its token.
RegisteredTooLong(dict, k, ttl, until, now) ==
  LET live == Live(dict, now)
  IN  IF k \in DOMAIN live THEN live
      ELSE [x \in DOMAIN live \cup {k} |-> IF x = k THEN until + ttl ELSE dict[x]]

\* The dictionary that check_and_register leaves behind.
Registered(dict, k, ttl, until, now) ==
  LET live == Live(dict, now)
      expiry == IF until > now + ttl THEN until ELSE now + ttl
  IN  IF k \in DOMAIN live THEN live
      ELSE [x \in DOMAIN live \cup {k} |-> IF x = k THEN expiry ELSE dict[x]]

Released(dict, k) == Restrict(dict, DOMAIN dict \ {k})

\* check_and_register reads the clock before it takes the lock, at any time
\* since the call's first reading: other calls may have registered, and
\* evicted by a later clock, when it gets to the lock.
Readings(c) == call[c].read..clock

-----------------------------------------------------------------------------
(* sign_verdict. *)

\* An unknown verdict and a missing key are refused before this step.  The
\* clock is read once for iat and exp.
SignStamp(c, s, trace, subject, session) ==
  /\ call[c] = Idle
  /\ Config[s].key # NoKey
  /\ Enter(c, "stamped", s,
       [iss |-> Config[s].issuer, key |-> Config[s].key, kid |-> Config[s].kid,
        deployment |-> Config[s].deployment, jti |-> trace,
        exp |-> clock + Validity, subject |-> subject, session |-> session,
        block |-> TRUE])
  /\ reply' = NoReply
  /\ UNCHANGED <<clock, issued, seen, minted, accepted>>

\* Mutation: signing consumes a slot of the replay registry.
SignReserveConsumes(c) ==
  LET s == call[c].svc  t == call[c].tok  g == Config[s].registry
  IN  /\ call[c].at = "stamped"
      /\ ~IsRegistered(issued[s], t.jti, clock)
      /\ issued' = [issued EXCEPT ![s] = Registered(@, t.jti, Validity, t.exp, clock)]
      /\ seen' = [seen EXCEPT ![g] =
                    Registered(@, <<t.jti>>, Retention[g], t.exp, clock)]
      /\ Advance(c, "reserved")
      /\ reply' = NoReply
      /\ UNCHANGED <<clock, minted, accepted>>

\* The issuance record reads the clock again.
SignReserve(c) ==
  LET s == call[c].svc  t == call[c].tok
  IN  /\ call[c].at = "stamped"
      /\ \E now \in Readings(c) :
           /\ issued' = [issued EXCEPT ![s] = Registered(@, t.jti, Validity, t.exp, now)]
           /\ \/ /\ IsRegistered(issued[s], t.jti, now)
                 /\ Leave(c)
                 /\ Answer("duplicate", s, t)
              \/ /\ ~IsRegistered(issued[s], t.jti, now)
                 /\ Advance(c, "reserved")
                 /\ reply' = NoReply
      /\ UNCHANGED <<clock, seen, minted, accepted>>

SignMint(c) ==
  LET s == call[c].svc  t == call[c].tok
  IN  /\ call[c].at = "reserved"
      /\ minted' = minted \cup {[svc |-> s, tok |-> t]}
      /\ Leave(c)
      /\ Answer("signed", s, t)
      /\ UNCHANGED <<clock, issued, seen, accepted>>

\* Mutation: the reservation of a failed call stays.
SignFailBurns(c) ==
  /\ call[c].at = "reserved"
  /\ Leave(c)
  /\ Answer("failed", call[c].svc, call[c].tok)
  /\ UNCHANGED <<clock, issued, seen, minted, accepted>>

\* jwt.encode raises: the reservation is rolled back.
SignFail(c) ==
  LET s == call[c].svc  t == call[c].tok
  IN  /\ call[c].at = "reserved"
      /\ issued' = [issued EXCEPT ![s] = Released(@, t.jti)]
      /\ Leave(c)
      /\ Answer("failed", s, t)
      /\ UNCHANGED <<clock, seen, minted, accepted>>

-----------------------------------------------------------------------------
(* verify_attestation. *)

\* The keys a service knows, its own before those of its peers.
Entries == [s \in Services |->
  (IF Config[s].key = NoKey THEN << >>
   ELSE <<[iss |-> Config[s].issuer, key |-> Config[s].key, kid |-> Config[s].kid,
           deployment |-> Config[s].deployment]>>) \o Config[s].peers]

\* Mutation: a key verifies under every identity it is registered for.
CandidatesUnfiltered == [s \in Services |-> DOMAIN Entries[s]]

\* One key never verifies as two issuers: an entry is skipped unless the first
\* one with its key has its issuer.
Candidates == [s \in Services |->
  {i \in DOMAIN Entries[s] :
     \E j \in 1..i : /\ Entries[s][j].key = Entries[s][i].key
                     /\ Entries[s][j].iss = Entries[s][i].iss
                     /\ \A h \in 1..(j - 1) : Entries[s][h].key # Entries[s][i].key}]

\* One candidate key.  A kid is bound after the signature: a token that
\* carries none verifies under any key of its issuer.
Attempt(e, t) ==
  IF e.key # t.key THEN "no-match"
  ELSE IF t.exp <= clock THEN "expired"
  ELSE IF t.iss # e.iss THEN "no-match"
  ELSE IF t.kid \notin {NoKid, e.kid} THEN "kid-mismatch"
  ELSE "verified"

\* The claims of a verified token, in the order in which they are checked.
ClaimsFault(t, deployment, context) ==
  IF ~t.block THEN "structure"
  ELSE IF t.deployment # deployment THEN "deployment"
  ELSE IF t.subject # context.subject THEN "context"
  ELSE IF context.session \notin {NoSession, t.session} THEN "session"
  ELSE IF t.jti = NoJti THEN "missing-jti"
  ELSE "none"

\* The first candidate that verifies decides; until then keep trying.
Fault(s, t, context) ==
  LET status(i) == Attempt(Entries[s][i], t)
      verifying == {i \in Candidates[s] : status(i) = "verified"}
      first == CHOOSE i \in verifying : \A j \in verifying : i <= j
      statuses == {status(i) : i \in Candidates[s]}
  IN  IF Candidates[s] = {} THEN "no-keys"
      ELSE IF verifying # {} THEN ClaimsFault(t, Entries[s][first].deployment, context)
      ELSE IF "expired" \in statuses THEN "expired"
      ELSE IF "kid-mismatch" \in statuses THEN "kid-mismatch"
      ELSE "invalid"

Contexts == [subject : Subjects, session : Sessions \cup {NoSession}]

\* Everything before the replay check touches no registry.
VerifyDecode(c, s, t, context) ==
  /\ call[c] = Idle
  /\ \/ /\ Fault(s, t, context) # "none"
        /\ Answer(Fault(s, t, context), s, t)
        /\ UNCHANGED call
     \/ /\ Fault(s, t, context) = "none"
        /\ Enter(c, "decoded", s, t)
        /\ reply' = NoReply
  /\ UNCHANGED <<clock, issued, seen, minted, accepted>>

\* Mutation: workers do not recognise each other's entries.
RegistryKeyPerWorker(s, t) == <<s, t.jti>>

\* Mutation: ids of different issuers are not kept apart.
RegistryKeyBare(s, t) == <<t.jti>>

\* Ids of peers are namespaced by their issuer.
RegistryKey(s, t) == IF t.iss = Config[s].issuer THEN <<t.jti>> ELSE <<t.iss, t.jti>>

VerifyRegister(c) ==
  LET s == call[c].svc  t == call[c].tok
      g == Config[s].registry  k == RegistryKey(s, t)
  IN  /\ call[c].at = "decoded"
      /\ Leave(c)
      /\ \E now \in Readings(c) :
           /\ seen' = [seen EXCEPT ![g] = Registered(@, k, Retention[g], t.exp, now)]
           /\ \/ /\ IsRegistered(seen[g], k, now)
                 /\ Answer("replay", s, t)
                 /\ UNCHANGED accepted
              \/ /\ ~IsRegistered(seen[g], k, now)
                 /\ Answer("valid", s, t)
                 /\ accepted' = accepted \cup {[svc |-> s, tok |-> t]}
      /\ UNCHANGED <<clock, issued, minted>>

-----------------------------------------------------------------------------
Presentable == Foreign \cup {m.tok : m \in minted}

Sign(c) == \/ SignReserve(c) \/ SignMint(c) \/ SignFail(c)
           \/ \E s \in Services, trace \in Traces, subject \in Subjects,
                 session \in Sessions \cup {NoSession} :
                SignStamp(c, s, trace, subject, session)

Verify(c) == \/ VerifyRegister(c)
             \/ \E s \in Services, t \in Presentable, context \in Contexts :
                  VerifyDecode(c, s, t, context)

Tick ==
  /\ clock < MaxClock
  /\ \A c \in Calls : call[c] # Idle => clock < call[c].read + Stall
  /\ clock' = clock + 1
  /\ reply' = NoReply
  /\ UNCHANGED <<issued, seen, minted, accepted, call>>

Next == Tick \/ \E c \in Calls : Sign(c) \/ Verify(c)

Spec == Init /\ [][Next]_vars

-----------------------------------------------------------------------------
(* Properties. *)

\* The services that share a registry accept an unexpired token at most once
\* between them, however their calls interleave and are suspended and
\* whatever the registry evicts meanwhile ("replay check", verify_attestation).
AcceptedOnce ==
  [][\A m \in accepted :
       /\ reply'.result = "valid"
       /\ reply'.tok = m.tok
       /\ Config[reply'.svc].registry = Config[m.svc].registry
       => m.tok.exp <= clock]_vars

\* "Step 7: replay check - rejects previously seen jti values": no token is
\* accepted twice at all, be it expired when it is registered or not.
NeverTwice ==
  [][\A m \in accepted :
       ~ /\ reply'.result = "valid"
         /\ reply'.tok = m.tok
         /\ Config[reply'.svc].registry = Config[m.svc].registry]_vars

\* A token is called a replay only when one with its issuer and jti was
\* accepted before through the same registry: neither signing it nor showing
\* it in a wrong context uses up its one acceptance (_check_verified_claims,
\* "last so out-of-context tokens never pollute the registry").
ReplayMeansAccepted ==
  [][reply'.result = "replay" =>
       \E m \in accepted : /\ m.tok.iss = reply'.tok.iss
                           /\ m.tok.jti = reply'.tok.jti
                           /\ Config[m.svc].registry = Config[reply'.svc].registry]_vars

\* "Silently minting contradictory tokens under one jti poisons every
\* consumer's registry" (sign_verdict): two tokens of one service with one jti
\* are never alive together.
UniqueLiveJti ==
  [][\A m \in minted :
       /\ reply'.result = "signed"
       /\ reply'.svc = m.svc
       /\ reply'.tok.jti = m.tok.jti
       /\ reply'.tok.exp > clock
       => m.tok.exp <= clock]_vars

\* A trace id is refused as a duplicate only when a token carries it or
\* another call is about to mint one: a failed call burns nothing ("roll back
\* so a retry with the same trace_id remains possible", sign_verdict).
NoPhantomDuplicate ==
  [][reply'.result = "duplicate" =>
       \/ \E m \in minted : m.svc = reply'.svc /\ m.tok.jti = reply'.tok.jti
       \/ \E c \in Calls : /\ call[c].at = "reserved" /\ call[c].svc = reply'.svc
                           /\ call[c].tok.jti = reply'.tok.jti]_vars

\* One key never speaks for two issuers or two deployments (_candidate_keys),
\* though it be registered under several identities and kids.
KeyHasOneIdentity ==
  \A m, n \in accepted : m.svc = n.svc /\ m.tok.key = n.tok.key
                           => /\ m.tok.iss = n.tok.iss
                              /\ m.tok.deployment = n.tok.deployment

=============================================================================
