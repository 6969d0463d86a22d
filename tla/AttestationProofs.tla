------------------------- MODULE AttestationProofs -------------------------
(***************************************************************************)
(* Attestation, for every number of services, calls, tokens and ticks: a   *)
(* token is accepted once while it lives, and what is refused as a replay  *)
(* was accepted before.                                                    *)
(***************************************************************************)
EXTENDS Attestation, NaturalFacts, SequenceTheorems

\* k is registered exactly when its entry has not expired.
LEMMA IsRegisteredMeaning ==
  ASSUME NEW dict, NEW k, NEW now
  PROVE  IsRegistered(dict, k, now) <=> k \in DOMAIN dict /\ dict[k] > now
  BY DEF IsRegistered, Live, Restrict

\* What check_and_register leaves: every entry that has not expired ...
LEMMA RegisteredKeeps ==
  ASSUME NEW dict, NEW k, NEW ttl, NEW until, NEW now, NEW x,
         IsRegistered(dict, x, now)
  PROVE  /\ x \in DOMAIN Registered(dict, k, ttl, until, now)
         /\ Registered(dict, k, ttl, until, now)[x] = dict[x]
  <1>1. x \in DOMAIN Live(dict, now) /\ Live(dict, now)[x] = dict[x]
    BY DEF Live, Restrict, IsRegistered
  <1>2. CASE IsRegistered(dict, k, now)
    BY <1>1, <1>2 DEF Registered, IsRegistered
  <1>3. CASE ~IsRegistered(dict, k, now)
    BY <1>1, <1>3 DEF Registered, IsRegistered
  <1> QED
    BY <1>2, <1>3

\* ... and a new one, which lasts at least as long as its token, ...
LEMMA RegisteredAdds ==
  ASSUME NEW dict, NEW k, NEW ttl \in Nat, NEW until \in Nat, NEW now \in Nat,
         ~IsRegistered(dict, k, now)
  PROVE  /\ k \in DOMAIN Registered(dict, k, ttl, until, now)
         /\ Registered(dict, k, ttl, until, now)[k] >= until
  BY DEF Registered, IsRegistered

\* ... and nothing else.
LEMMA RegisteredOnly ==
  ASSUME NEW dict, NEW k, NEW ttl, NEW until, NEW now, NEW x,
         x \in DOMAIN Registered(dict, k, ttl, until, now)
  PROVE  x = k \/ x \in DOMAIN dict
  <1>1. DOMAIN Live(dict, now) \subseteq DOMAIN dict
    BY DEF Live, Restrict
  <1> QED
    BY <1>1 DEF Registered

LEMMA RegisteredType ==
  ASSUME NEW dict, Dictionary(dict), NEW k, NEW ttl \in Nat, NEW until \in Nat,
         NEW now \in Nat
  PROVE  Dictionary(Registered(dict, k, ttl, until, now))
  <1> DEFINE expiry == IF until > now + ttl THEN until ELSE now + ttl
             live == Live(dict, now)
  <1>1. expiry \in Nat
    OBVIOUS
  <1>2. live \in [DOMAIN live -> Nat] /\ \A x \in DOMAIN live : dict[x] \in Nat
    BY DEF Dictionary, Live, Restrict
  <1>3. Registered(dict, k, ttl, until, now) \in
          {live, [x \in DOMAIN live \cup {k} |-> IF x = k THEN expiry ELSE dict[x]]}
    BY DEF Registered
  <1> HIDE DEF expiry, live
  <1>4. \A x \in DOMAIN live \cup {k} : (IF x = k THEN expiry ELSE dict[x]) \in Nat
    BY <1>1, <1>2
  <1> QED
    BY <1>2, <1>3, <1>4 DEF Dictionary

\* The clock readings of a call in progress lie in the past.
LEMMA ReadingsPast ==
  ASSUME Typed, NEW c \in Calls, call[c] # Idle, NEW now \in Readings(c)
  PROVE  now \in Nat /\ now <= clock
  <1>1. call[c].read \in Nat /\ clock \in Nat
    BY DEF Typed, InProgress
  <1> QED
    BY <1>1 DEF Readings

\* Every token expires at a natural number.
LEMMA TokenExp == ASSUME NEW t \in Token PROVE t.exp \in Nat
  BY AttestationAssumption DEF Token

-----------------------------------------------------------------------------
(* Type correctness. *)

LEMMA TypeInv == Typed /\ [Next]_vars => Typed'
  <1> SUFFICES ASSUME Typed, [Next]_vars PROVE Typed'
    OBVIOUS
  <1> USE DEF Typed
  <1>1. CASE Tick
    BY <1>1 DEF Tick, NoReply
  <1>2. ASSUME NEW c \in Calls, Sign(c) \/ Verify(c) PROVE Typed'
    <2>1. ASSUME NEW s \in Services, NEW trace \in Traces, NEW subject \in Subjects,
                 NEW session \in Sessions \cup {NoSession},
                 SignStamp(c, s, trace, subject, session)
          PROVE Typed'
      <3> DEFINE t == [iss |-> Config[s].issuer, key |-> Config[s].key,
                       kid |-> Config[s].kid, deployment |-> Config[s].deployment,
                       jti |-> trace, exp |-> clock + Validity,
                       subject |-> subject, session |-> session, block |-> TRUE]
      <3>1. t \in Token
        BY AttestationAssumption DEF Token
      <3> HIDE DEF t
      <3>2. call' = [call EXCEPT ![c] = [at |-> "stamped", svc |-> s, tok |-> t,
                                         read |-> clock]]
        BY <2>1 DEF SignStamp, Enter, t
      <3>3. [at |-> "stamped", svc |-> s, tok |-> t, read |-> clock] \in InProgress
        BY <3>1 DEF InProgress
      <3> QED
        BY <2>1, <3>2, <3>3 DEF SignStamp, NoReply
    <2>2. ASSUME NEW s \in Services, NEW t \in Presentable, NEW context \in Contexts,
                 VerifyDecode(c, s, t, context)
          PROVE Typed'
      <3>1. t \in Token
        <4>1. Foreign \subseteq Token /\ \A m \in minted : m.tok \in Token
          BY DEF Token
        <4> QED
          BY <4>1 DEF Presentable
      <3>2. [at |-> "decoded", svc |-> s, tok |-> t, read |-> clock] \in InProgress
        BY <3>1 DEF InProgress
      <3>3. CASE Fault(s, t, context) = "none"
        BY <2>2, <3>2, <3>3 DEF VerifyDecode, Enter, NoReply
      <3>4. CASE Fault(s, t, context) # "none"
        <4>1. Fault(s, t, context) \in Faults
          BY <3>4 DEF Fault, ClaimsFault, Faults
        <4> QED
          BY <2>2, <3>1, <3>4, <4>1 DEF VerifyDecode, Answer, Answers
      <3> QED
        BY <3>3, <3>4
    <2>3. ASSUME SignReserve(c) \/ SignMint(c) \/ SignFail(c) \/ VerifyRegister(c)
          PROVE Typed'
      <3> DEFINE s == call[c].svc
                 t == call[c].tok
                 g == Config[s].registry
                 k == RegistryKey(s, t)
      <3>0. call[c] # Idle /\ call[c] \in InProgress /\ s \in Services /\ t \in Token /\ t.exp \in Nat
        <4>1. call[c] # Idle
          BY <2>3 DEF SignReserve, SignMint, SignFail, VerifyRegister, Idle
        <4> QED
          BY <4>1, TokenExp DEF InProgress
      <3> HIDE DEF s, t
      <3>1. CASE SignReserve(c)
        <4>0. PICK now \in Readings(c) :
                issued' = [issued EXCEPT ![s] =
                             Registered(issued[s], t.jti, Validity, t.exp, now)]
          BY <3>1 DEF SignReserve, s, t
        <4>1. Dictionary(Registered(issued[s], t.jti, Validity, t.exp, now))
          BY <3>0, RegisteredType, ReadingsPast, AttestationAssumption
        <4>2. [call[c] EXCEPT !.at = "reserved"] \in InProgress
          BY <3>0 DEF InProgress
        <4>4. DOMAIN issued' = Services /\ \A x \in Services : Dictionary(issued'[x])
          BY <4>0, <4>1, <3>0 DEF Dictionary
        <4>5. /\ call' = [call EXCEPT ![c] = Idle] \/
                 call' = [call EXCEPT ![c] = [call[c] EXCEPT !.at = "reserved"]]
              /\ reply' = NoReply \/ reply' = [result |-> "duplicate", svc |-> s, tok |-> t]
          BY <3>1 DEF SignReserve, Advance, Leave, Answer, s, t
        <4> QED
          BY <3>0, <3>1, <4>2, <4>4, <4>5 DEF SignReserve, Answers
      <3>2. CASE SignMint(c)
        BY <3>0, <3>2 DEF SignMint, Leave, Answer, Answers, s, t
      <3>3. CASE SignFail(c)
        <4>1. Dictionary(Released(issued[s], t.jti))
          BY <3>0 DEF Dictionary, Released, Restrict
        <4>2. issued' = [issued EXCEPT ![s] = Released(issued[s], t.jti)]
          BY <3>3 DEF SignFail, s, t
        <4>3. DOMAIN issued' = Services /\ \A x \in Services : Dictionary(issued'[x])
          BY <4>1, <4>2, <3>0 DEF Dictionary
        <4> QED
          BY <3>0, <3>3, <4>3 DEF SignFail, Leave, Answer, Answers, s, t
      <3>4. CASE VerifyRegister(c)
        <4>0. g \in Registries /\ Retention[g] \in Nat
          BY <3>0, AttestationAssumption
        <4> HIDE DEF g, k
        <4>2. PICK now \in Readings(c) :
                seen' = [seen EXCEPT ![g] =
                           Registered(seen[g], k, Retention[g], t.exp, now)]
          BY <3>4 DEF VerifyRegister, s, t, g, k
        <4>1. Dictionary(Registered(seen[g], k, Retention[g], t.exp, now))
          BY <3>0, <4>0, RegisteredType, ReadingsPast
        <4>3. DOMAIN seen' = Registries /\ \A x \in Registries : Dictionary(seen'[x])
          BY <4>0, <4>1, <4>2 DEF Dictionary
        <4>4. /\ call' = [call EXCEPT ![c] = Idle]
              /\ accepted' = accepted \/ accepted' = accepted \cup {[svc |-> s, tok |-> t]}
              /\ reply' \in {[result |-> "replay", svc |-> s, tok |-> t],
                             [result |-> "valid", svc |-> s, tok |-> t]}
          BY <3>4 DEF VerifyRegister, Leave, Answer, s, t
        <4> QED
          BY <3>0, <3>4, <4>3, <4>4 DEF VerifyRegister, Answers
      <3> QED
        BY <2>3, <3>1, <3>2, <3>3, <3>4
    <2> QED
      BY <1>2, <2>1, <2>2, <2>3 DEF Sign, Verify
  <1>3. CASE UNCHANGED vars
    BY <1>3 DEF vars
  <1> QED
    BY <1>1, <1>2, <1>3 DEF Next

\* An entry of a registry was there before, or is the one that is made.
LEMMA RegisteredEnd ==
  ASSUME NEW dict, NEW k, NEW ttl, NEW until, NEW now,
         NEW x \in DOMAIN Registered(dict, k, ttl, until, now)
  PROVE  \/ /\ x \in DOMAIN dict
            /\ Registered(dict, k, ttl, until, now)[x] = dict[x]
         \/ /\ x = k /\ ~IsRegistered(dict, k, now)
            /\ \/ Registered(dict, k, ttl, until, now)[x] = until
               \/ Registered(dict, k, ttl, until, now)[x] = now + ttl
  <1> DEFINE live == Live(dict, now)
  <1>1. DOMAIN live \subseteq DOMAIN dict /\ \A y \in DOMAIN live : live[y] = dict[y]
    BY DEF Live, Restrict
  <1>2. CASE k \in DOMAIN live
    BY <1>1, <1>2 DEF Registered
  <1>3. CASE k \notin DOMAIN live
    <2> DEFINE expiry == IF until > now + ttl THEN until ELSE now + ttl
    <2>1. Registered(dict, k, ttl, until, now) =
            [y \in DOMAIN live \cup {k} |-> IF y = k THEN expiry ELSE dict[y]]
      BY <1>3 DEF Registered
    <2>2. expiry = until \/ expiry = now + ttl
      OBVIOUS
    <2> HIDE DEF expiry
    <2> QED
      BY <1>1, <1>3, <2>1, <2>2 DEF IsRegistered
  <1> QED
    BY <1>2, <1>3

\* A step that enters no registry leaves nothing dated later.
LEMMA DatedKept ==
  ASSUME Typed, Typed', Dated, clock' = clock,
         \A c \in Calls : \/ call'[c] = call[c] \/ call'[c] = Idle
                          \/ call'[c] = [call[c] EXCEPT !.at = "reserved"]
                               /\ call[c].at = "stamped"
                          \/ call'[c].at = "decoded" /\ call'[c].read = clock
                          \/ call'[c].at = "stamped" /\ call'[c].read = clock
                               /\ call'[c].tok.exp = clock + Validity,
         \A s \in Services : \A k \in DOMAIN issued'[s] : issued'[s][k] <= clock + Validity,
         accepted \subseteq accepted',
         \A g \in Registries : \A k \in DOMAIN seen'[g] :
           \/ seen'[g][k] <= clock + Retention[g]
           \/ \E m \in accepted' : seen'[g][k] = m.tok.exp
  PROVE  Dated'
  <1>1. ASSUME NEW c \in Calls
        PROVE  /\ call'[c] # Idle => call'[c].read <= clock
               /\ call'[c].at \in {"stamped", "reserved"} =>
                    call'[c].tok.exp = call'[c].read + Validity
    <2>1. clock \in Nat /\ (call[c] = Idle \/ call[c] \in InProgress)
      BY DEF Typed
    <2>2. CASE call'[c] = call[c] \/ call'[c] = Idle
      BY <2>2 DEF Dated, Idle
    <2>3. CASE call'[c] = [call[c] EXCEPT !.at = "reserved"] /\ call[c].at = "stamped"
      <3>1. call[c] \in InProgress /\ call[c] # Idle
        BY <2>1, <2>3 DEF Idle
      <3>2. call'[c].read = call[c].read /\ call'[c].tok = call[c].tok
        BY <2>3, <3>1 DEF InProgress
      <3> QED
        BY <2>3, <3>1, <3>2 DEF Dated
    <2> QED
      BY <2>1, <2>2, <2>3
  <1> QED
    BY <1>1 DEF Dated

LEMMA DatedInv == Typed /\ Dated /\ [Next]_vars => Dated'
  <1> SUFFICES ASSUME Typed, Dated, [Next]_vars PROVE Dated'
    OBVIOUS
  <1>0. /\ Typed' /\ clock \in Nat /\ Validity \in Nat
        /\ \A g \in Registries : Retention[g] \in Nat
        /\ \A s \in Services : issued[s] \in [DOMAIN issued[s] -> Nat]
        /\ \A g \in Registries : seen[g] \in [DOMAIN seen[g] -> Nat]
    BY TypeInv, AttestationAssumption DEF Typed, Dictionary
  <1>1. CASE Tick
    <2>1. /\ clock' = clock + 1
          /\ UNCHANGED <<issued, seen, accepted, call>>
      BY <1>1 DEF Tick
    <2>2. \A c \in Calls : call[c] # Idle => call[c].read \in Nat
      BY DEF Typed, InProgress
    <2> QED
      BY <1>0, <2>1, <2>2 DEF Dated
  <1>2. ASSUME NEW c \in Calls,
               SignMint(c) \/ VerifyRegister(c) \/ SignReserve(c) \/ SignFail(c)
        PROVE  Dated'
    <2>1. call[c] # Idle /\ call[c] \in InProgress /\ call[c].tok \in Token
      <3>1. call[c] # Idle
        BY <1>2 DEF SignReserve, SignMint, SignFail, VerifyRegister, Idle, Typed
      <3> QED
        BY <3>1 DEF Typed, InProgress
    <2> DEFINE s == call[c].svc
               t == call[c].tok
               g == Config[s].registry
               k == RegistryKey(s, t)
    <2>2. s \in Services /\ t.exp \in Nat /\ call[c].read \in Nat /\ call[c].read <= clock
      BY <2>1, TokenExp DEF InProgress, Dated
    <2>3. CASE SignMint(c)
      <3>1. /\ UNCHANGED <<clock, issued, seen, accepted>>
            /\ call' = [call EXCEPT ![c] = Idle]
        BY <2>3 DEF SignMint, Leave
      <3> QED
        BY <1>0, <3>1, DatedKept DEF Dated, Typed
    <2>4. CASE SignFail(c)
      <3>1. /\ UNCHANGED <<clock, seen, accepted>>
            /\ call' = [call EXCEPT ![c] = Idle]
            /\ issued' = [issued EXCEPT ![s] = Released(issued[s], t.jti)]
        BY <2>4 DEF SignFail, Leave
      <3>2. \A x \in Services : \A y \in DOMAIN issued'[x] : issued'[x][y] <= clock + Validity
        BY <3>1, <2>2 DEF Released, Restrict, Dated, Typed
      <3> QED
        BY <1>0, <3>1, <3>2, DatedKept DEF Dated, Typed
    <2>5. CASE SignReserve(c)
      <3>1. PICK now \in Readings(c) :
              issued' = [issued EXCEPT ![s] =
                           Registered(issued[s], t.jti, Validity, t.exp, now)]
        BY <2>5 DEF SignReserve
      <3>2. /\ UNCHANGED <<clock, seen, accepted>> /\ call[c].at = "stamped"
            /\ \/ call' = [call EXCEPT ![c] = Idle]
               \/ call' = [call EXCEPT ![c] = [call[c] EXCEPT !.at = "reserved"]]
        BY <2>5 DEF SignReserve, Leave, Advance
      <3>3. /\ now \in Nat /\ now <= clock
            /\ t.exp <= clock + Validity
        BY <1>0, <2>1, <2>2, <3>2, ReadingsPast DEF Dated
      <3>4. \A x \in Services : \A y \in DOMAIN issued'[x] : issued'[x][y] <= clock + Validity
        <4> SUFFICES ASSUME NEW x \in Services, NEW y \in DOMAIN issued'[x]
                     PROVE  issued'[x][y] <= clock + Validity
          OBVIOUS
        <4>1. CASE x # s
          BY <3>1, <4>1 DEF Dated, Typed
        <4>2. CASE x = s
          <5>1. issued'[x] = Registered(issued[s], t.jti, Validity, t.exp, now)
            BY <2>2, <3>1, <4>2 DEF Typed
          <5>2. \/ y \in DOMAIN issued[s] /\ issued'[x][y] = issued[s][y]
                \/ issued'[x][y] = t.exp \/ issued'[x][y] = now + Validity
            BY <5>1, RegisteredEnd
          <5> QED
            BY <1>0, <2>2, <3>3, <5>2 DEF Dated
        <4> QED
          BY <4>1, <4>2
      <3> QED
        BY <1>0, <3>2, <3>4, DatedKept DEF Dated, Typed
    <2>6. CASE VerifyRegister(c)
      <3>1. PICK now \in Readings(c) :
              /\ seen' = [seen EXCEPT ![g] = Registered(seen[g], k, Retention[g], t.exp, now)]
              /\ \/ IsRegistered(seen[g], k, now) /\ accepted' = accepted
                 \/ accepted' = accepted \cup {[svc |-> s, tok |-> t]}
        BY <2>6 DEF VerifyRegister
      <3>2. UNCHANGED <<clock, issued>> /\ call' = [call EXCEPT ![c] = Idle]
        BY <2>6 DEF VerifyRegister, Leave
      <3>3. now \in Nat /\ now <= clock /\ g \in Registries
        BY <2>1, <2>2, ReadingsPast, AttestationAssumption
      <3>4. ASSUME NEW h \in Registries, NEW y \in DOMAIN seen'[h]
            PROVE  \/ seen'[h][y] <= clock + Retention[h]
                   \/ \E m \in accepted' : seen'[h][y] = m.tok.exp
        <4> HIDE DEF g, k
        <4>1. CASE y \in DOMAIN seen[h] /\ seen'[h][y] = seen[h][y]
          BY <3>1, <4>1 DEF Dated
        <4>2. CASE ~(y \in DOMAIN seen[h] /\ seen'[h][y] = seen[h][y])
          <5>1. h = g /\ seen'[h] = Registered(seen[g], k, Retention[g], t.exp, now)
            BY <3>1, <3>3, <4>2 DEF Typed
          <5>2. /\ ~IsRegistered(seen[g], k, now)
                /\ seen'[h][y] = t.exp \/ seen'[h][y] = now + Retention[g]
            BY <4>2, <5>1, RegisteredEnd
          <5>3. [svc |-> s, tok |-> t] \in accepted'
            BY <3>1, <5>2
          <5> QED
            BY <1>0, <3>3, <5>1, <5>2, <5>3
        <4> QED
          BY <4>1, <4>2
      <3> QED
        BY <1>0, <3>1, <3>2, <3>4, DatedKept DEF Dated, Typed
    <2> QED
      BY <1>2, <2>3, <2>4, <2>5, <2>6
  <1>3. ASSUME NEW c \in Calls, NEW s \in Services, NEW trace \in Traces,
               NEW subject \in Subjects, NEW session \in Sessions \cup {NoSession},
               SignStamp(c, s, trace, subject, session)
        PROVE  Dated'
    <2>1. PICK t : /\ t.exp = clock + Validity
                   /\ call' = [call EXCEPT ![c] = [at |-> "stamped", svc |-> s, tok |-> t,
                                                  read |-> clock]]
      BY <1>3 DEF SignStamp, Enter
    <2>2. UNCHANGED <<clock, issued, seen, accepted>>
      BY <1>3 DEF SignStamp
    <2> QED
      BY <1>0, <2>1, <2>2, DatedKept DEF Dated, Typed
  <1>4. ASSUME NEW c \in Calls, NEW s, NEW t, NEW context, VerifyDecode(c, s, t, context)
        PROVE  Dated'
    <2>1. \/ call' = call
          \/ call' = [call EXCEPT ![c] = [at |-> "decoded", svc |-> s, tok |-> t,
                                         read |-> clock]]
      BY <1>4 DEF VerifyDecode, Enter
    <2>2. UNCHANGED <<clock, issued, seen, accepted>>
      BY <1>4 DEF VerifyDecode
    <2> QED
      BY <1>0, <2>1, <2>2, DatedKept DEF Dated, Typed
  <1>5. CASE UNCHANGED vars
    BY <1>5 DEF vars, Dated
  <1> QED
    BY <1>1, <1>2, <1>3, <1>4, <1>5 DEF Next, Sign, Verify

\* What every reachable state holds, and that no reading and no entry of a
\* registry is dated later than the code may date it: an entry is kept for its
\* ttl or for the life of its token, however calls are suspended (JtiRegistry).
THEOREM AttestationTypeCorrect == Spec => []TypeOK
  <1>1. Init => Typed /\ Dated
    BY AttestationAssumption DEF Init, Typed, Dated, Dictionary, Idle, NoReply, Registries
  <1>2. Typed /\ Dated /\ [Next]_vars => (Typed /\ Dated)'
    BY TypeInv, DatedInv
  <1> QED
    BY <1>1, <1>2, PTL DEF Spec, TypeOK

-----------------------------------------------------------------------------
(* The consumption registry. *)

RegistryOf(s) == Config[s].registry
KeyOf(m) == RegistryKey(m.svc, m.tok)

\* An accepted token that has not expired is still in its registry, and
\* nothing is in a registry but what was accepted through it.
Remembered(m) ==
  \/ m.tok.exp <= clock
  \/ /\ KeyOf(m) \in DOMAIN seen[RegistryOf(m.svc)]
     /\ seen[RegistryOf(m.svc)][KeyOf(m)] >= m.tok.exp

Justified(g, k) == \E m \in accepted : RegistryOf(m.svc) = g /\ KeyOf(m) = k

RegistryInv == /\ Typed
               /\ \A m \in accepted : Remembered(m)
               /\ \A g \in Registries : \A k \in DOMAIN seen[g] : Justified(g, k)

\* Workers of one issuer use the same key for a token, and different keys for
\* tokens with another issuer or jti.
LEMMA KeysIdentify ==
  ASSUME NEW s1 \in Services, NEW s2 \in Services, NEW t1, NEW t2,
         RegistryOf(s1) = RegistryOf(s2)
  PROVE  /\ RegistryKey(s1, t1) = RegistryKey(s2, t1)
         /\ RegistryKey(s1, t1) = RegistryKey(s2, t2)
              => t1.iss = t2.iss /\ t1.jti = t2.jti
  <1>1. Config[s1].issuer = Config[s2].issuer
    BY AttestationAssumption DEF RegistryOf
  <1>2. \A x, y, z : <<x>> # <<y, z>>
    OBVIOUS
  <1> QED
    BY <1>1, <1>2 DEF RegistryKey

LEMMA RegistryStep ==
  ASSUME RegistryInv, NEW c \in Calls, VerifyRegister(c)
  PROVE  /\ RegistryInv'
         /\ reply'.result = "replay" => Justified(RegistryOf(reply'.svc),
                                          RegistryKey(reply'.svc, reply'.tok))
         /\ reply'.result = "valid" =>
              \A m \in accepted : /\ m.tok = reply'.tok
                                  /\ RegistryOf(m.svc) = RegistryOf(reply'.svc)
                                  => m.tok.exp <= clock
  <1>a. call[c] # Idle /\ call[c].svc \in Services /\ call[c].tok \in Token
    <2>1. call[c] # Idle
      BY DEF VerifyRegister, Idle
    <2> QED
      BY <2>1 DEF InProgress, RegistryInv, Typed
  <1> DEFINE sc == call[c].svc
             tc == call[c].tok
             gc == Config[sc].registry
             kc == RegistryKey(sc, tc)
  <1>b. PICK now \in Readings(c) :
          /\ seen' = [seen EXCEPT ![gc] =
                       Registered(seen[gc], kc, Retention[gc], tc.exp, now)]
          /\ \/ /\ IsRegistered(seen[gc], kc, now)
                /\ reply' = [result |-> "replay", svc |-> sc, tok |-> tc]
                /\ accepted' = accepted
             \/ /\ ~IsRegistered(seen[gc], kc, now)
                /\ reply' = [result |-> "valid", svc |-> sc, tok |-> tc]
                /\ accepted' = accepted \cup {[svc |-> sc, tok |-> tc]}
    BY DEF VerifyRegister, Answer
  <1>c. clock' = clock
    BY DEF VerifyRegister
  <1> HIDE DEF sc, tc
  <1>p. PICK s \in Services, t \in Token : s = sc /\ t = tc
    BY <1>a DEF sc, tc
  <1> DEFINE g == Config[s].registry
             k == RegistryKey(s, t)
  <1> DEFINE new == Registered(seen[g], k, Retention[g], t.exp, now)
  <1>0. /\ t.exp \in Nat /\ clock \in Nat /\ now \in Nat /\ now <= clock
        /\ g \in Registries /\ Retention[g] \in Nat /\ Dictionary(seen[g])
        /\ seen[g] \in [DOMAIN seen[g] -> Nat]
        /\ \A m \in accepted : m.svc \in Services /\ m.tok \in Token /\ m.tok.exp \in Nat
    BY <1>a, ReadingsPast, TokenExp, AttestationAssumption
       DEF RegistryInv, Typed, Dictionary
  <1>d. g = RegistryOf(s) /\ k = RegistryKey(s, t) /\ s \in Services /\ t \in Token
    BY DEF RegistryOf
  <1>1. /\ seen' = [seen EXCEPT ![g] = new] /\ clock' = clock
        /\ reply'.svc = s /\ reply'.tok = t
        /\ \/ /\ IsRegistered(seen[g], k, now) /\ reply'.result = "replay"
              /\ accepted' = accepted
           \/ /\ ~IsRegistered(seen[g], k, now) /\ reply'.result = "valid"
              /\ accepted' = accepted \cup {[svc |-> s, tok |-> t]}
    BY <1>b, <1>c, <1>p
  <1>2. /\ ~IsRegistered(seen[g], k, now) => k \in DOMAIN new
        /\ \A x : IsRegistered(seen[g], x, now) => x \in DOMAIN new /\ new[x] = seen[g][x]
        /\ \A x : x \in DOMAIN new => x = k \/ x \in DOMAIN seen[g]
        /\ ~IsRegistered(seen[g], k, now) => new[k] >= t.exp
    <2>1. new = Registered(seen[g], k, Retention[g], t.exp, now)
      OBVIOUS
    <2> HIDE DEF g, k, new
    <2> QED
      BY <1>0, <2>1, RegisteredKeeps, RegisteredAdds, RegisteredOnly
  <1>3. \A x : IsRegistered(seen[g], x, now) <=> x \in DOMAIN seen[g] /\ seen[g][x] > now
    BY IsRegisteredMeaning
  <1>4. Typed'
    BY TypeInv DEF RegistryInv, Next, Verify
  <1>5. DOMAIN seen = Registries
    BY DEF RegistryInv, Typed
  <1>6. seen'[g] = new /\ \A h \in Registries : h # g => seen'[h] = seen[h]
    BY <1>0, <1>1, <1>5
  <1> HIDE DEF g, k, new
  <1>7. \A m \in accepted : Remembered(m)'
    <2> TAKE m \in accepted
    <2>1. Remembered(m)
      BY DEF RegistryInv
    <2>2. CASE m.tok.exp <= clock
      BY <2>2, <1>1 DEF Remembered
    <2>3. CASE m.tok.exp > clock /\ RegistryOf(m.svc) # g
      <3>1. RegistryOf(m.svc) \in Registries
        BY <1>0, AttestationAssumption DEF RegistryOf
      <3> QED
        BY <2>1, <2>3, <3>1, <1>1, <1>6, <1>0 DEF Remembered, KeyOf
    <2>4. CASE m.tok.exp > clock /\ RegistryOf(m.svc) = g
      <3>1. KeyOf(m) \in DOMAIN seen[g] /\ seen[g][KeyOf(m)] >= m.tok.exp
        BY <2>1, <2>4, <1>0 DEF Remembered
      <3>2. seen[g][KeyOf(m)] > now
        BY <2>4, <3>1, <1>0
      <3> QED
        BY <2>4, <3>1, <3>2, <1>2, <1>3, <1>6 DEF Remembered, KeyOf
    <2> QED
      BY <2>2, <2>3, <2>4, <1>0
  <1>8. ASSUME ~IsRegistered(seen[g], k, now)
        PROVE  Remembered([svc |-> s, tok |-> t])'
    <2>1. RegistryOf(s) = g /\ RegistryKey(s, t) = k
      BY <1>d
    <2>2. k \in DOMAIN new /\ new[k] >= t.exp
      BY <1>2, <1>8
    <2> QED
      BY <1>6, <2>1, <2>2 DEF Remembered, KeyOf
  <1>9. \A h \in Registries : \A x \in DOMAIN seen'[h] : Justified(h, x)'
    <2> TAKE h \in Registries
    <2> TAKE x \in DOMAIN seen'[h]
    <2>1. CASE x \in DOMAIN seen[h]
      BY <2>1, <1>1 DEF RegistryInv, Justified
    <2>2. CASE x \notin DOMAIN seen[h]
      <3>1. h = g /\ x = k
        BY <2>2, <1>2, <1>6
      <3>2. accepted' = accepted \cup {[svc |-> s, tok |-> t]}
        BY <1>1, <1>3, <2>2, <3>1
      <3>3. RegistryOf(s) = g /\ RegistryKey(s, t) = k
        BY <1>d
      <3> DEFINE m == [svc |-> s, tok |-> t]
      <3>4. m \in accepted' /\ RegistryOf(m.svc) = h /\ KeyOf(m) = x
        BY <3>1, <3>2, <3>3 DEF KeyOf
      <3> QED
        BY <3>4 DEF Justified
    <2> QED
      BY <2>1, <2>2
  <1>10. RegistryInv'
    <2>1. \A m \in accepted' : Remembered(m)'
      BY <1>1, <1>7, <1>8
    <2> QED
      BY <1>4, <1>9, <2>1 DEF RegistryInv
  <1>11. reply'.result = "replay" => Justified(g, k)
    BY <1>0, <1>1, <1>3 DEF RegistryInv
  <1>12. ASSUME reply'.result = "valid", NEW m \in accepted, m.tok = t, RegistryOf(m.svc) = g
         PROVE  m.tok.exp <= clock
    <2>1. ~IsRegistered(seen[g], k, now)
      BY <1>1, <1>12
    <2>2. KeyOf(m) = k
      BY <1>0, <1>12, <1>d, KeysIdentify DEF KeyOf
    <2>3. Remembered(m)
      BY DEF RegistryInv
    <2> QED
      BY <2>1, <2>2, <2>3, <1>0, <1>3, <1>12 DEF Remembered
  <1> QED
    BY <1>1, <1>d, <1>10, <1>11, <1>12

\* A step that registers nothing keeps the invariant: the clock only advances.
LEMMA RegistryInvStep == RegistryInv /\ [Next]_vars => RegistryInv'
  <1> SUFFICES ASSUME RegistryInv, [Next]_vars PROVE RegistryInv'
    OBVIOUS
  <1>1. Typed'
    BY TypeInv DEF RegistryInv
  <1>2. CASE \E c \in Calls : VerifyRegister(c)
    BY <1>2, RegistryStep
  <1>3. CASE seen' = seen /\ accepted' = accepted /\ (clock' = clock \/ clock' = clock + 1)
    <2>1. clock \in Nat /\ \A m \in accepted : m.tok.exp \in Nat
      BY TokenExp DEF RegistryInv, Typed
    <2> QED
      BY <1>1, <1>3, <2>1 DEF RegistryInv, Remembered, Justified, KeyOf
  <1> QED
    BY <1>2, <1>3 DEF Next, vars, Tick, Sign, Verify, SignStamp, SignReserve, SignMint,
       SignFail, VerifyDecode

LEMMA InitRegistryInv == Init => RegistryInv
  BY AttestationAssumption DEF Init, RegistryInv, Typed, Dictionary, Idle, NoReply, Registries

\* Only VerifyRegister answers "valid" or "replay".
LEMMA WhoAnswers ==
  ASSUME Next, reply'.result \in {"valid", "replay"}
  PROVE  \E c \in Calls : VerifyRegister(c)
  <1>1. \A c \in Calls : Sign(c) => reply'.result \in {"none", "duplicate", "signed", "failed"}
    <2> TAKE c \in Calls
    <2>1. SignReserve(c) => reply'.result \in {"none", "duplicate"}
      BY DEF SignReserve, NoReply, Answer
    <2>2. SignMint(c) \/ SignFail(c) => reply'.result \in {"signed", "failed"}
      BY DEF SignMint, SignFail, Answer
    <2>3. \A s, trace, subject, session :
            SignStamp(c, s, trace, subject, session) => reply'.result = "none"
      BY DEF SignStamp, NoReply
    <2> QED
      BY <2>1, <2>2, <2>3 DEF Sign
  <1>2. \A s \in Services, t \in Presentable, context \in Contexts :
          Fault(s, t, context) \in Faults \cup {"none"}
    BY DEF Fault, ClaimsFault, Faults
  <1>3. \A c \in Calls, s \in Services, t \in Presentable, context \in Contexts :
          VerifyDecode(c, s, t, context) => reply'.result \in Faults \cup {"none"}
    BY <1>2 DEF VerifyDecode, NoReply, Answer
  <1>4. \A c \in Calls : Verify(c) => VerifyRegister(c) \/ reply'.result \in Faults \cup {"none"}
    BY <1>3 DEF Verify
  <1>5. Tick => reply'.result = "none"
    BY DEF Tick, NoReply
  <1> QED
    BY <1>1, <1>4, <1>5 DEF Next, Faults

\* For any number of workers behind one registry: an unexpired token is
\* accepted at most once (AcceptedOnce).
THEOREM TokensAcceptedOnce == Spec => AcceptedOnce
  <1>1. ASSUME RegistryInv, [Next]_vars, NEW m \in accepted,
               reply'.result = "valid", reply'.tok = m.tok,
               Config[reply'.svc].registry = Config[m.svc].registry,
               ~ UNCHANGED vars
        PROVE  m.tok.exp <= clock
    <2>1. \E c \in Calls : VerifyRegister(c)
      BY <1>1, WhoAnswers
    <2> QED
      BY <1>1, <2>1, RegistryStep DEF RegistryOf
  <1>2. RegistryInv /\ [Next]_vars =>
          [\A m \in accepted :
             /\ reply'.result = "valid"
             /\ reply'.tok = m.tok
             /\ Config[reply'.svc].registry = Config[m.svc].registry
             => m.tok.exp <= clock]_vars
    BY <1>1
  <1> QED
    BY <1>2, InitRegistryInv, RegistryInvStep, PTL DEF Spec, AcceptedOnce

\* For any services and tokens: what is refused as a replay was accepted
\* before (ReplayMeansAccepted).
THEOREM ReplaysAreReal == Spec => ReplayMeansAccepted
  <1>1. ASSUME RegistryInv, [Next]_vars, reply'.result = "replay", ~ UNCHANGED vars
        PROVE  \E m \in accepted :
                 /\ m.tok.iss = reply'.tok.iss
                 /\ m.tok.jti = reply'.tok.jti
                 /\ Config[m.svc].registry = Config[reply'.svc].registry
    <2>1. PICK c \in Calls : VerifyRegister(c)
      BY <1>1, WhoAnswers
    <2>2. PICK m \in accepted : /\ RegistryOf(m.svc) = RegistryOf(reply'.svc)
                                /\ KeyOf(m) = RegistryKey(reply'.svc, reply'.tok)
      BY <1>1, <2>1, RegistryStep DEF Justified
    <2>3. m.svc \in Services /\ reply'.svc \in Services
      <3>1. reply' # NoReply
        BY <1>1 DEF NoReply
      <3> QED
        BY <1>1, <3>1, TypeInv DEF RegistryInv, Typed
    <2> QED
      BY <2>2, <2>3, KeysIdentify DEF KeyOf, RegistryOf
  <1>2. RegistryInv /\ [Next]_vars =>
          [reply'.result = "replay" =>
             \E m \in accepted :
               /\ m.tok.iss = reply'.tok.iss
               /\ m.tok.jti = reply'.tok.jti
               /\ Config[m.svc].registry = Config[reply'.svc].registry]_vars
    BY <1>1
  <1> QED
    BY <1>2, InitRegistryInv, RegistryInvStep, PTL DEF Spec, ReplayMeansAccepted

-----------------------------------------------------------------------------
(* The issuance record: sign_verdict. *)

\* Each entry stands for a token that was signed or for a call that is about
\* to sign one.
Claimed(s, k) ==
  \/ \E m \in minted : m.svc = s /\ m.tok.jti = k
  \/ \E c \in Calls : /\ call[c].at = "reserved" /\ call[c].svc = s
                      /\ call[c].tok.jti = k

IssuedInv == \A s \in Services : \A k \in DOMAIN issued[s] : Claimed(s, k)

\* What a reserving call does to the record of its service, and to no other.
LEMMA ReserveStep ==
  ASSUME Typed, NEW c \in Calls, SignReserve(c)
  PROVE  \E s \in Services, t \in Token, now \in Nat :
           /\ call[c].at = "stamped" /\ call[c].svc = s /\ call[c].tok = t
           /\ now <= clock
           /\ issued'[s] = Registered(issued[s], t.jti, Validity, t.exp, now)
           /\ \A x \in Services : x # s => issued'[x] = issued[x]
           /\ \/ /\ IsRegistered(issued[s], t.jti, now)
                 /\ call' = [call EXCEPT ![c] = Idle]
                 /\ reply' = [result |-> "duplicate", svc |-> s, tok |-> t]
              \/ /\ ~IsRegistered(issued[s], t.jti, now)
                 /\ call' = [call EXCEPT ![c] = [at |-> "reserved", svc |-> s,
                                                 tok |-> t, read |-> call[c].read]]
                 /\ reply' = NoReply
  <1>1. call[c] # Idle /\ call[c] \in InProgress
    BY DEF SignReserve, Idle, Typed
  <1>2. PICK s \in Services, t \in Token : call[c].svc = s /\ call[c].tok = t
    BY <1>1 DEF InProgress
  <1>3. PICK now \in Readings(c) :
          /\ issued' = [issued EXCEPT ![s] = Registered(issued[s], t.jti, Validity, t.exp, now)]
          /\ \/ /\ IsRegistered(issued[s], t.jti, now)
                /\ call' = [call EXCEPT ![c] = Idle]
                /\ reply' = [result |-> "duplicate", svc |-> s, tok |-> t]
             \/ /\ ~IsRegistered(issued[s], t.jti, now)
                /\ call' = [call EXCEPT ![c] = [call[c] EXCEPT !.at = "reserved"]]
                /\ reply' = NoReply
    BY <1>2 DEF SignReserve, Leave, Advance, Answer
  <1>4. now \in Nat /\ now <= clock
    BY <1>1, ReadingsPast
  <1>5. [call[c] EXCEPT !.at = "reserved"]
          = [at |-> "reserved", svc |-> s, tok |-> t, read |-> call[c].read]
    BY <1>1, <1>2 DEF InProgress
  <1>6. /\ issued'[s] = Registered(issued[s], t.jti, Validity, t.exp, now)
        /\ \A x \in Services : x # s => issued'[x] = issued[x]
    BY <1>3 DEF Typed
  <1>7. call[c].at = "stamped"
    BY DEF SignReserve
  <1> QED
    BY <1>2, <1>3, <1>4, <1>5, <1>6, <1>7

LEMMA ReserveIssued ==
  ASSUME Typed, IssuedInv, NEW c \in Calls, SignReserve(c)
  PROVE  /\ IssuedInv'
         /\ reply'.result = "duplicate" => Claimed(reply'.svc, reply'.tok.jti)
  <1>1. PICK s \in Services, t \in Token, now \in Nat :
           /\ call[c].at = "stamped" /\ call[c].svc = s /\ call[c].tok = t
           /\ now <= clock
           /\ issued'[s] = Registered(issued[s], t.jti, Validity, t.exp, now)
           /\ \A x \in Services : x # s => issued'[x] = issued[x]
           /\ \/ /\ IsRegistered(issued[s], t.jti, now)
                 /\ call' = [call EXCEPT ![c] = Idle]
                 /\ reply' = [result |-> "duplicate", svc |-> s, tok |-> t]
              \/ /\ ~IsRegistered(issued[s], t.jti, now)
                 /\ call' = [call EXCEPT ![c] = [at |-> "reserved", svc |-> s,
                                                 tok |-> t, read |-> call[c].read]]
                 /\ reply' = NoReply
    BY ReserveStep
  <1>2. minted' = minted /\ DOMAIN call = Calls
    BY DEF SignReserve, Typed
  <1>3. \A d \in Calls : d # c => call'[d] = call[d]
    BY <1>1, <1>2
  <1>4. \A x, k : Claimed(x, k) => Claimed(x, k)'
    BY <1>1, <1>2, <1>3 DEF Claimed
  <1>5. \A k \in DOMAIN issued'[s] : k = t.jti \/ k \in DOMAIN issued[s]
    BY <1>1, RegisteredOnly
  <1>6. CASE IsRegistered(issued[s], t.jti, now)
    <2>1. t.jti \in DOMAIN issued[s]
      BY <1>6, IsRegisteredMeaning
    <2> QED
      BY <1>1, <1>4, <1>5, <1>6, <2>1 DEF IssuedInv
  <1>7. CASE ~IsRegistered(issued[s], t.jti, now)
    <2>1. call'[c].at = "reserved" /\ call'[c].svc = s /\ call'[c].tok.jti = t.jti
      BY <1>1, <1>2, <1>7
    <2>2. Claimed(s, t.jti)'
      BY <2>1 DEF Claimed
    <2> QED
      BY <1>1, <1>4, <1>5, <1>7, <2>2 DEF IssuedInv, NoReply
  <1> QED
    BY <1>6, <1>7

\* A call that signs hands its claim over to its token; one that fails takes
\* its entry along.
LEMMA MintIssued ==
  ASSUME Typed, IssuedInv, NEW c \in Calls, SignMint(c)
  PROVE  IssuedInv'
  <1>1. call' = [call EXCEPT ![c] = Idle] /\ issued' = issued
        /\ minted' = minted \cup {[svc |-> call[c].svc, tok |-> call[c].tok]}
    BY DEF SignMint, Leave
  <1>2. \A d \in Calls : d # c => call'[d] = call[d]
    BY <1>1 DEF Typed
  <1>3. ASSUME NEW x, NEW k, Claimed(x, k) PROVE Claimed(x, k)'
    <2>1. CASE \E m \in minted : m.svc = x /\ m.tok.jti = k
      BY <1>1, <2>1 DEF Claimed
    <2>2. ASSUME NEW d \in Calls, call[d].at = "reserved", call[d].svc = x,
                 call[d].tok.jti = k
          PROVE  Claimed(x, k)'
      <3>1. CASE d = c
        <4> DEFINE m == [svc |-> call[c].svc, tok |-> call[c].tok]
        <4>1. m \in minted' /\ m.svc = x /\ m.tok.jti = k
          BY <1>1, <2>2, <3>1
        <4> QED
          BY <4>1 DEF Claimed
      <3>2. CASE d # c
        BY <1>2, <2>2, <3>2 DEF Claimed
      <3> QED
        BY <3>1, <3>2
    <2> QED
      BY <1>3, <2>1, <2>2 DEF Claimed
  <1> QED
    BY <1>1, <1>3 DEF IssuedInv

LEMMA FailIssued ==
  ASSUME Typed, IssuedInv, NEW c \in Calls, SignFail(c)
  PROVE  IssuedInv'
  <1>1. call[c] # Idle /\ call[c] \in InProgress
    BY DEF SignFail, Idle, Typed
  <1>2. PICK s \in Services, t \in Token : call[c].svc = s /\ call[c].tok = t
    BY <1>1 DEF InProgress
  <1>3. /\ issued'[s] = Released(issued[s], t.jti)
        /\ \A x \in Services : x # s => issued'[x] = issued[x]
        /\ call' = [call EXCEPT ![c] = Idle] /\ minted' = minted
    BY <1>2 DEF SignFail, Leave, Typed
  <1>4. \A d \in Calls : d # c => call'[d] = call[d]
    BY <1>3 DEF Typed
  <1>5. \A x, k : Claimed(x, k) /\ (x # s \/ k # t.jti) => Claimed(x, k)'
    BY <1>2, <1>3, <1>4 DEF Claimed
  <1>6. \A k \in DOMAIN issued'[s] : k \in DOMAIN issued[s] /\ k # t.jti
    BY <1>3 DEF Released, Restrict
  <1> QED
    BY <1>3, <1>5, <1>6 DEF IssuedInv

\* The calls of every other step: none comes to hold or loses a reservation.
\* Each changes at most one call, which it neither finds nor leaves reserved.
LEMMA OthersCalls ==
  ASSUME Typed, [Next]_vars,
         \A c \in Calls : ~SignReserve(c) /\ ~SignMint(c) /\ ~SignFail(c)
  PROVE  \A c \in Calls : /\ call[c].at = "reserved" => call'[c] = call[c]
                          /\ call'[c].at = "reserved" => call'[c] = call[c]
  <1>1. CASE Tick \/ UNCHANGED vars
    BY <1>1 DEF Tick, vars
  <1>2. ASSUME NEW c \in Calls, Sign(c) \/ Verify(c)
        PROVE  \E entry : /\ call' = [call EXCEPT ![c] = entry] \/ call' = call
                          /\ call[c].at # "reserved" /\ entry.at # "reserved"
    <2>1. CASE VerifyRegister(c)
      <3> WITNESS Idle
      <3> QED
        BY <2>1 DEF VerifyRegister, Leave, Idle
    <2>2. ASSUME NEW s, NEW trace, NEW subject, NEW session,
                 SignStamp(c, s, trace, subject, session)
          PROVE  \E entry : /\ call' = [call EXCEPT ![c] = entry]
                            /\ call[c].at # "reserved" /\ entry.at # "reserved"
      <3> DEFINE t == [iss |-> Config[s].issuer, key |-> Config[s].key,
                       kid |-> Config[s].kid, deployment |-> Config[s].deployment,
                       jti |-> trace, exp |-> clock + Validity, subject |-> subject,
                       session |-> session, block |-> TRUE]
      <3>1. call' = [call EXCEPT ![c] = [at |-> "stamped", svc |-> s, tok |-> t,
                                         read |-> clock]]
        BY <2>2 DEF SignStamp, Enter
      <3> HIDE DEF t
      <3> WITNESS [at |-> "stamped", svc |-> s, tok |-> t, read |-> clock]
      <3> QED
        BY <2>2, <3>1 DEF SignStamp, Idle
    <2>3. ASSUME NEW s, NEW t, NEW context, VerifyDecode(c, s, t, context)
          PROVE  \E entry : /\ call' = [call EXCEPT ![c] = entry] \/ call' = call
                            /\ call[c].at # "reserved" /\ entry.at # "reserved"
      <3> WITNESS [at |-> "decoded", svc |-> s, tok |-> t, read |-> clock]
      <3> QED
        BY <2>3 DEF VerifyDecode, Enter, Idle
    <2> QED
      BY <1>2, <2>1, <2>2, <2>3 DEF Sign, Verify
  <1> QED
    BY <1>1, <1>2 DEF Next, Typed

\* Every other step leaves the record and the claims to it alone.
LEMMA OthersIssued ==
  ASSUME Typed, IssuedInv, [Next]_vars,
         \A c \in Calls : ~SignReserve(c) /\ ~SignMint(c) /\ ~SignFail(c)
  PROVE  IssuedInv'
  <1>1. minted' = minted /\ issued' = issued
    BY DEF Next, Tick, Sign, Verify, SignStamp, VerifyDecode, VerifyRegister, vars
  <1>2. \A x, k : Claimed(x, k) => Claimed(x, k)'
    BY <1>1, OthersCalls DEF Claimed
  <1> QED
    BY <1>1, <1>2 DEF IssuedInv

\* Who refuses a duplicate, and who signs.
LEMMA WhoSigns ==
  ASSUME Next
  PROVE  /\ reply'.result = "duplicate" => \E c \in Calls : SignReserve(c)
         /\ reply'.result = "signed" => \E c \in Calls : SignMint(c)
  <1>1. \A c \in Calls : VerifyRegister(c) => reply'.result \in {"replay", "valid"}
    BY DEF VerifyRegister, Answer
  <1>2. \A s \in Services, t \in Presentable, context \in Contexts :
          Fault(s, t, context) \in Faults \cup {"none"}
    BY DEF Fault, ClaimsFault, Faults
  <1>3. \A c \in Calls, s \in Services, t \in Presentable, context \in Contexts :
          VerifyDecode(c, s, t, context) => reply'.result \in Faults \cup {"none"}
    BY <1>2 DEF VerifyDecode, NoReply, Answer
  <1>4. Tick => reply'.result = "none"
    BY DEF Tick, NoReply
  <1>5. \A c \in Calls : SignReserve(c) => reply'.result \in {"none", "duplicate"}
    BY DEF SignReserve, NoReply, Answer
  <1>6. \A c \in Calls : SignMint(c) => reply'.result = "signed"
    BY DEF SignMint, Answer
  <1>7. \A c \in Calls : SignFail(c) => reply'.result = "failed"
    BY DEF SignFail, Answer
  <1>8. \A c, s, trace, subject, session :
          SignStamp(c, s, trace, subject, session) => reply'.result = "none"
    BY DEF SignStamp, NoReply
  <1> QED
    BY <1>1, <1>3, <1>4, <1>5, <1>6, <1>7, <1>8 DEF Next, Sign, Verify, Faults

LEMMA IssuedInvStep == Typed /\ IssuedInv /\ [Next]_vars => IssuedInv'
  BY ReserveIssued, MintIssued, FailIssued, OthersIssued

\* For any services and calls: what is refused as a duplicate was signed, or
\* is being signed; a call that failed burns nothing (NoPhantomDuplicate).
THEOREM DuplicatesAreReal == Spec => NoPhantomDuplicate
  <1>1. Init => IssuedInv
    BY DEF Init, IssuedInv
  <1>2. ASSUME Typed, IssuedInv, [Next]_vars, reply'.result = "duplicate",
               ~ UNCHANGED vars
        PROVE  Claimed(reply'.svc, reply'.tok.jti)
    <2>1. PICK c \in Calls : SignReserve(c)
      BY <1>2, WhoSigns
    <2> QED
      BY <1>2, <2>1, ReserveIssued
  <1>3. Typed /\ IssuedInv /\ [Next]_vars =>
          [reply'.result = "duplicate" =>
             \/ \E m \in minted : m.svc = reply'.svc /\ m.tok.jti = reply'.tok.jti
             \/ \E c \in Calls : /\ call[c].at = "reserved" /\ call[c].svc = reply'.svc
                                 /\ call[c].tok.jti = reply'.tok.jti]_vars
    BY <1>2 DEF Claimed
  <1> QED
    BY <1>1, <1>3, IssuedInvStep, AttestationTypeCorrect, PTL DEF Spec, TypeOK, NoPhantomDuplicate

-----------------------------------------------------------------------------
(* Two tokens of one service with one jti are never alive together.  What   *)
(* makes it so is that a call ends before its token expires: a reservation  *)
(* that outlived its entry could release the entry of another call.         *)

PromptCalls == Stall < Validity

Held(s, t) == t.jti \in DOMAIN issued[s] /\ issued[s][t.jti] >= t.exp

SameId(s, t, x, u) == s = x /\ t.jti = u.jti

Prompt(c) ==
  /\ call[c] # Idle => clock <= call[c].read + Stall
  /\ call[c].at \in {"stamped", "reserved"} => call[c].tok.exp = call[c].read + Validity

\* A reserved id is held for its call alone: no other call has reserved it,
\* and every token that was signed under it has expired.
Exclusive(c) ==
  call[c].at = "reserved" =>
    /\ Held(call[c].svc, call[c].tok)
    /\ \A m \in minted : SameId(m.svc, m.tok, call[c].svc, call[c].tok)
                           => m.tok.exp <= clock
    /\ \A d \in Calls \ {c} :
         call[d].at = "reserved" => ~SameId(call[d].svc, call[d].tok,
                                            call[c].svc, call[c].tok)

MintedHeld == \A m \in minted : m.tok.exp <= clock \/ Held(m.svc, m.tok)

SigningInv ==
  /\ Typed
  /\ MintedHeld
  /\ \A c \in Calls : Prompt(c) /\ Exclusive(c)

\* What a call in the middle of signing is.
LEMMA SigningCall ==
  ASSUME Typed, NEW c \in Calls, call[c].at \in {"stamped", "reserved", "decoded"}
  PROVE  /\ call[c] # Idle /\ call[c].svc \in Services /\ call[c].tok \in Token
         /\ call[c].tok.exp \in Nat /\ call[c].read \in Nat /\ clock \in Nat
         /\ Stall \in Nat /\ Validity \in Nat
  <1>1. call[c] # Idle
    BY DEF Idle
  <1>2. call[c] \in InProgress
    BY <1>1 DEF Typed
  <1> QED
    BY <1>1, <1>2, TokenExp, AttestationAssumption DEF InProgress, Typed

\* A call in progress holds a token that has not expired.
LEMMA StillAlive ==
  ASSUME PromptCalls, Typed, NEW c \in Calls, Prompt(c),
         call[c].at \in {"stamped", "reserved"}
  PROVE  clock < call[c].tok.exp
  BY SigningCall DEF PromptCalls, Prompt

LEMMA ReserveSigning ==
  ASSUME PromptCalls, SigningInv, NEW c \in Calls, SignReserve(c)
  PROVE  SigningInv'
  <1>0. Typed /\ Typed' /\ clock \in Nat /\ Validity \in Nat
    BY TypeInv, AttestationAssumption DEF SigningInv, Next, Sign, Typed
  <1>1. PICK s \in Services, t \in Token, now \in Nat :
           /\ call[c].at = "stamped" /\ call[c].svc = s /\ call[c].tok = t
           /\ now <= clock
           /\ issued'[s] = Registered(issued[s], t.jti, Validity, t.exp, now)
           /\ \A x \in Services : x # s => issued'[x] = issued[x]
           /\ \/ /\ IsRegistered(issued[s], t.jti, now)
                 /\ call' = [call EXCEPT ![c] = Idle]
                 /\ reply' = [result |-> "duplicate", svc |-> s, tok |-> t]
              \/ /\ ~IsRegistered(issued[s], t.jti, now)
                 /\ call' = [call EXCEPT ![c] = [at |-> "reserved", svc |-> s,
                                                 tok |-> t, read |-> call[c].read]]
                 /\ reply' = NoReply
    BY <1>0, ReserveStep
  <1>2. minted' = minted /\ clock' = clock /\ DOMAIN call = Calls
        /\ \A d \in Calls : d # c => call'[d] = call[d]
    BY <1>0, <1>1 DEF SignReserve, Typed
  <1>3. \A u : \A x \in Services :
          Held(x, u) /\ u.exp \in Nat /\ clock < u.exp => Held(x, u)'
    <2> SUFFICES ASSUME NEW u, NEW x \in Services, Held(x, u), u.exp \in Nat, clock < u.exp
                 PROVE  Held(x, u)'
      OBVIOUS
    <2>1. CASE x = s
      <3>1. issued[s][u.jti] \in Nat
        BY <2>1, <1>0 DEF Held, Typed, Dictionary
      <3>2. IsRegistered(issued[s], u.jti, now)
        BY <1>0, <1>1, <2>1, <3>1, IsRegisteredMeaning DEF Held
      <3> QED
        BY <1>1, <2>1, <3>2, RegisteredKeeps DEF Held
    <2>2. CASE x # s
      BY <1>1, <2>2 DEF Held
    <2> QED
      BY <2>1, <2>2
  <1>4. \A m \in minted : m.svc \in Services /\ m.tok.exp \in Nat
    BY <1>0, TokenExp DEF Typed
  <1>5. MintedHeld'
    BY <1>0, <1>2, <1>3, <1>4 DEF SigningInv, MintedHeld
  <1>6. \A d \in Calls : Prompt(d)'
    BY <1>1, <1>2 DEF SigningInv, Prompt, Idle
  <1>7. ASSUME NEW d \in Calls, call[d].at = "reserved", NEW x, NEW u,
               call[d].svc = x, call[d].tok = u
        PROVE  Held(x, u)' /\ (SameId(x, u, s, t) => IsRegistered(issued[s], t.jti, now))
    <2>1. x \in Services /\ u.exp \in Nat /\ clock < u.exp /\ Held(x, u)
      BY <1>0, <1>7, SigningCall, StillAlive DEF SigningInv, Exclusive
    <2>2. Held(x, u)'
      BY <1>3, <2>1
    <2>3. issued[x][u.jti] \in Nat
      BY <1>0, <2>1 DEF Held, Typed, Dictionary
    <2>4. IsRegistered(issued[x], u.jti, now)
      BY <1>0, <1>1, <2>1, <2>3, IsRegisteredMeaning DEF Held
    <2> QED
      BY <2>2, <2>4 DEF SameId
  <1>8. CASE IsRegistered(issued[s], t.jti, now)
    <2>1. call'[c].at # "reserved"
      BY <1>1, <1>2, <1>8 DEF Idle
    <2>2. ASSUME NEW d \in Calls PROVE Exclusive(d)'
      <3>1. CASE d # c /\ call[d].at = "reserved"
        <4>1. Held(call[d].svc, call[d].tok)'
          <5>1. PICK x, u : call[d].svc = x /\ call[d].tok = u
            OBVIOUS
          <5> QED
            BY <1>2, <1>7, <3>1, <5>1
        <4> QED
          BY <1>2, <2>1, <3>1, <4>1 DEF SigningInv, Exclusive
      <3> QED
        BY <1>2, <2>1, <3>1 DEF Exclusive
    <2> QED
      BY <1>0, <1>5, <1>6, <2>2 DEF SigningInv
  <1>9. CASE ~IsRegistered(issued[s], t.jti, now)
    <2>1. call'[c].at = "reserved" /\ call'[c].svc = s /\ call'[c].tok = t
      BY <1>1, <1>2, <1>9
    <2>2. t.exp \in Nat
      BY TokenExp
    <2>3. Held(s, t)'
      BY <1>0, <1>1, <1>9, <2>2, RegisteredAdds DEF Held
    <2>4. \A m \in minted : SameId(m.svc, m.tok, s, t) => m.tok.exp <= clock
      <3> SUFFICES ASSUME NEW m \in minted, SameId(m.svc, m.tok, s, t), ~(m.tok.exp <= clock)
                   PROVE  IsRegistered(issued[s], t.jti, now)
        BY <1>9
      <3>1. t.jti \in DOMAIN issued[s] /\ issued[s][t.jti] >= m.tok.exp
        BY DEF SigningInv, MintedHeld, Held, SameId
      <3>2. issued[s][t.jti] \in Nat
        BY <1>0, <3>1 DEF Typed, Dictionary
      <3> QED
        BY <1>0, <1>1, <1>4, <3>1, <3>2, IsRegisteredMeaning
    <2>5. \A d \in Calls \ {c} : call[d].at = "reserved" => ~SameId(call[d].svc, call[d].tok, s, t)
      BY <1>7, <1>9
    <2>6. Exclusive(c)'
      BY <1>2, <2>1, <2>3, <2>4, <2>5 DEF Exclusive
    <2>7. ASSUME NEW d \in Calls, d # c, call[d].at = "reserved" PROVE Exclusive(d)'
      <3>1. PICK x, u : call[d].svc = x /\ call[d].tok = u
        OBVIOUS
      <3>2. Held(x, u)' /\ ~SameId(s, t, x, u)
        BY <1>7, <2>5, <2>7, <3>1 DEF SameId
      <3> QED
        BY <1>2, <2>1, <2>7, <3>1, <3>2 DEF SigningInv, Exclusive
    <2>8. \A d \in Calls : Exclusive(d)'
      BY <1>2, <2>6, <2>7 DEF Exclusive
    <2> QED
      BY <1>0, <1>5, <1>6, <2>8 DEF SigningInv
  <1> QED
    BY <1>8, <1>9

LEMMA MintSigning ==
  ASSUME PromptCalls, SigningInv, NEW c \in Calls, SignMint(c)
  PROVE  /\ SigningInv'
         /\ reply'.result = "signed" /\ reply'.svc = call[c].svc
         /\ reply'.tok = call[c].tok /\ call[c].at = "reserved"
  <1>0. Typed /\ Typed'
    BY TypeInv DEF SigningInv, Next, Sign
  <1>1. PICK s, t : s = call[c].svc /\ t = call[c].tok
    OBVIOUS
  <1>2. /\ call[c].at = "reserved" /\ call' = [call EXCEPT ![c] = Idle]
        /\ minted' = minted \cup {[svc |-> s, tok |-> t]}
        /\ issued' = issued /\ clock' = clock
        /\ reply' = [result |-> "signed", svc |-> s, tok |-> t]
    BY <1>1 DEF SignMint, Leave, Answer
  <1>3. call'[c] = Idle /\ \A d \in Calls : d # c => call'[d] = call[d]
    BY <1>0, <1>2 DEF Typed
  <1>4. Exclusive(c) /\ Held(s, t)
    BY <1>1, <1>2 DEF SigningInv, Exclusive
  <1>5. \A x, u : Held(x, u) => Held(x, u)'
    BY <1>2 DEF Held
  <1>6. MintedHeld'
    BY <1>2, <1>4, <1>5 DEF SigningInv, MintedHeld
  <1>7. ASSUME NEW d \in Calls PROVE (Prompt(d) /\ Exclusive(d))'
    <2>1. CASE d = c
      BY <1>3, <2>1 DEF Prompt, Exclusive, Idle
    <2>2. CASE d # c
      <3>1. Prompt(d)'
        BY <1>2, <1>3, <2>2 DEF SigningInv, Prompt
      <3>2. CASE call[d].at = "reserved"
        <4>1. PICK x, u : call[d].svc = x /\ call[d].tok = u
          OBVIOUS
        <4>2. ~SameId(x, u, s, t)
          BY <1>1, <1>4, <1>2, <2>2, <3>2, <4>1 DEF Exclusive
        <4>3. \A m \in minted' : SameId(m.svc, m.tok, x, u) => m.tok.exp <= clock
          BY <1>2, <3>2, <4>1, <4>2 DEF SigningInv, Exclusive, SameId
        <4>4. Held(x, u)'
          BY <1>5, <3>2, <4>1 DEF SigningInv, Exclusive
        <4>5. \A e \in Calls \ {d} : call'[e].at = "reserved" =>
                ~SameId(call'[e].svc, call'[e].tok, x, u)
          <5>1. \A e \in Calls \ {d} : call[e].at = "reserved" =>
                  ~SameId(call[e].svc, call[e].tok, x, u)
            BY <3>2, <4>1 DEF SigningInv, Exclusive
          <5> QED
            BY <1>3, <5>1 DEF Idle
        <4>6. call'[d] = call[d] /\ clock' = clock
          BY <1>2, <1>3, <2>2
        <4>7. Exclusive(d)'
          BY <4>1, <4>3, <4>4, <4>5, <4>6 DEF Exclusive
        <4> QED
          BY <3>1, <4>7
      <3>3. CASE call[d].at # "reserved"
        BY <1>3, <2>2, <3>1, <3>3 DEF Exclusive
      <3> QED
        BY <3>2, <3>3
    <2> QED
      BY <2>1, <2>2
  <1> QED
    BY <1>0, <1>1, <1>2, <1>6, <1>7 DEF SigningInv

LEMMA FailSigning ==
  ASSUME PromptCalls, SigningInv, NEW c \in Calls, SignFail(c)
  PROVE  SigningInv'
  <1>0. Typed /\ Typed'
    BY TypeInv DEF SigningInv, Next, Sign
  <1>1. PICK s, t : s = call[c].svc /\ t = call[c].tok
    OBVIOUS
  <1>a. call[c].at = "reserved"
    BY DEF SignFail
  <1>b. s \in Services
    BY <1>0, <1>1, <1>a, SigningCall
  <1>2. /\ call' = [call EXCEPT ![c] = Idle] /\ minted' = minted /\ clock' = clock
        /\ issued'[s] = Released(issued[s], t.jti)
        /\ \A x \in Services : x # s => issued'[x] = issued[x]
    BY <1>0, <1>1, <1>b DEF SignFail, Leave, Typed
  <1>3. call'[c] = Idle /\ \A d \in Calls : d # c => call'[d] = call[d]
    BY <1>0, <1>2 DEF Typed
  <1>4. Exclusive(c)
    BY DEF SigningInv
  <1>5. \A u : \A x \in Services : Held(x, u) /\ ~SameId(x, u, s, t) => Held(x, u)'
    BY <1>2 DEF Held, SameId, Released, Restrict
  <1>6. MintedHeld'
    <2> SUFFICES ASSUME NEW m \in minted PROVE m.tok.exp <= clock \/ Held(m.svc, m.tok)'
      BY <1>2 DEF MintedHeld
    <2>1. m.svc \in Services
      BY <1>0 DEF Typed
    <2>2. m.tok.exp <= clock \/ Held(m.svc, m.tok)
      BY DEF SigningInv, MintedHeld
    <2>3. SameId(m.svc, m.tok, s, t) => m.tok.exp <= clock
      BY <1>1, <1>4, <1>a DEF Exclusive
    <2> QED
      BY <1>5, <2>1, <2>2, <2>3
  <1>7. ASSUME NEW d \in Calls PROVE (Prompt(d) /\ Exclusive(d))'
    <2>1. CASE d = c
      BY <1>3, <2>1 DEF Prompt, Exclusive, Idle
    <2>2. CASE d # c
      <3>1. Prompt(d)'
        BY <1>2, <1>3, <2>2 DEF SigningInv, Prompt
      <3>2. CASE call[d].at = "reserved"
        <4>1. PICK x, u : call[d].svc = x /\ call[d].tok = u
          OBVIOUS
        <4>2. ~SameId(x, u, s, t)
          BY <1>1, <1>4, <1>a, <2>2, <3>2, <4>1 DEF Exclusive
        <4>3. \A m \in minted : SameId(m.svc, m.tok, x, u) => m.tok.exp <= clock
          BY <3>2, <4>1 DEF SigningInv, Exclusive
        <4>4. Held(x, u)'
          BY <1>0, <1>5, <3>2, <4>1, <4>2, SigningCall DEF SigningInv, Exclusive
        <4>5. \A e \in Calls \ {d} : call'[e].at = "reserved" =>
                ~SameId(call'[e].svc, call'[e].tok, x, u)
          <5>1. \A e \in Calls \ {d} : call[e].at = "reserved" =>
                  ~SameId(call[e].svc, call[e].tok, x, u)
            BY <3>2, <4>1 DEF SigningInv, Exclusive
          <5> QED
            BY <1>3, <5>1 DEF Idle
        <4>6. call'[d] = call[d] /\ clock' = clock /\ minted' = minted
          BY <1>2, <1>3, <2>2
        <4>7. Exclusive(d)'
          BY <4>1, <4>3, <4>4, <4>5, <4>6 DEF Exclusive
        <4> QED
          BY <3>1, <4>7
      <3>3. CASE call[d].at # "reserved"
        BY <1>3, <2>2, <3>1, <3>3 DEF Exclusive
      <3> QED
        BY <3>2, <3>3
    <2> QED
      BY <2>1, <2>2
  <1> QED
    BY <1>0, <1>6, <1>7 DEF SigningInv

\* A call starts in time, and the clock waits for the calls in progress.
LEMMA OthersPrompt ==
  ASSUME Typed, \A d \in Calls : Prompt(d), [Next]_vars,
         \A c \in Calls : ~SignReserve(c) /\ ~SignMint(c) /\ ~SignFail(c)
  PROVE  \A d \in Calls : Prompt(d)'
  <1>0. clock \in Nat /\ Validity \in Nat /\ Stall \in Nat
    BY AttestationAssumption DEF Typed
  <1>1. CASE UNCHANGED vars
    BY <1>1 DEF vars, Prompt
  <1>2. CASE Tick
    <2> SUFFICES ASSUME NEW d \in Calls, call[d] # Idle PROVE clock + 1 <= call[d].read + Stall
      BY <1>2 DEF Tick, Prompt
    <2>1. call[d].read \in Nat
      BY DEF Typed, InProgress
    <2> QED
      BY <1>0, <1>2, <2>1 DEF Tick
  <1>3. ASSUME NEW c \in Calls, Sign(c) \/ Verify(c)
        PROVE  \A d \in Calls : Prompt(d)'
    <2>1. clock' = clock
      BY <1>3 DEF Sign, Verify, SignReserve, SignMint, SignFail, SignStamp, VerifyDecode,
         VerifyRegister
    <2>2. ASSUME NEW entry, call' = [call EXCEPT ![c] = entry],
                 \/ entry = Idle
                 \/ /\ entry.read = clock
                    /\ \/ entry.at = "decoded"
                       \/ entry.at = "stamped" /\ entry.tok.exp = clock + Validity
          PROVE  \A d \in Calls : Prompt(d)'
      <3>1. call'[c] = entry /\ \A d \in Calls : d # c => call'[d] = call[d]
        BY <2>2 DEF Typed
      <3>2. Prompt(c)'
        BY <1>0, <2>1, <2>2, <3>1 DEF Prompt, Idle
      <3> QED
        BY <2>1, <3>1, <3>2 DEF Prompt
    <2>3. CASE VerifyRegister(c)
      BY <2>2, <2>3 DEF VerifyRegister, Leave
    <2>4. ASSUME NEW s, NEW trace, NEW subject, NEW session,
                 SignStamp(c, s, trace, subject, session)
          PROVE  \A d \in Calls : Prompt(d)'
      <3> DEFINE t == [iss |-> Config[s].issuer, key |-> Config[s].key,
                       kid |-> Config[s].kid, deployment |-> Config[s].deployment,
                       jti |-> trace, exp |-> clock + Validity, subject |-> subject,
                       session |-> session, block |-> TRUE]
                 entry == [at |-> "stamped", svc |-> s, tok |-> t, read |-> clock]
      <3>1. call' = [call EXCEPT ![c] = entry]
        BY <2>4 DEF SignStamp, Enter
      <3>2. entry.read = clock /\ entry.at = "stamped" /\ entry.tok.exp = clock + Validity
        <4>1. t.exp = clock + Validity
          OBVIOUS
        <4> HIDE DEF t
        <4> QED
          BY <4>1
      <3> HIDE DEF entry
      <3> QED
        BY <2>2, <3>1, <3>2
    <2>5. ASSUME NEW s, NEW t, NEW context, VerifyDecode(c, s, t, context)
          PROVE  \A d \in Calls : Prompt(d)'
      <3>1. CASE call' = call
        BY <2>1, <3>1 DEF Prompt
      <3> DEFINE entry == [at |-> "decoded", svc |-> s, tok |-> t, read |-> clock]
      <3>2. call' = call \/ call' = [call EXCEPT ![c] = entry]
        BY <2>5 DEF VerifyDecode, Enter
      <3>3. entry.read = clock /\ entry.at = "decoded"
        OBVIOUS
      <3> HIDE DEF entry
      <3> QED
        BY <2>2, <3>1, <3>2, <3>3
    <2> QED
      BY <1>3, <2>3, <2>4, <2>5 DEF Sign, Verify
  <1> QED
    BY <1>1, <1>2, <1>3 DEF Next

\* Every other step leaves the tokens, the record and the reservations alone.
LEMMA OthersSigning ==
  ASSUME PromptCalls, SigningInv, [Next]_vars,
         \A c \in Calls : ~SignReserve(c) /\ ~SignMint(c) /\ ~SignFail(c)
  PROVE  SigningInv'
  <1>0. Typed /\ Typed' /\ clock \in Nat /\ Validity \in Nat /\ Stall \in Nat
    BY TypeInv, AttestationAssumption DEF SigningInv, Typed
  <1>1. minted' = minted /\ issued' = issued
        /\ \A c \in Calls : /\ call[c].at = "reserved" => call'[c] = call[c]
                            /\ call'[c].at = "reserved" => call'[c] = call[c]
    <2>1. CASE UNCHANGED vars
      BY <2>1 DEF vars
    <2>2. CASE Next
      <3>1. minted' = minted /\ issued' = issued
        BY <2>2 DEF Next, Tick, Sign, Verify, SignStamp, VerifyDecode, VerifyRegister
      <3> QED
        BY <2>2, <3>1, <1>0, OthersCalls
    <2> QED
      BY <2>1, <2>2
  <1>2. clock' \in Nat /\ clock <= clock'
    <2>1. Tick => clock' = clock + 1
      BY DEF Tick
    <2>2. ~Tick => clock' = clock
      BY DEF Next, Sign, Verify, SignStamp, VerifyDecode, VerifyRegister, vars
    <2> QED
      BY <1>0, <2>1, <2>2
  <1>3. \A m \in minted : m.tok.exp \in Nat
    BY <1>0, TokenExp DEF Typed
  <1>4. \A x, u : Held(x, u) => Held(x, u)'
    BY <1>1 DEF Held
  <1>5. MintedHeld'
    BY <1>0, <1>1, <1>2, <1>3, <1>4 DEF SigningInv, MintedHeld
  <1>6. \A d \in Calls : Exclusive(d)'
    BY <1>0, <1>1, <1>2, <1>3, <1>4 DEF SigningInv, Exclusive, SameId
  <1>7. \A d \in Calls : Prompt(d)'
    BY OthersPrompt DEF SigningInv
  <1> QED
    BY <1>0, <1>5, <1>6, <1>7 DEF SigningInv

\* Two tokens of one service with one jti are never alive together, for any
\* number of services and calls, provided a call ends within the validity
\* period (UniqueLiveJti).
THEOREM LiveJtisAreUnique ==
  ASSUME PromptCalls
  PROVE  Spec => UniqueLiveJti
  <1>1. Init => SigningInv
    <2>1. Init => Typed
      BY AttestationAssumption DEF Init, Typed, Dictionary, Idle, NoReply, Registries
    <2> QED
      BY <2>1 DEF Init, SigningInv, MintedHeld, Prompt, Exclusive, Idle
  <1>2. SigningInv /\ [Next]_vars => SigningInv'
    BY ReserveSigning, MintSigning, FailSigning, OthersSigning
  <1>3. ASSUME SigningInv, [Next]_vars, ~ UNCHANGED vars, reply'.result = "signed",
               NEW m \in minted, reply'.svc = m.svc, reply'.tok.jti = m.tok.jti
        PROVE  m.tok.exp <= clock
    <2>1. PICK c \in Calls : SignMint(c)
      BY <1>3, WhoSigns
    <2>2. SameId(m.svc, m.tok, call[c].svc, call[c].tok) /\ call[c].at = "reserved"
      BY <1>3, <2>1, MintSigning DEF SameId
    <2> QED
      BY <1>3, <2>2 DEF SigningInv, Exclusive
  <1>4. SigningInv /\ [Next]_vars =>
          [\A m \in minted :
             /\ reply'.result = "signed"
             /\ reply'.svc = m.svc
             /\ reply'.tok.jti = m.tok.jti
             /\ reply'.tok.exp > clock
             => m.tok.exp <= clock]_vars
    BY <1>3
  <1> QED
    BY <1>1, <1>2, <1>4, PTL DEF Spec, UniqueLiveJti

-----------------------------------------------------------------------------
(* One key, one identity. *)

\* What a verifier knows of an accepted token: a candidate key made it, and
\* issuer and deployment are those the key is configured under.
Genuine(s, t) ==
  \E i \in Candidates[s] : /\ Entries[s][i].key = t.key
                           /\ Entries[s][i].iss = t.iss
                           /\ Entries[s][i].deployment = t.deployment

\* The peers are configured by issuer, and a service that lists its own issuer
\* among them gives it its own deployment.
OwnDeployment ==
  \A s \in Services : \A p \in Range(Config[s].peers) :
    p.iss = Config[s].issuer => p.deployment = Config[s].deployment

\* The own entry, if there is one, comes first, and the peers follow.
LEMMA EntriesOf ==
  ASSUME NEW s \in Services
  PROVE  /\ DOMAIN Entries[s] \subseteq Nat \ {0}
         /\ \A i \in DOMAIN Entries[s] :
              \/ /\ Entries[s][i].iss = Config[s].issuer
                 /\ Entries[s][i].deployment = Config[s].deployment
              \/ Entries[s][i] \in Range(Config[s].peers)
  <1> DEFINE entry == [iss |-> Config[s].issuer, key |-> Config[s].key,
                       kid |-> Config[s].kid, deployment |-> Config[s].deployment]
             own == IF Config[s].key = NoKey THEN << >> ELSE <<entry>>
             peers == Config[s].peers
             S == Range(peers) \cup {entry}
  <1>1. Entries[s] = own \o peers
    BY DEF Entries
  <1>2. entry.iss = Config[s].issuer /\ entry.deployment = Config[s].deployment
    OBVIOUS
  <1>3. peers \in Seq(Range(peers))
    BY AttestationAssumption
  <1>4. peers \in Seq(S)
    <2> HIDE DEF entry, peers
    <2> QED
      BY <1>3, SeqMonotonic
  <1>5. own \in Seq(S) /\ Len(own) \in Nat /\ \A i \in 1..Len(own) : own[i] = entry
    <2>1. CASE Config[s].key = NoKey
      BY <2>1
    <2>2. CASE Config[s].key # NoKey
      <3>1. own = <<entry>>
        BY <2>2
      <3>2. entry \in S
        OBVIOUS
      <3> HIDE DEF entry, S, own
      <3>3. <<entry>> \in Seq(S)
        BY <3>2
      <3>4. Len(<<entry>>) = 1 /\ <<entry>>[1] = entry
        OBVIOUS
      <3> QED
        BY <3>1, <3>3, <3>4
    <2> QED
      BY <2>1, <2>2
  <1> HIDE DEF own, entry
  <1>6. /\ DOMAIN Entries[s] = 1..(Len(own) + Len(peers))
        /\ \A i \in DOMAIN Entries[s] : Entries[s][i] =
             IF i <= Len(own) THEN own[i] ELSE peers[i - Len(own)]
    <2> HIDE DEF peers, S
    <2>1. Len(own \o peers) = Len(own) + Len(peers)
      BY <1>4, <1>5, ConcatProperties
    <2>2. \A i \in 1..Len(own \o peers) :
            (own \o peers)[i] = IF i <= Len(own) THEN own[i] ELSE peers[i - Len(own)]
      BY <1>4, <1>5, ConcatProperties
    <2>3. own \o peers \in Seq(S)
      BY <1>4, <1>5, ConcatProperties
    <2>4. DOMAIN (own \o peers) = 1..Len(own \o peers)
      BY <2>3, LenProperties
    <2> QED
      BY <1>1, <2>1, <2>2, <2>4
  <1>7. Len(peers) \in Nat /\ DOMAIN peers = 1..Len(peers)
    <2> HIDE DEF peers
    <2> QED
      BY <1>3, LenProperties
  <1>8. \A i \in DOMAIN Entries[s] : i > Len(own) => Entries[s][i] \in Range(peers)
    <2> HIDE DEF peers
    <2> QED
      BY <1>5, <1>6, <1>7 DEF Range
  <1>9. \A i \in DOMAIN Entries[s] : i <= Len(own) => Entries[s][i] = entry
    BY <1>5, <1>6, <1>7
  <1> QED
    BY <1>2, <1>5, <1>6, <1>7, <1>8, <1>9

\* The first candidate that verifies decides on the deployment.
LEMMA DecodedIsGenuine ==
  ASSUME NEW s \in Services, NEW t, NEW context, Fault(s, t, context) = "none"
  PROVE  Genuine(s, t)
  <1> DEFINE verifying == {i \in Candidates[s] : Attempt(Entries[s][i], t) = "verified"}
             first == CHOOSE i \in verifying : \A j \in verifying : i <= j
  <1>1. verifying # {} /\ ClaimsFault(t, Entries[s][first].deployment, context) = "none"
    BY DEF Fault
  <1>2. verifying \subseteq Nat
    BY EntriesOf DEF Candidates
  <1>3. \E i \in verifying : \A j \in verifying : i <= j
    <2> HIDE DEF verifying
    <2> QED
      BY <1>1, <1>2, LeastNatural
  <1>4. first \in verifying
    <2> HIDE DEF verifying
    <2> QED
      BY <1>3
  <1>5. t.deployment = Entries[s][first].deployment
    <2> HIDE DEF first
    <2> QED
      BY <1>1 DEF ClaimsFault
  <1> HIDE DEF first
  <1>6. first \in Candidates[s] /\ Entries[s][first].key = t.key
        /\ Entries[s][first].iss = t.iss
    BY <1>4 DEF Attempt
  <1> QED
    BY <1>5, <1>6 DEF Genuine

LEMMA GenuineAgree ==
  ASSUME NEW s \in Services, NEW t, NEW u, Genuine(s, t), Genuine(s, u), t.key = u.key
  PROVE  t.iss = u.iss /\ (OwnDeployment => t.deployment = u.deployment)
  <1> DEFINE e == Entries[s]
             Leads(j, i) == /\ j \in 1..i /\ e[j].key = e[i].key /\ e[j].iss = e[i].iss
                            /\ \A h \in 1..(j - 1) : e[h].key # e[i].key
  <1>1. PICK i \in Candidates[s] :
          e[i].key = t.key /\ e[i].iss = t.iss /\ e[i].deployment = t.deployment
    BY DEF Genuine
  <1>2. PICK k \in Candidates[s] :
          e[k].key = u.key /\ e[k].iss = u.iss /\ e[k].deployment = u.deployment
    BY DEF Genuine
  <1>3. i \in DOMAIN e /\ k \in DOMAIN e /\ i \in Nat \ {0} /\ k \in Nat \ {0}
    BY EntriesOf DEF Candidates
  <1>4. PICK j : Leads(j, i)
    BY DEF Candidates
  <1>5. PICK l : Leads(l, k)
    BY DEF Candidates
  <1>6. j = l
    BY <1>1, <1>2, <1>3, <1>4, <1>5
  <1>7. t.iss = u.iss
    BY <1>1, <1>2, <1>4, <1>5, <1>6
  <1>8. ASSUME OwnDeployment PROVE e[i].deployment = e[k].deployment
    <2>1. e[i].iss = e[k].iss
      BY <1>1, <1>2, <1>7
    <2>2. \A x \in {i, k} : \/ e[x].iss = Config[s].issuer
                               /\ e[x].deployment = Config[s].deployment
                            \/ e[x] \in Range(Config[s].peers)
      BY <1>3, EntriesOf
    <2> QED
      BY <1>8, <2>1, <2>2, AttestationAssumption DEF OwnDeployment
  <1> QED
    BY <1>1, <1>2, <1>7, <1>8

\* Only genuine tokens are decoded, and only decoded ones accepted.
GenuineInv ==
  /\ \A m \in accepted : Genuine(m.svc, m.tok)
  /\ \A c \in Calls : call[c].at = "decoded" => Genuine(call[c].svc, call[c].tok)

LEMMA GenuineStep == Typed /\ GenuineInv /\ [Next]_vars => GenuineInv'
  <1> SUFFICES ASSUME Typed, GenuineInv, [Next]_vars PROVE GenuineInv'
    OBVIOUS
  <1>1. CASE Tick \/ UNCHANGED vars
    BY <1>1 DEF Tick, vars, GenuineInv
  <1>2. ASSUME NEW c \in Calls, Sign(c) \/ Verify(c) PROVE GenuineInv'
    <2>1. ASSUME NEW entry, call' = [call EXCEPT ![c] = entry],
                 entry.at = "decoded" => Genuine(entry.svc, entry.tok),
                 \A m \in accepted' : m \in accepted \/ Genuine(m.svc, m.tok)
          PROVE  GenuineInv'
      <3>1. call'[c] = entry /\ \A d \in Calls : d # c => call'[d] = call[d]
        BY <2>1 DEF Typed
      <3> QED
        BY <2>1, <3>1 DEF GenuineInv
    <2>2. CASE SignReserve(c) \/ SignMint(c) \/ SignFail(c)
      <3>1. CASE SignReserve(c)
        <4>1. accepted' = accepted
          BY <3>1 DEF SignReserve
        <4>2. PICK s, t : \/ call' = [call EXCEPT ![c] = Idle]
                          \/ call' = [call EXCEPT ![c] = [at |-> "reserved", svc |-> s,
                                                          tok |-> t, read |-> call[c].read]]
          BY <3>1, ReserveStep
        <4>3. CASE call' = [call EXCEPT ![c] = Idle]
          BY <2>1, <4>1, <4>3 DEF Idle
        <4> DEFINE entry == [at |-> "reserved", svc |-> s, tok |-> t, read |-> call[c].read]
        <4>4. ASSUME call' = [call EXCEPT ![c] = entry] PROVE GenuineInv'
          <5>1. PICK r : r = call[c].read
            OBVIOUS
          <5> DEFINE reserved == [at |-> "reserved", svc |-> s, tok |-> t, read |-> r]
          <5>2. call' = [call EXCEPT ![c] = reserved] /\ reserved.at = "reserved"
            BY <4>4, <5>1
          <5> HIDE DEF reserved
          <5> QED
            BY <2>1, <4>1, <5>2
        <4> QED
          BY <4>2, <4>3, <4>4
      <3>2. CASE SignMint(c) \/ SignFail(c)
        <4>1. call' = [call EXCEPT ![c] = Idle] /\ accepted' = accepted
          BY <3>2 DEF SignMint, SignFail, Leave
        <4> QED
          BY <2>1, <4>1 DEF Idle
      <3> QED
        BY <2>2, <3>1, <3>2
    <2>3. ASSUME NEW s, NEW trace, NEW subject, NEW session,
                 SignStamp(c, s, trace, subject, session)
          PROVE  GenuineInv'
      <3> DEFINE t == [iss |-> Config[s].issuer, key |-> Config[s].key,
                       kid |-> Config[s].kid, deployment |-> Config[s].deployment,
                       jti |-> trace, exp |-> clock + Validity, subject |-> subject,
                       session |-> session, block |-> TRUE]
                 entry == [at |-> "stamped", svc |-> s, tok |-> t, read |-> clock]
      <3>1. call' = [call EXCEPT ![c] = entry] /\ accepted' = accepted
        BY <2>3 DEF SignStamp, Enter
      <3> HIDE DEF t
      <3>2. entry.at = "stamped"
        OBVIOUS
      <3> HIDE DEF entry
      <3> QED
        BY <2>1, <3>1, <3>2
    <2>4. ASSUME NEW s \in Services, NEW t, NEW context, VerifyDecode(c, s, t, context)
          PROVE  GenuineInv'
      <3> DEFINE entry == [at |-> "decoded", svc |-> s, tok |-> t, read |-> clock]
      <3>1. CASE Fault(s, t, context) = "none"
        <4>1. call' = [call EXCEPT ![c] = entry] /\ accepted' = accepted
          BY <2>4, <3>1 DEF VerifyDecode, Enter
        <4>2. Genuine(entry.svc, entry.tok)
          BY <3>1, DecodedIsGenuine
        <4> HIDE DEF entry
        <4> QED
          BY <2>1, <4>1, <4>2
      <3>2. CASE Fault(s, t, context) # "none"
        BY <2>4, <3>2 DEF VerifyDecode, GenuineInv
      <3> QED
        BY <3>1, <3>2
    <2>5. CASE VerifyRegister(c)
      <3>1. /\ call[c].at = "decoded" /\ call' = [call EXCEPT ![c] = Idle]
            /\ accepted' = accepted
               \/ accepted' = accepted \cup {[svc |-> call[c].svc, tok |-> call[c].tok]}
        BY <2>5 DEF VerifyRegister, Leave
      <3>2. \A m \in accepted' : m \in accepted \/ Genuine(m.svc, m.tok)
        BY <3>1 DEF GenuineInv
      <3> QED
        BY <2>1, <3>1, <3>2 DEF Idle
    <2> QED
      BY <1>2, <2>2, <2>3, <2>4, <2>5 DEF Sign, Verify
  <1> QED
    BY <1>1, <1>2 DEF Next

LEMMA GenuineInvariance == Spec => [](Typed /\ GenuineInv)
  <1>1. Init => GenuineInv
    BY DEF Init, GenuineInv, Idle
  <1> QED
    BY <1>1, GenuineStep, AttestationTypeCorrect, PTL DEF Spec, TypeOK

\* Whatever the configuration: the tokens a verifier accepts under one key
\* come from one issuer, though the key be registered under several.
THEOREM KeyHasOneIssuer ==
  Spec => [](\A m, n \in accepted : m.svc = n.svc /\ m.tok.key = n.tok.key
                                      => m.tok.iss = n.tok.iss)
  <1>1. Typed /\ GenuineInv =>
          \A m, n \in accepted : m.svc = n.svc /\ m.tok.key = n.tok.key
                                   => m.tok.iss = n.tok.iss
    BY GenuineAgree DEF GenuineInv, Typed
  <1> QED
    BY <1>1, GenuineInvariance, PTL

\* And from one deployment, unless the operator lists the verifier's own
\* issuer under another deployment (KeyHasOneIdentity).
THEOREM KeysAreIdentities ==
  ASSUME OwnDeployment
  PROVE  Spec => []KeyHasOneIdentity
  <1>1. Typed /\ GenuineInv => KeyHasOneIdentity
    BY GenuineAgree DEF GenuineInv, Typed, KeyHasOneIdentity
  <1> QED
    BY <1>1, GenuineInvariance, PTL

=============================================================================
