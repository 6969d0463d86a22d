# TLA+ specifications of qwed-a2a

qwed-a2a is a verification interceptor between AI agents: an agent posts a
message, the interceptor decides whether the sender may send at all, runs a
deterministic verification engine over the payload, signs the verdict as a
short-lived token, and the receiving agent verifies that token. These modules
model the parts of it that keep state and share it between threads, tasks,
callers and processes, and the algorithms of its engines, and prove what the
most important of those parts promise.

All source paths below are relative to `src/src/qwed_a2a/`.

    tlc -workers 2 -config EngineBudget_safety.cfg MCEngineBudget.tla
    tlapm EngineBudgetProofs.tla

## 1. The system and its parts

| Part | Where | State | Operations |
|---|---|---|---|
| Engine pool and budget | `interceptor.py` 237-261, 429-498 | a bounded semaphore, a thread pool with its queue, per run a future and an event | `_run_engine`, its `job`, `close` |
| Trust boundary | `security/trust_boundary.py` | blocked agents and pairs, grants, token buckets, two eviction throttles; one re-entrant lock | `evaluate`, `trust_agent`, `revoke_agent`, `block_agent`, `block_pair`, `unblock_pair`, `load_from_env`, `is_trusted` |
| Attestation | `security/crypto.py` | per service the issuance record of trace ids and the consumption registry of token ids, each a `JtiRegistry` with its own lock | `sign_verdict`, `verify_attestation` |
| Intercept pipeline | `interceptor.py` 257-426, 1142-1215 | none of its own | `intercept`: size cap, trust, engine, verdict, signature, record |
| HTTP gateway | `protocol/endpoints.py` | the interceptor singleton under its lock; the API keys and the trusted agents in the environment | the body limit, `require_agent_identity`, `intercept_message`, `get_interceptor`, `configure_interceptor`, `jwks_endpoint`, health, metrics |
| Signing key | `security/crypto.py` 583-637 | one key pair per crypto service, read on first use | `_ensure_key_pair` |
| Finance guard | `interceptor.py` 549-721 | a running total in Decimal | `_verify_financial`, its validation |
| Logic guard | `interceptor.py` 723-825, 913-945 | the claims read so far, by polarity | `_verify_logic`, `_normalize_claim` |
| Code guard and name bindings | `interceptor.py` 65-198, 843-1140 | per scan the bindings of every name, and a worklist | `_verify_code`, `_Bindings`, `_scan_ast_*` |
| Wire schema | `protocol/schema.py` | none | field validation |
| Telemetry | `utils/telemetry.py` | counters | `record_intercept` |

**How they interact.** The gateway holds one interceptor and hands it every
authenticated message. `intercept` first asks the trust boundary (a call under
its lock, decided before anything else is spent), then awaits `_run_engine`,
then builds a verdict and lets the crypto service sign it; each of the three is
called once per message and in this order, so what one decided may be stale
when the next one acts. Worker threads and the event loop share the semaphore,
the pool's queue and the run's event. Administrators call the trust boundary
from any thread. Several worker processes of one issuer may share a consumption
registry, and a service may verify the tokens of trusted peers.

**What is hard to get right, part by part, and what makes it correct.**

*Engine pool.* A slot is taken on the event loop and given back on a worker
thread, or on the event loop when `submit` fails. In between the caller may
time out, be cancelled, or see the pool closed, in any order with the job's own
progress. Correct means: slots are conserved; no more runs are in flight than
slots; an abandoned run does not reach an engine; the `None` of a skipped job is
seen by nobody; every caller is answered even if no engine ever returns; and
every slot comes back if engines do return.

*Trust boundary.* Nothing is ever cleaned up when it becomes stale: buckets
refill only when they are used, cold buckets and expired grants go only when a
throttled look finds them, and grants expire on another clock than buckets.
Correct means that none of this laziness shows: answers are those of a boundary
with perfect memory, no window of time lets more through than the rate allows,
a refused caller cannot make the dictionaries grow, and blocking an agent
leaves no grant behind.

*Attestation.* The clock is read by `sign_verdict` for the claims and by the
issuance record for its retention; by the decoder for `exp` and by the
consumption registry for its eviction. Two calls can be suspended between any
two of these. Correct means: a live token is accepted once behind one registry,
a token is called a replay only if it was accepted before, a trace id names one
live token, a failed signing burns no trace id, and a key speaks for one issuer
and one deployment.

*Pipeline and gateway.* A request asks for the interceptor twice, once for the
limit of its body and once to be handled, and waits in between; the key map is
read in between on another thread; the engine is awaited; then the signing key
may be missing. The interceptor can be replaced at each of these points.
Correct means: a message is judged as one sender's, and that sender owned the
request's key; what reaches an engine is within the limits of the interceptor
that runs it; no request is handled by an interceptor older than the one it
found; nothing goes out unsigned that verified something; one interceptor signs
with one key, the one it publishes; and the metrics count every verdict that was
returned, once, and of those that were not none but a blocked one whose answer
failed after it was counted.

*Guards.* They are functions of the payload, each with an algorithm that is easy
to get wrong. Decimal is floating-point, so a sum is rounded at every step:
correct means that rounding never turns a wrong total into a verified one by
more than it must, and not at all while the digits suffice. Claims are compared
after a chain of normalizations whose order matters: correct means that equal
looks give equal keys, and that a key is its own key. The code guard propagates
bindings by a worklist: correct means that it ends, in the least fixed point,
and that no order of the program's statements reaches a dangerous call that the
scan has missed, other than by a way that the code leaves open: of those it
lists (865-870), the statements modelled here have one, a module found in
another module.

Every hazard we know of, with the line at which it bites and the properties that
cover it, is listed in `PROJECT.json` under "hazards".

## 2. The modules

| Module | What it is |
|---|---|
| `EngineBudget` | `_run_engine` as the interleaving of callers, worker threads and the event loop |
| `EngineGate` | what `_run_engine` promises: a gate with a capacity, no threads or futures |
| `TrustBoundary` | the trust boundary, one action per locked method |
| `TrustPolicy` | what `evaluate` promises, with perfect memory and no eviction |
| `TrustRate` | `TrustBoundary` with the history of allowed calls |
| `Attestation` | signing, verification and the replay registries |
| `Gateway` | a request to `/a2a/intercept`, from its arrival to its answer, among reconfigurations, key set queries and rotations |
| `Guard` | the payload and the result that the guards share |
| `Finance`, `Logic`, `CodeGuard` | one guard each, with its properties |
| `Engines` | `_route_to_engine`: the guards composed, one message per behaviour |
| `MC*` | instances for TLC |
| `EngineBudgetProofs`, `TrustBoundaryProofs`, `TrustRateProofs`, `AttestationProofs`, `GatewayProofs`, `EnginesProofs` | theorems about these components, with proofs for TLAPS |
| `GuardProofs` | lemmas on what the operators of `Finance` and `Logic` compute, for `EnginesProofs` |
| `NaturalFacts` | least elements and iteration, the two facts that data of any length is reasoned about with |

`Engines` extends the three guards, each of which extends `Guard`. `Gateway`
stands above `EngineBudget`, `TrustBoundary` and `Engines` by what it takes from
them: a run holds one of `Slots` slots until its engine ends, waited for or not
(what `EngineGate` promises); a sender may be refused for any reason, but is
admitted only if it is trusted; and an engine ends with any of `Outcomes`. It
does not instantiate them: the product of their states is beyond TLC.

### EngineBudget: the model and the code

A member of `Runs` is one call of `_run_engine`. `caller[r]` is the program
point of its coroutine, `job[r]` that of its job on the pool, `outcome[r]` what
the job's future holds, `seen[r]` whether the event loop has copied it to the
wrapped future (`result`), and `abandoned[r]` the event.

| Action | Code |
|---|---|
| `Acquire` | the non-blocking acquire; `_EngineBusyError` |
| `SubmitAccepted`, `SubmitRefused` | `submit`, on an open pool and on one that was shut down |
| `SubmitLost` | `submit` on a pool that cannot start a thread: `ThreadPoolExecutor` puts the work item into its queue before it starts the thread |
| `JobStart` ... `JobDone` | a worker thread takes the job, checks the event, runs the engine, releases the slot in `finally`, and completes the future - in this order, so the slot is free before the caller can know |
| `Deliver` | `call_soon_threadsafe` carries the future's end to the loop |
| `Resume` | `wait_for` returns the result or raises the engine's error |
| `Expire`, `GiveUp` | the timer of `wait_for` fires; the `except` clause then looks at `result`, which may be done by now |
| `Cancel` | the awaiting task is cancelled |
| `Close` | `shutdown(wait=False)`: what is queued still runs |

`GateSpec` is the refinement: with `inflight` the runs that hold a slot and
`said` the callers' answers, every step of the pool is a step of the gate or a
stutter.

### TrustBoundary: the model and the code

Every public method holds the lock from its first to its last line, so it is one
action, with one reading of each clock. `wall` is `time.time()` and can be stepped;
`mono` is `time.monotonic()` and cannot. Time advances in ticks, `Minute` of
them in 60 s, and tokens are counted in parts of 1/`Minute`, so that refilling
is exact. `Admit` is the whole path of `evaluate` behind the trust decision:
eviction of expired grants, eviction of cold buckets, creation, refill and
consumption, in one step. `Reject` is the path before it and evicts nothing.
Dictionaries are functions whose domain is the set of their keys.
`load_from_env` is modelled by the batch of grants its parser yields; granting
a batch or one agent is the same operator, as in the code.

### Attestation: the model and the code

| Action | Code |
|---|---|
| `SignStamp` | `sign_verdict` up to the first clock reading: claims are built |
| `SignReserve` | the issuance record's `check_and_register` |
| `SignMint`, `SignFail` | `jwt.encode` succeeds, or raises and the reservation is rolled back |
| `VerifyDecode` | the candidate keys in order, `exp`, issuer, `kid`, then the claims: structure, deployment, context, session, jti |
| `VerifyRegister` | the consumption registry's `check_and_register` |
| `Tick` | time passes, though no call in progress takes longer than `Stall` |

`check_and_register` reads the clock before it takes its lock, so its locked
section may use a reading from any time since the call began (`Readings`) and
find what calls with later readings have left. `Live` and `Registered` are that
section's `_evict` and update; `RegistryKey` is
the namespacing of peers' ids; `Entries` is what a verifier may look a key up in,
its own key first, and `Candidates` is `_candidate_keys` on it, with the rule
that a key registered under several issuers speaks for the first.

### Gateway: the model and the code

An interceptor is a record in the sequence `interceptors`, in the order in which
they were made; `interceptor` is the index of the current one. `request[r]` holds
a request's program point `at` and its local variables.

| Action | Code |
|---|---|
| `Arrive` | `_BodySizeLimitRoute`: `get_interceptor` for the limit; `Content-Length` |
| `ReceiveBody` | `_capped_receive` and the parser: 413, 400, or the whole body |
| `Authenticate` | `require_agent_identity`, which reads the key map afresh; the schema (422); the overriding of `sender_agent_id` |
| `Handle` | `intercept_message`: `get_interceptor` again |
| `Intercept` | `intercept` up to its `await`: size, trust, and a slot or `_EngineBusyError` |
| `EndRun` | the job on its thread ends and gives its slot back, whoever waits |
| `Resume`, `TimeOut` | the `await` returns or raises; the verdict's status is fixed |
| `Sign` | `_build_verdict`, `_record` and the answer, in one step since nothing in them awaits; 200; 503 without a key, before `_record`; 500 if `model_dump` or the rendering fails, behind it (`Rendered`) |
| `Configure`, `Swap` | `configure_interceptor` up to its lock, and behind it |
| `Jwks` | `jwks_endpoint`: the key of the current interceptor, made if need be |
| `RotateKeys` | the operator changes `QWED_A2A_API_KEYS`: a key gets another owner, or none |

`get_interceptor` makes the singleton on its first use and assigns it before its
agents are loaded. When loading raises, the request that made it ends in a 500
(the route handler has no `except` around it) and the interceptor stays, with
the agents read so far (`Loaded`). A list that cannot be loaded is possible:
`_parse_valid_until` lets an `OverflowError` of `math.isfinite` through, for an
integer too large for a float. `turn` and `owners`, `since` are history, for
`FreshInterceptor` and `SenderOwnedKey`.

What can fail between `_record` and the answer is the turning of the verdict into
JSON. All of a verdict is made by the service except what an engine quotes of
the payload, and only the logic guard's contradictory claims go out as they came
(`interceptor.py` 813, in the verdict's `details`): a claim
with a lone surrogate in it is a `str` that JSON text yields and UTF-8 does not
have. So `Rendered` may raise for what an engine has blocked (in the model any
engine: which one it was is not kept), and for nothing else. The names of agents
are taken to be text that can be encoded: the schema sees to it for receivers, and
senders come from the environment.

### Finance, Logic, CodeGuard, Engines: the model and the code

A behaviour of `Engines` is one run of `_route_to_engine` on one payload.

| Definition | Code |
|---|---|
| `RefuseBill`, `ValidBill` | `_validate_financial_payload`, `_validate_line_item` |
| `AddItem` | one turn of the summing loop, with the rounding of Decimal to `Precision` digits, half to even |
| `Compare` | both `quantize`s and the tolerance. The total's `quantize` is outside the `try`: too many digits raise there, and make the claim unverifiable in the other |
| `ReadAssertion`, `FindContradictions` | one turn of the loop over the assertions; the intersection behind it |
| `Normalize` | `_normalize_claim`, with its fast path: `Visible`, `NFKC`, `Lower`, `Split` over eleven characters, one for each kind that is treated in its own way. A form (`Lower`, `CompatibilityForm`) maps each character by itself; `Strip`, `Compose` and `Separate` read a text from left to right (`Rewrite`) |
| `Collect` | the walk over the tree: imports become bindings, assignments edges |
| `Propagate`, `Push`, `Follow` | one turn of `propagate`'s loop, for any element of the worklist |
| `Scan`, `CallThreat`, `GetattrThreat`, `ImportThreat` | the look-up of the calls, the imports, the patterns |
| `RunProgram` | not this repository's code: a receiver runs a program that passed, its statements in any order and any number of times. `Elsewhere` says which attributes of modules are other modules or members of other modules, and `borrowed` holds the names whose objects were got by way of one |

Amounts are integers, in units of which ten make a cent, or fields that are
malformed or missing; a negative amount is refused. `Precision` is 28 in the
code and 3 in the run, so that three items reach it. `IsBill`, `IsSpeech` and
`IsProgram` say what a payload of each type may be. `propagate` pops the last
element of a list; which one that is depends on the order in which sets are
iterated, hence any element in the model. Statements are sets: the bindings do
not depend on their order, by design.

### Abstractions

- In `EngineBudget` and `Gateway` engines are a choice of outcome. What they
  compute is in `Engines`.
- The budget is not a number: `Expire` may happen whenever a caller waits.
- Token buckets hold exact fractions instead of floats; rounding is left out.
- Signatures are perfect. A token verifies under the key that made it, and
  nobody else makes one. Sender, receiver and payload hash are one value,
  `subject`.
- The candidate loop of `verify_attestation` reads one clock value; the code
  reads the clock once per candidate whose signature matches.
- In `Attestation` the wall clock does not go back. With a clock that is
  stepped back a token may become valid again after its slot was evicted, which
  no registry of this design can prevent.
- Refusals that come before any state is touched (an unknown verdict, a missing
  signing key, malformed configuration) are guards, not actions.
- In `Gateway` the trust boundary is a set of agents and a free choice to refuse,
  and bodies have one size, of which the envelope is a negligible part: the
  allowance only makes the first limit wider than the second.
- The environment's signing key is not a variable: reading it gives any key or
  none, at any time. That is coarser than a rotation, and sound for what is
  checked. `QWED_A2A_TRUSTED_AGENTS` does not change in a behaviour.
- All refusals from 400 to 499 are one code. What of FastAPI and pydantic comes
  before the handler is a choice between going on and a refusal.
- The syntax of programs is reduced to the statements and calls that the walk
  over the tree yields; a regular expression matches or does not (`pattern`).
- A program of `CodeGuard` is made of imports, assignments from a name or from
  one attribute of it, and calls of a name, of one attribute of a name, or of `getattr`
  with a name and an attribute. Of what the code lists as out of its reach
  (`interceptor.py` 865-870) there are the modules reached through objects as
  far as these objects are modules; callees that are expressions, the bindings of
  `for`, `with` and arguments, and modules that are not in the tables cannot be
  written in these statements. Results of calls are not followed.
- Decimal's exponents are unbounded in the model: an overflow raises in the
  sum in the code and is met at `quantize` here, with the same result.
- Logging and messages are left out.

## 3. The runs

| Run | Bounds | Shows |
|---|---|---|
| `engine_safety` | 2 threads, no waiting place, 3 runs | slots are conserved, `None` is never seen, abandoned runs never start, and the pool implements `EngineGate` |
| `engine_live` | 1 thread, 1 waiting place, 3 runs, thread starts may fail | types hold and lost submits are the only source of surplus slots; every call is answered even if engines never return; slots come back and accepted runs finish if they do |
| `engine_lost` | 1 thread, 1 waiting place, 3 runs, thread starts may fail | a finding (below) |
| `engine_misreport` | the same, thread starts do not fail | a finding (below) |
| `trust_rate` | both directions of one pair, 2 calls a minute in half-minute ticks, 6.5 minutes | the limiter with lazy refill, creation and eviction gives the answers of `TrustPolicy`; cold buckets go |
| `trust_decision` | 2 agents, 4 kinds of grant, a batch, 2 pairs, the strict default, the wall clock may leap | answers under scopes, expiry, blocks and eviction are those of `TrustPolicy`; blocked agents hold no valid grant; rejected calls leave no trace |
| `trust_window` | one pair, 1 call a minute, 6.5 minutes of history | no window holds more allowed calls than burst and rate pay for |
| `attest_workers` | 2 workers, 1 registry, 2 calls, 1 trace id, tokens that live 2 ticks, calls take up to 1 | the promises of signing and verification under interleaving |
| `attest_peers` | 1 service, 2 peers, a rotated `kid`, a key under two issuers | one identity per key; ids of issuers do not shadow each other |
| `attest_boundary` | as `attest_workers` | a finding (below) |
| `engines` | bills of up to 3 items, messages of up to 3 claims of up to 3 characters, programs of up to 3 statements and a call | what the three guards decide, against definitions that do not use their algorithms; every scan ends; programs that pass do harm in no order of their statements, unless through what they borrowed from another module |
| `gateway` | 2 requests, 2 agents, 1 API key that changes hands and is revoked, 2 signing keys, 2 interceptors, 1 slot | what a request is judged, limited, signed and counted by, through rotations and reconfigurations |

The wall clock stepped back is in no run: `BlockedNeverTrusted` holds for it by
`BlockedAreUntrusted` (section 4).

**Why the bounds suffice.** *Engine:* with two slots the third run meets a full
pool, a slot freed by a job whose caller is gone, and a queue whose first run is
abandoned; with one thread a run really waits; with two threads two jobs finish
in either order. `EngineOutcomes` is a single value in `engine_live`, whose
properties do not look at what engines return. *Trust:* a bucket goes cold after five minutes and a look is
throttled for one, so the histories of more than six minutes contain an
eviction, a throttled look, and calls after both; with two ticks a minute a
bucket holds half tokens. Grants that end at tick 1 and 2 expire before and
after the looks at tick 1, 2 and 3. *Attestation:* a token that lives two ticks
can be stamped, reserved a tick later by an old reading, and still be alive; three ticks are enough
for it to expire, be evicted, and for its trace id to be used again. Two calls
suffice for any race between two steps of one method and the whole of another,
and two workers for a shared registry. *Gateway:* two requests are enough for one
to hold the slot the other wants, and for one that arrived before a swap to be
handled after it. The default takes more (4 and an allowance of 1) than the
configured interceptor (2), and bodies are of 2 and 4: both handle the smaller
one; the larger one is stopped by the router after a swap, and has passed it
when the swap comes in between, so that the payload limit must refuse it. The configured interceptor trusts an agent of
its own, so that a swap changes who is admitted; the list of the environment has
an entry that cannot be loaded, or not. The key map is empty once the key is
revoked. Engines verify, block, verify nothing or raise, which are the outcomes that
signing, rendering and counting treat in different ways. The second swap would only repeat the
first, hence `MaxInterceptors`. The run has 2 032 972 states. *Engines* (114 891 states): with three digits and ten units in a
cent, amounts lie on both sides of every edge: half a cent, the first
lost digit, and the first total that cannot be quantized. Claims of three
characters hold any two kinds of character with a third between them. Three statements are the
shortest cycle with an entry, and a chain over every name; attributes are
followed at most once, so longer chains repeat what shorter ones do. `posixpath` has `os` in it and `os` has `posixpath`, so that a dangerous module can
be imported from another one, found in one that is known or not, and found again
by way of both. The names
have a module that needs no import (`__builtins__`), one that does, and a dangerous
call of their own. The bounds are `MaxMono`, `WallSteps`
and, for the wall clock, the window `-MaxMono..2 * MaxMono` in `StepWall`;
`MaxClock` and `Stall`; `MaxInterceptors`; and the sets `Runs`, `Pairs`, `Grants`, `Batches`,
`Traces`, `Calls`, `Foreign`, `Requests`, `KeyMaps`, `TrustLists` and `Payloads`.

Symmetry is used in the safety runs of `EngineBudget` over runs, in those of
`Attestation` over workers and over calls, and in `gateway` over requests and
signing keys: no definition tells them apart. No run of a liveness property uses
it. The runs of the pool, of the engines and of the gateway do not check for deadlock:
a call, a message and a request are each answered once, and when all are
answered and worked off nothing is left to do. The other runs do.

**Fairness.** `LoopFairness` says that the event loop runs: a coroutine that
can proceed is resumed, the timer of `wait_for` fires, and a finished job's
callback is delivered. asyncio guarantees that as long as no callback blocks,
and `_run_engine` exists to keep engines off the loop. Nothing is assumed of
the worker threads in `LiveSpec`: an engine that never returns is a behaviour of
it, and `EveryCallAnswered` holds there because waiting callers are rescued by
`Expire` alone. `SlotsComeBack` and `PendingRunsFinish` promise something of the
threads and so have a premise, `WorkersTerminate`: the operating system runs the
pool's threads and every engine ends. The code cannot kill an engine and says so
("a run that already started cannot be killed"); without the premise both
properties are false. `PendingRunsFinish` is about runs whose caller was not refused: a run whose
submit was lost was answered with an error, and may stay in the queue when no
thread is left to take it. Cancellation, closing and new calls are not fair.

`Engines` assumes weak fairness of the code guard alone: an engine has a thread
to itself and waits for nothing, so it takes its next step as long as it has
one. `EveryProgramDecided` then rests on the worklist, which must not grow again
for ever. The other two guards go through a list once. `Gateway` states no
fairness: that a call of `_run_engine` is answered is `EveryCallAnswered`, and
the steps around it wait for nobody but the client.

## 4. What is proved

Each theorem holds for every value of the constants under the assumptions named
in the modules; the runs check the same properties on small instances. Every
invariant and every action property of a passing run, and both refinements, has a
theorem. Each is listed with its property in `PROJECT.json` under "theorems".

**`EngineBudgetProofs`**, from `EngineAssumption` (at least one thread)
alone; the set of runs may be infinite. `TypeCorrect` and `SlotsAccounted` hold even when thread
starts fail; `InFlightBounded` (the docstring's bound), `AbandonedSkipped` and
`ImplementsGate` when they do not; `NoNoneAnswer` in both cases. Slot accounting
is not inductive: a release in the middle of a job must be known to belong to a
run that holds a slot. The invariant `IInv` adds `RunOK`, which relates the
program points of one run (which pairs of `caller` and `job` exist, and when
`outcome`, `seen` and `abandoned` are set), and `QueueOK`, which says that the
queue holds queued jobs only, and each once. Three lemmas then carry the counting
over a step that takes a slot, gives one back, or loses a submit.

**`TrustBoundaryProofs`**, from `TrustAssumption`. `TrustInv` is the types with
bounded tokens, `last_refill` not in the future, and no grant for a blocked
agent; it gives `TrustTypeCorrect` and `BlockedAreUntrusted`, for a wall clock
that is stepped anyhow, back as well as forward. `ColdInv` adds that no bucket was older than the
eviction TTL at the last look, and gives `OnlyWarmBuckets`. `RejectionsAreSilent`
is the action property: a call that trust turns away changes no grant, bucket or throttle.

`BoundaryKeepsPolicy` is the refinement of `TrustPolicy`, step by step: the
boundary's buckets, refilled and evicted lazily, hold the tokens of a policy
which refills all of them at every tick and never forgets one, because a bucket
that is evicted, or not there, is full; and a grant that is still stored although
it has expired admits nobody. It assumes `ForwardOnly`, that the wall clock is not
stepped back, and it must: a grant that expired, but was not evicted, is good again
on a clock that was stepped back, while the policy has forgotten it.

**`TrustRateProofs`**: `RateLimited`. `WindowBound` speaks about pairs of past
calls and says nothing of the bucket, so it is not inductive. `Balance` is the
missing link: for each allowed call, the calls since then plus the tokens left
now cost at most the burst plus what the time since then has paid. A tick adds
at most as much to the left side as to the right, an allowed call moves tokens
from the bucket to the calls, and eviction keeps `Level` because a bucket that
has been idle for five minutes is full.

**`AttestationProofs`**, from `AttestationAssumption` (services that share a
registry have one issuer, and a registry remembers at least as long as a token
lives, which the constructor checks). `AttestationTypeCorrect` is about dates as
well as types (`Dated`): no reading is of the future, and no entry of a registry
outlives what the registry may retain from now on. `RegistryInv` adds to the types that every
accepted token has expired or is still remembered, for at least as long as it
lives, and that every registry entry is justified by a token that was accepted.
The first half gives `TokensAcceptedOnce`, for any number of workers, calls and
any suspension, and for readings as old as a call; the second gives `ReplaysAreReal`.

On the signing side `DuplicatesAreReal` rests on the justification of every
reservation: by a token that was minted from it or by a call that is between
`SignReserve` and its end, so that a failed call leaves none behind. `LiveJtisAreUnique`
needs more, and `PromptCalls` (`Stall < Validity`: a call is over before the
token it signs could expire): a reservation then outlives both the call that
made it and the token, and no other call can have made the same one meanwhile.
The premise is not for convenience. With `Stall = Validity = 2` TLC finds the
property violated: a call that fails that late rolls back the reservation which
another call has made of the same trace id by then. A token lives for five minutes by
default and a signing takes no `await`, so the premise is a mild one.

`KeyHasOneIssuer` holds for every list of trusted issuers, since a key speaks for
the first issuer it is registered under. `KeysAreIdentities` adds the
deployment, if `OwnDeployment`: the list does not have the verifier's own issuer
under another deployment. Such an entry would be admitted by the rule and
make two deployments of one key if it has the verifier's own key; it is an operator's contradiction that nothing checks.

**`GatewayProofs`**, from `GatewayAssumption`: what the environment and the
configurations may hold; any number of requests, agents and reconfigurations
(`MaxInterceptors` is not assumed to be anything). None of the properties is
inductive, since each speaks of one program point only. `IInv` is what the
others need to know of each other: `RequestOK` says of every program point what
a request knows there - that the interceptor it will be given is no older than
the one it found (`Waiting`), that its sender and its interceptor are settled
(`Handled`), that an answer is final (`Answered`) - and `HoldsSlot`, that only a
request which got past `Intercept` holds a slot, and with what it was admitted.
`Persists` then says once what a step may do to the interceptors (`Grows`: their
configuration, their key and their order stay) without disturbing a request
that does not take part in it; `BothStep`, `QuietStep`, `GetStep` and
`ServiceStep` are its forms for the steps that change one request, one
interceptor, or both. `Counted` is `MetricsAreVerdicts` with the finiteness of
the set of verdicts: the requests may be infinitely many, the answered ones are
not. `GatewayTypeCorrect`, `SenderOwnsKey`, `AdmittedByItsHandler`,
`SignedUnlessUnverifiable`, `TokensUnderOneKey`, `HandledByFresh` and
`MetricsCountVerdicts` follow, one for each property of the run.

**`EnginesProofs`**, from `EnginesAssumption` (what a payload may be, of any
size) and the assumptions of the guards: `CodeGuardAssumption` on the tables of
dangerous names, `FinanceAssumption` (a cent is a power of ten in units),
`LogicAssumption`. Four invariants, one for each question:

- *Programs* (`CodeInv`). `Pushed` says that what a name may be is passed on
  along every assignment from it, or is on the worklist; so the bindings are
  closed when the worklist is empty. `Denoted` says that what a name really
  denotes while the program runs is among its bindings if it is dangerous at all. With
  `ScanClean`, what a clean scan has ruled out, they give `HarmNeedsBorrowing`, for any tables, any number of statements and
  any order of running them. `Denoted` speaks of the names that are not
  `borrowed`: what came out of a module to which it does not belong has no
  binding (`_tracked`), and an object derived from it is borrowed too. The theorem says that this is
  the only way past the scan; it does not say that the way is closed. `EnginesTyped` says with it that a binding is
  always one the tables allow.
- *The worklist.* `WorklistFindsLeast` has two halves. No binding comes from
  nowhere: each has a chain of assignments (`LeastInv`). And no chain needs to be longer
  than twice the number of statements: along a chain a binding changes once at
  most, so that a chain which uses an assignment more than twice comes back to a pair
  it had, and can be cut (a pigeonhole argument). `PropagationGetsOn` says that every turn of the
  loop finds a binding or uses up an element of the worklist, whichever it takes.
- *Sums* (`BillInv`). After every item the total, as long as its cents fit into
  `Precision` digits, differs from the exact sum by half a cent at most per
  rounding (`SumSound`), and not at all while the exact sum has no more than
  `Precision` digits. `VerifiedClaimsAreClose` and
  `SmallSumsAreExact` follow from that and from what `HalfEven` and `Cents` can
  be off by.
- *Claims* (`SpeechInv`). What has been read holds the keys of the assertions so
  far, by polarity, and all of them were well-formed. With `KeyIsAppearance` -
  the key is the composed form of the appearance, and the appearance that of the key - this gives
  `LookAlikesContradict`: the decision over messages and claims of any length. It assumes that
  the engine is on; otherwise the answer is always `unverifiable`. `KeysStay` says that a
  key is its own key: on the fast path, the full one, or one after the other.

`GuardProofs` has what these need of the operators. Texts, sums and powers are
data of any length, and the provers have no induction; so each of these lemmas
takes the least counterexample (the lemma `LeastNatural` of `NaturalFacts`) and shows that
there is a smaller one. That a recursive function is what its definition says
is the lemma `Iteration` (and `RewriteSteps`, for `Rewrite`). Powers of ten are the function `TenTo` in
the model for the same reason: the provers know nothing of `^`. `Normalize` is
handled through `Neat`, what a text is after one rule, which the next one
keeps (`NormalizeKeeps`), and through `SeenEnds` and `SeenSeparated`, what a
reader sees of a text that one rule has changed.

Only model-checked: the liveness properties, `EveryCallAnswered`, `SlotsComeBack`,
`PendingRunsFinish` and `EveryProgramDecided`, which are out of the prover's
reach, and the properties of the runs that are findings. For
`EveryProgramDecided`, `PropagationGetsOn` is the step on which termination
rests; that a measure which gets less at every turn ends needs fairness, and so is left to TLC.

## 5. Findings

- `engine_lost`: when the pool cannot start a thread, `submit` raises after it
  enqueued the job. `_run_engine` gives the slot back, the job still runs on a
  thread that exists already, and gives it back again. More runs are then in
  flight than the docstring allows (`interceptor.py` 436-439, 463-467).
- `engine_misreport`: the budget runs out in the loop turns in which an engine's
  exception is delivered and its caller has not resumed. Either comes first: the
  timer, with the exception delivered before the `except` clause looks at the
  future (TLC's trace), or the exception. The caller sees `TimeoutError` as if
  the engine had raised it, although it raised something else
  (`interceptor.py` 490-495).
- `attest_boundary`: a token decoded just before its `exp` and registered after
  it finds its slot evicted, and is accepted a second time (`crypto.py` 92-94,
  1068). While it is unexpired, it is accepted once: `AcceptedOnce`.

Observed while modelling, and contradicting nothing that the repository says or
of no consequence:

- `propagate`'s docstring says that each (name, binding) pair is processed once
  (`interceptor.py` 141). A pair that a name has implicitly and also gains along an
  assignment is processed twice; the second time adds nothing.
- Sums of more than 28 digits depend on the order of the items, and a total whose
  cents need more than 28 digits raises, which becomes an `error` verdict, while
  such a claim next to a smaller total is `unverifiable`.
- A reconfiguration forgets the blocks, grants and buckets made at runtime.
- A list of trusted agents that raises while it is loaded fails one request, and
  leaves a singleton with a part of the list for all later ones.
- A sender that is blocked while its engine runs still gets its verdict.
- Contradictory claims with a lone surrogate in them are blocked, signed and counted,
  and answered with an error 500, since the verdict quotes them and cannot be encoded.
- `from posixpath import os as o` gives `o` no binding, and `o.system()` passes the
  scan: one of the ways the code knows of and the reason why a clean scan is
  only `heuristic_pass` (`interceptor.py` 865-870).
- On a wall clock that is stepped back, a grant that had expired and was not yet
  evicted admits again.

## 6. What is not modelled, and why

- The wire schema: validation of single values, without state; `Gateway` has the
  statuses and the two configuration values that requests depend on.
- The parser and the regular expressions of the code guard: the standard
  library's, or text matching without interaction.
- A payload that cannot be serialized (`interceptor.py` 286): only library callers
  can pass one.
- Clients that disconnect: the framework cancels the handler, which for the pool is
  `Cancel` in `EngineBudget`.
- Several event loops over one set of metrics, which the service does not have.
- `JtiRegistry` across a restart: the registries live in the process, by
  their docstring; a persistent one is outside this repository.
- Key generation, PEM and JWKS encoding, `/health`, logging, Sentry.

## 7. Plan

Done: the stateful parts with their abstract specifications; the gateway with
the pipeline; the three guards; and a theorem for every safety property that a
run checks. What is left:

1. The number of turns: a history variable for `propagate`'s turns, and the
   bound on it that `PropagationGetsOn` suggests, names times bindings and the
   initial worklist.
2. `SlotsComeBack` and `PendingRunsFinish`: the safety facts they rest on (a
   slot in use has a job that can take a step; a queued run has a thread that will come
   for it), as invariants.
3. The pipeline against its parts: that the slots of `Gateway` are those of
   `EngineGate` and its admissions those of `TrustPolicy`, which the text above
   argues and no theorem states.
