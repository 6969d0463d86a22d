------------------------------ MODULE Engines ------------------------------
(***************************************************************************)
(* _route_to_engine: what a worker thread of the engine pool computes for  *)
(* one message.  The three guards take their turns on payload and result;  *)
(* a type without an engine, or with its engine switched off, passes       *)
(* through as unverifiable.                                                *)
(***************************************************************************)
EXTENDS Finance, Logic, CodeGuard

CONSTANTS Payloads,    \* the messages' payloads, each with its type
          Enabled      \* the payload types whose engine is switched on

ASSUME EnginesAssumption ==
  \A p \in Payloads : /\ p.type = "financial_transaction" => IsBill(p.data)
                      /\ p.type = "logic_assertion" => IsSpeech(p.assertions)
                      /\ p.type = "code_execution" => IsProgram(p.code)

engineVars == <<payload, result, billing, logic, scanning>>

Members == (UNION {Receivers[m] : m \in DOMAIN Receivers})
             \cup CallNames \cup {"getattr", None}

Bindings == (DOMAIN Receivers) \X Members

TypeOK ==
  /\ result \in Results
  /\ summed \in Nat /\ total \in Nat /\ exact \in Nat
  /\ read \in Nat
  /\ stage \in {"collect", "propagate", "scan"}
  /\ values \in [Names -> SUBSET Bindings]
  /\ work \in SUBSET (Names \X Bindings)
  /\ borrowed \subseteq Names

Init == /\ payload \in Payloads
        /\ result = "pending"
        /\ FinanceIdle /\ LogicIdle /\ CodeIdle

Routed(type) == payload.type = type /\ type \in Enabled

Financial == /\ Routed("financial_transaction") /\ VerifyFinancial
             /\ UNCHANGED <<logic, scanning>>

Logical == /\ Routed("logic_assertion") /\ VerifyLogic
           /\ UNCHANGED <<billing, scanning>>

Code == /\ Routed("code_execution") /\ VerifyCode
        /\ UNCHANGED <<billing, logic>>

Passthrough ==
  /\ result = "pending"
  /\ ~\E t \in {"financial_transaction", "logic_assertion", "code_execution"} : Routed(t)
  /\ Decide("unverifiable")
  /\ UNCHANGED <<billing, logic, scanning>>

RouteToEngine == Financial \/ Logical \/ Code \/ Passthrough

\* A receiver may run a program that came through.
Receive == /\ payload.type = "code_execution" /\ RunProgram
           /\ UNCHANGED <<billing, logic>>

Next == RouteToEngine \/ Receive

\* An engine has a thread to itself and waits for nothing.  The finance and
\* the logic guard go through a list once; of the code guard alone it takes an
\* argument that it ends.
Spec == Init /\ [][Next]_engineVars /\ WF_engineVars(Code)

\* Every program gets its result, cycles of aliases included: a scan that did
\* not end would hold its thread and its slot for good.
EveryProgramDecided == Routed("code_execution") => <>(result # "pending")

=============================================================================
