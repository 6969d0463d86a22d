--------------------------- MODULE EnginesProofs ---------------------------
(***************************************************************************)
(* Proofs about the engines, for payloads of any size.  The code guard:    *)
(* a program it passes calls a dangerous member only through a module that *)
(* it took from another one, and the worklist always makes progress and    *)
(* ends in the least fixed point.  The finance guard:                      *)
(* what a verified total may be off by.  The logic guard: the decision     *)
(* over a whole message, and that keys are keys of themselves.             *)
(***************************************************************************)
EXTENDS Engines, GuardProofs

-----------------------------------------------------------------------------
(* The code guard. *)

CodeTyped ==
  /\ payload \in Payloads
  /\ stage \in {"collect", "propagate", "scan"}
  /\ values \in [Names -> SUBSET Bindings]
  /\ work \in SUBSET (Names \X Bindings)
  /\ DOMAIN objects = Names /\ borrowed \subseteq Names

\* A program is being scanned, or has been; before that no name has a
\* binding but its implicit ones.
Scanned ==
  IF stage = "collect" THEN \A n \in Names : values[n] = {}
  ELSE Routed("code_execution") /\ program.kind = "program"

\* Every import has its binding, and what a name may be is passed on along
\* every assignment from it, or is on the worklist.
Carries(s, b) == <<s.source, b>> \in work \/ Follow(b, s.attr) \subseteq ValuesOf(s.target)

Pushed ==
  stage # "collect" =>
    /\ \A s \in Imports : Imported(s) \subseteq ValuesOf(s.name)
    /\ \A s \in Assignments : \A b \in ValuesOf(s.source) : Carries(s, b)

ScanClean ==
  stage = "scan" => /\ work = {}
                    /\ result = "heuristic_pass" =>
                         \A c \in program.calls : ~CallThreat(c)

\* The objects the scanner watches: the dangerous modules and the members
\* that it tracks.
Watched(o) == IF o[2] = None THEN o[1] \in DOMAIN Receivers ELSE Tracked(o[1], o[2])

\* The builtins module goes by two names.
Covered(o, n) ==
  \/ o \in ValuesOf(n)
  \/ o[1] = "builtins" /\ <<"__builtins__", o[2]>> \in ValuesOf(n)

\* What a name denotes when the program runs is a binding of that name, unless
\* it is borrowed.
Denoted ==
  \A n \in Names \ borrowed : objects[n] # None =>
    /\ objects[n] = <<objects[n][1], objects[n][2]>>
    /\ Watched(objects[n]) => Covered(objects[n], n)

CodeInv == CodeTyped /\ Scanned /\ Pushed /\ ScanClean /\ Denoted

-----------------------------------------------------------------------------

LEMMA ProgramNames ==
  ASSUME payload \in Payloads, payload.type = "code_execution",
         program.kind = "program"
  PROVE  /\ \A s \in Imports : /\ s.name \in Names
                               /\ (s.op # "import" => s.member # None)
         /\ \A s \in Assignments : s.target \in Names /\ s.source \in Names
         /\ \A c \in program.calls : c.func \in Names /\ c.arg \in Names \cup {None}
PROOF
<1>1. IsProgram(program)
  BY EnginesAssumption DEF program
<1>2. QED
  BY <1>1 DEF IsProgram, Imports, Assignments

LEMMA MemberFacts ==
  /\ None \in Members /\ "getattr" \in Members /\ CallNames \subseteq Members
  /\ \A m \in DOMAIN Receivers : Receivers[m] \subseteq Members
BY DEF Members

LEMMA BindingPairs ==
  ASSUME NEW b \in Bindings
  PROVE  b = <<b[1], b[2]>> /\ b[1] \in DOMAIN Receivers
BY DEF Bindings

LEMMA TrackedBinding ==
  ASSUME NEW m, NEW f, Tracked(m, f)
  PROVE  <<m, f>> \in Bindings /\ m \in DOMAIN Receivers /\ (f # None)
PROOF
<1>1. CASE f = "getattr"
  BY <1>1, CodeGuardAssumption, MemberFacts DEF Tracked, Bindings
<1>2. CASE f # "getattr"
  <2>1. m \in DOMAIN Receivers /\ f \in Receivers[m]
    BY <1>2 DEF Tracked, Methods
  <2>2. QED
    BY <2>1, CodeGuardAssumption, MemberFacts DEF Bindings
<1>3. QED
  BY <1>1, <1>2

LEMMA ImplicitBinding ==
  ASSUME NEW n
  PROVE  Implicit(n) \subseteq Bindings
PROOF
<1>1. n \in DOMAIN Receivers => <<n, None>> \in Bindings
  BY MemberFacts DEF Bindings
<1>2. n \in CallNames \cup {"getattr"} => <<"builtins", n>> \in Bindings
  BY CodeGuardAssumption, MemberFacts DEF Bindings, BuiltinsModules
<1>3. QED
  BY <1>1, <1>2 DEF Implicit

LEMMA ImportedBinding ==
  ASSUME NEW s
  PROVE  Imported(s) \subseteq Bindings
PROOF
<1>1. CASE s.op = "import"
  <2>1. s.module \in DOMAIN Receivers => <<s.module, None>> \in Bindings
    BY MemberFacts DEF Bindings
  <2>2. QED
    BY <1>1, <2>1 DEF Imported
<1>2. CASE s.op # "import"
  BY <1>2, TrackedBinding DEF Imported
<1>3. QED
  BY <1>1, <1>2

LEMMA FollowBinding ==
  ASSUME NEW b \in Bindings, NEW attr
  PROVE  Follow(b, attr) \subseteq Bindings
PROOF
<1>1. CASE attr = None
  BY <1>1 DEF Follow
<1>2. CASE attr # None /\ b[2] = None /\ Tracked(b[1], attr)
  BY <1>2, TrackedBinding DEF Follow
<1>3. CASE attr # None /\ ~(b[2] = None /\ Tracked(b[1], attr))
  BY <1>3 DEF Follow
<1>4. QED
  BY <1>1, <1>2, <1>3

LEMMA ValuesTyped ==
  ASSUME CodeTyped, NEW n \in Names
  PROVE  ValuesOf(n) \subseteq Bindings
BY ImplicitBinding DEF CodeTyped, ValuesOf

LEMMA DenotedKept ==
  ASSUME Denoted, objects' = objects, borrowed' = borrowed,
         \A n \in Names : ValuesOf(n) \subseteq ValuesOf(n)'
  PROVE  Denoted'
BY DEF Denoted, Covered, Watched, Tracked, Methods

LEMMA CollectKeeps ==
  ASSUME CodeInv, Routed("code_execution"), Collect
  PROVE  CodeInv'
PROOF
<1> USE DEF CodeInv, Collect, CodeTyped, program
<1>1. /\ \A s \in Imports : s.name \in Names
      /\ \A s \in Assignments : s.source \in Names
  BY ProgramNames DEF Routed
<1>2. Imports' = Imports /\ Assignments' = Assignments
  BY DEF Imports, Assignments
<1>3. values' \in [Names -> SUBSET Bindings]
  BY ImportedBinding
<1>4. \A n : Implicit(n)' = Implicit(n)
  BY DEF Implicit
<1>5. \A n \in Names : ValuesOf(n)' = values'[n] \cup Implicit(n)
  BY <1>4 DEF ValuesOf
<1>6. \A n \in Names : ValuesOf(n)' \subseteq Bindings
  BY <1>3, <1>5, ImplicitBinding
<1>7. work' \in SUBSET (Names \X Bindings)
  BY <1>1, <1>2, <1>6
<1>8. CodeTyped' /\ Scanned' /\ ScanClean'
  BY <1>3, <1>7 DEF Scanned, ScanClean, Routed
<1>9. \A s \in Imports' : Imported(s)' \subseteq ValuesOf(s.name)'
  <2>1. \A s \in Imports : Imported(s) \subseteq values'[s.name]
    BY <1>1
  <2>2. QED
    BY <1>1, <1>2, <1>5, <2>1 DEF Imported, Tracked, Methods
<1>10. \A s \in Assignments' : \A b \in ValuesOf(s.source)' : Carries(s, b)'
  <2> SUFFICES ASSUME NEW s \in Assignments, NEW b \in ValuesOf(s.source)'
               PROVE  <<s.source, b>> \in work'
    BY <1>2 DEF Carries
  <2>1. <<s.source, b>> \in {s.source} \X ValuesOf(s.source)'
    OBVIOUS
  <2>2. QED
    BY <1>2, <2>1
<1>11. Denoted'
  <2>1. \A n \in Names : ValuesOf(n) \subseteq ValuesOf(n)'
    BY <1>5 DEF ValuesOf, Scanned
  <2>2. QED
    BY <2>1, DenotedKept
<1>12. QED
  BY <1>8, <1>9, <1>10, <1>11 DEF Pushed

LEMMA CarriedIsFollowed ==
  ASSUME NEW n, NEW b \in Bindings
  PROVE  /\ Carried(n, b) \in [Names -> SUBSET Bindings]
         /\ \A s \in Assignments :
              s.source = n /\ s.target \in Names
                => Follow(b, s.attr) \subseteq Carried(n, b)[s.target]
BY FollowBinding DEF Carried

LEMMA PropagateKeeps ==
  ASSUME CodeInv, Routed("code_execution"), Propagate
  PROVE  CodeInv'
PROOF
<1> USE DEF CodeInv, Propagate, CodeTyped, program
<1>1. PICK w \in work : Push(w[1], w[2])
  OBVIOUS
<1> DEFINE n == w[1]
           b == w[2]
           C == Carried(n, b)
           G == [t \in Names |-> C[t] \ values[t]]
<1>2. w = <<n, b>> /\ n \in Names /\ b \in Bindings
  OBVIOUS
<1>3. /\ C \in [Names -> SUBSET Bindings]
      /\ \A s \in Assignments :
           s.source = n /\ s.target \in Names => Follow(b, s.attr) \subseteq C[s.target]
  BY <1>2, CarriedIsFollowed
<1>4. /\ values' = [t \in Names |-> values[t] \cup G[t]]
      /\ work' = (work \ {<<n, b>>}) \cup UNION {{t} \X G[t] : t \in Names}
  BY <1>1 DEF Push
<1> HIDE DEF C, n, b
<1>5. CodeTyped'
  <2>1. values' \in [Names -> SUBSET Bindings]
    BY <1>3, <1>4
  <2>2. work' \in SUBSET (Names \X Bindings)
    BY <1>3, <1>4
  <2>3. QED
    BY <2>1, <2>2
<1>6. Scanned' /\ ScanClean'
  BY DEF Scanned, ScanClean, Routed
<1>7. Imports' = Imports /\ Assignments' = Assignments
  BY DEF Imports, Assignments
<1>8. \A t \in Names : ValuesOf(t)' = ValuesOf(t) \cup G[t]
  BY <1>4 DEF ValuesOf, Implicit
<1>9. \A s \in Imports : s.name \in Names
  BY ProgramNames DEF Scanned, Routed
<1>10. \A s \in Assignments : s.source \in Names /\ s.target \in Names
  BY ProgramNames DEF Scanned, Routed
<1>11. \A s \in Imports' : Imported(s)' \subseteq ValuesOf(s.name)'
  BY <1>7, <1>8, <1>9 DEF Pushed, Imported, Tracked, Methods
<1>12. \A s \in Assignments' : \A v \in ValuesOf(s.source)' : Carries(s, v)'
  <2> SUFFICES ASSUME NEW s \in Assignments, NEW v \in ValuesOf(s.source)'
               PROVE  \/ <<s.source, v>> \in work'
                      \/ Follow(v, s.attr) \subseteq ValuesOf(s.target)'
    BY <1>7 DEF Carries, Follow, Tracked, Methods
  <2>1. CASE v \in G[s.source]
    <3>1. <<s.source, v>> \in {s.source} \X G[s.source]
      BY <2>1
    <3>2. QED
      BY <1>4, <1>10, <3>1
  <2>2. CASE v \in ValuesOf(s.source) /\ <<s.source, v>> = <<n, b>>
    <3>1. Follow(v, s.attr) \subseteq C[s.target]
      BY <1>3, <1>10, <2>2
    <3>2. C[s.target] \subseteq values[s.target] \cup G[s.target]
      BY <1>10
    <3>3. QED
      BY <1>8, <1>10, <3>1, <3>2 DEF ValuesOf
  <2>3. CASE v \in ValuesOf(s.source) /\ <<s.source, v>> # <<n, b>>
    <3>1. Carries(s, v)
      BY <2>3 DEF Pushed
    <3>2. QED
      BY <1>4, <1>8, <1>10, <2>3, <3>1 DEF Carries
  <2>4. QED
    BY <1>8, <1>10, <2>1, <2>2, <2>3
<1>13. Denoted'
  <2>1. \A t \in Names : ValuesOf(t) \subseteq ValuesOf(t)'
    BY <1>8
  <2>2. QED
    BY <2>1, DenotedKept
<1>14. QED
  BY <1>5, <1>6, <1>11, <1>12, <1>13 DEF Pushed

LEMMA ScanKeeps ==
  ASSUME CodeInv, Scan
  PROVE  CodeInv'
PROOF
<1> USE DEF CodeInv, Scan, Decide, program
<1>1. /\ payload' = payload /\ values' = values /\ work' = work
      /\ UNCHANGED <<objects, borrowed>> /\ stage' = "scan" /\ stage = "propagate" /\ work = {}
  OBVIOUS
<1>2. CodeTyped' /\ Scanned'
  BY <1>1 DEF CodeTyped, Scanned, Routed
<1>3. Pushed'
  BY <1>1 DEF Pushed, Imports, Assignments, Imported, Carries, Follow, ValuesOf,
              Implicit, Tracked, Methods
<1>4. ScanClean'
  <2>1. \A c : CallThreat(c)' = CallThreat(c)
    BY <1>1 DEF CallThreat, GetattrThreat, Resolve, ValuesOf, Implicit, Methods
  <2>2. result' = "heuristic_pass" => \A c \in program.calls : ~CallThreat(c)
    OBVIOUS
  <2>3. QED
    BY <1>1, <2>1, <2>2 DEF ScanClean
<1>5. Denoted'
  BY <1>1, DenotedKept DEF ValuesOf, Implicit
<1>6. QED
  BY <1>2, <1>3, <1>4, <1>5

\* The engines' other steps leave the scan alone, and it is theirs only
\* while no scan is under way.
LEMMA ScanUntouched ==
  ASSUME CodeInv, payload' = payload, UNCHANGED scanning,
         stage = "scan" => result' = result
  PROVE  CodeInv'
PROOF
<1> USE DEF CodeInv, scanning, program
<1>1. CodeTyped' /\ Scanned'
  BY DEF CodeTyped, Scanned, Routed
<1>2. Pushed'
  BY DEF Pushed, Imports, Assignments, Imported, Carries, Follow, ValuesOf,
         Implicit, Tracked, Methods
<1>3. ScanClean'
  <2>1. \A c : CallThreat(c)' = CallThreat(c)
    BY DEF CallThreat, GetattrThreat, Resolve, ValuesOf, Implicit, Methods
  <2>2. QED
    BY <2>1 DEF ScanClean
<1>4. Denoted'
  BY DenotedKept DEF ValuesOf, Implicit
<1>5. QED
  BY <1>1, <1>2, <1>3, <1>4

\* A step of the program changes what one name denotes.
LEMMA ProgramStep ==
  ASSUME CodeInv, stage = "scan",
         payload' = payload, result' = result, stage' = stage,
         values' = values, work' = work,
         NEW n \in Names, NEW o, NEW lent \in BOOLEAN, Bind(n, o, lent),
         (~lent /\ o # None) => o = <<o[1], o[2]>> /\ (Watched(o) => Covered(o, n))
  PROVE  CodeInv'
PROOF
<1> USE DEF CodeInv, program
<1>1. CodeTyped' /\ Scanned'
  BY DEF CodeTyped, Scanned, Routed, Bind
<1>2. Pushed'
  BY DEF Pushed, Imports, Assignments, Imported, Carries, Follow, ValuesOf,
         Implicit, Tracked, Methods
<1>3. ScanClean'
  <2>1. \A c : CallThreat(c)' = CallThreat(c)
    BY DEF CallThreat, GetattrThreat, Resolve, ValuesOf, Implicit, Methods
  <2>2. QED
    BY <2>1 DEF ScanClean
<1>4. Denoted'
  <2>1. \A p, t : (Watched(p) <=> Watched(p)') /\ (Covered(p, t) <=> Covered(p, t)')
    BY DEF Watched, Covered, ValuesOf, Implicit, Tracked, Methods
  <2>2. \A t \in Names : objects'[t] = IF t = n THEN o ELSE objects[t]
    BY DEF CodeTyped, Bind
  <2>3. SUFFICES ASSUME NEW t \in Names \ borrowed', objects'[t] # None
                 PROVE  /\ objects'[t] = <<objects'[t][1], objects'[t][2]>>
                        /\ Watched(objects'[t]) => Covered(objects'[t], t)
    BY <2>1 DEF Denoted, Watched, Covered, ValuesOf, Implicit, Tracked, Methods
  <2>4. CASE t = n
    BY <2>2, <2>3, <2>4 DEF Bind
  <2>5. CASE t # n
    BY <2>2, <2>3, <2>5 DEF Denoted, Bind
  <2>6. QED
    BY <2>4, <2>5
<1>5. QED
  BY <1>1, <1>2, <1>3, <1>4

LEMMA RunImportKeeps ==
  ASSUME CodeInv, stage = "scan", NEW s \in Imports, RunImport(s),
         UNCHANGED <<payload, result, stage, values, work>>
  PROVE  CodeInv'
PROOF
<1> DEFINE o == IF s.op = "import" THEN <<s.module, None>>
                ELSE Object(s.module, s.member)
           lent == s.op # "import" /\ Stray(s.module, s.member)
<1>1. s.name \in Names /\ (s.op # "import" => s.member # None)
  BY ProgramNames DEF CodeInv, Scanned, CodeTyped, Routed
<1>2. Imported(s) \subseteq ValuesOf(s.name)
  BY DEF CodeInv, Pushed
<1>3. ~lent => o = <<o[1], o[2]>> /\ (Watched(o) => o \in Imported(s))
  <2>1. CASE s.op = "import"
    BY <2>1 DEF Watched, Imported
  <2>2. CASE s.op # "import" /\ ~lent
    <3>1. o = <<s.module, s.member>>
      BY <2>2 DEF Object
    <3>2. QED
      BY <1>1, <2>2, <3>1, TrackedBinding DEF Watched, Imported
  <2>3. QED
    BY <2>1, <2>2
<1>4. ~lent => (Watched(o) => Covered(o, s.name))
  BY <1>2, <1>3 DEF Covered
<1>5. Bind(s.name, o, lent) /\ lent \in BOOLEAN
  <2>1. lent \in BOOLEAN
    BY DEF Stray
  <2>2. CASE s.op = "import"
    BY <2>1, <2>2 DEF RunImport
  <2>3. CASE s.op # "import"
    <3>1. o = Object(s.module, s.member) /\ lent = Stray(s.module, s.member)
      BY <2>3 DEF Stray
    <3>2. QED
      BY <2>1, <2>3, <3>1 DEF RunImport
  <2>4. QED
    BY <2>2, <2>3
<1> HIDE DEF o, lent
<1>6. QED
  BY <1>1, <1>3, <1>4, <1>5, ProgramStep

LEMMA RunAssignmentKeeps ==
  ASSUME CodeInv, stage = "scan", NEW s \in Assignments, RunAssignment(s),
         UNCHANGED <<payload, result, stage, values, work>>
  PROVE  CodeInv'
PROOF
<1> DEFINE p == objects[s.source]
           o == Member(p, s.attr)
           lent == s.source \in borrowed \/ Borrows(p, s.attr)
<1>1. s.source \in Names /\ s.target \in Names
  BY ProgramNames DEF CodeInv, Scanned, CodeTyped, Routed
<1>2. \A b \in ValuesOf(s.source) : Follow(b, s.attr) \subseteq ValuesOf(s.target)
  BY DEF CodeInv, Pushed, ScanClean, Carries
<1>3. (~lent /\ p # None) => p = <<p[1], p[2]>> /\ (Watched(p) => Covered(p, s.source))
  BY <1>1 DEF CodeInv, Denoted
<1>4. (~lent /\ o # None) => o = <<o[1], o[2]>> /\ (Watched(o) => Covered(o, s.target))
  <2> SUFFICES ASSUME ~lent
               PROVE  o # None => o = <<o[1], o[2]>> /\ (Watched(o) => Covered(o, s.target))
    OBVIOUS
  <2>1. CASE s.attr = None
    <3>1. o = p
      BY <2>1 DEF Member
    <3>2. \A b \in ValuesOf(s.source) : b \in ValuesOf(s.target)
      BY <1>2, <2>1 DEF Follow
    <3>3. QED
      BY <1>3, <3>1, <3>2 DEF Covered
  <2>2. CASE s.attr # None /\ p # None /\ p[2] = None
    <3>1. o = <<p[1], s.attr>>
      BY <2>2 DEF Member, Borrows, IsModule, Object
    <3>2. SUFFICES ASSUME Tracked(p[1], s.attr)
                   PROVE  Covered(o, s.target)
      BY <2>2, <3>1 DEF Watched
    <3>3. Watched(p)
      BY <2>2, <3>2, TrackedBinding DEF Watched
    <3>4. Covered(p, s.source) /\ p = <<p[1], None>>
      BY <1>3, <2>2, <3>3
    <3>5. CASE p \in ValuesOf(s.source)
      <4>1. Follow(p, s.attr) = {<<p[1], s.attr>>}
        BY <2>2, <3>2 DEF Follow
      <4>2. QED
        BY <1>2, <3>1, <3>5, <4>1 DEF Covered
    <3>6. CASE p[1] = "builtins" /\ <<"__builtins__", None>> \in ValuesOf(s.source)
      <4>1. Tracked("__builtins__", s.attr)
        BY <3>2, <3>6, CodeGuardAssumption DEF Tracked, Methods, BuiltinsModules
      <4>2. Follow(<<"__builtins__", None>>, s.attr) = {<<"__builtins__", s.attr>>}
        BY <2>2, <4>1 DEF Follow
      <4>3. QED
        BY <1>2, <3>1, <3>6, <4>2 DEF Covered
    <3>7. QED
      BY <2>2, <3>4, <3>5, <3>6 DEF Covered
  <2>3. CASE s.attr # None /\ ~(p # None /\ p[2] = None)
    BY <2>3 DEF Member, IsModule
  <2>4. QED
    BY <2>1, <2>2, <2>3
<1>5. Bind(s.target, o, lent) /\ lent \in BOOLEAN
  BY DEF RunAssignment, Borrows
<1> HIDE DEF o, p, lent
<1>6. QED
  BY <1>1, <1>4, <1>5, ProgramStep

LEMMA CodeInvInit == Init => CodeInv
PROOF
<1> SUFFICES ASSUME Init
             PROVE  CodeInv
  OBVIOUS
<1>1. /\ payload \in Payloads /\ stage = "collect" /\ work = {}
      /\ values = [n \in Names |-> {}]
      /\ DOMAIN objects = Names /\ borrowed = {}
  BY DEF Init, CodeIdle
<1>2. CodeTyped /\ Scanned /\ Pushed /\ ScanClean
  BY <1>1 DEF CodeTyped, Scanned, Pushed, ScanClean
<1>3. Denoted
  <2> SUFFICES ASSUME NEW n \in Names, objects[n] # None
               PROVE  /\ objects[n] = <<objects[n][1], objects[n][2]>>
                      /\ Covered(objects[n], n)
    BY DEF Denoted
  <2>1. CASE n \in CallNames \cup {"getattr"}
    <3>1. objects[n] = <<"builtins", n>>
      BY <2>1 DEF Init, CodeIdle
    <3>2. QED
      BY <2>1, <3>1 DEF Covered, ValuesOf, Implicit
  <2>2. CASE n \notin CallNames \cup {"getattr"} /\ n = "__builtins__"
    <3>1. objects[n] = <<"builtins", None>>
      BY <2>2 DEF Init, CodeIdle
    <3>2. QED
      BY <2>2, <3>1, CodeGuardAssumption
         DEF Covered, ValuesOf, Implicit, BuiltinsModules
  <2>3. CASE n \notin CallNames \cup {"getattr"} /\ n # "__builtins__"
    BY <2>3 DEF Init, CodeIdle
  <2>4. QED
    BY <2>1, <2>2, <2>3
<1>4. QED
  BY <1>2, <1>3 DEF CodeInv

LEMMA CodeInvNext == CodeInv /\ [Next]_engineVars => CodeInv'
PROOF
<1> SUFFICES ASSUME CodeInv, [Next]_engineVars
             PROVE  CodeInv'
  OBVIOUS
<1>1. stage = "scan" => Routed("code_execution")
  BY DEF CodeInv, Scanned
<1>2. CASE Financial
  <2>1. payload' = payload /\ UNCHANGED scanning /\ stage # "scan"
    BY <1>1, <1>2 DEF Financial, VerifyFinancial, RefuseBill, AddItem, Compare,
                      Decide, Routed
  <2>2. QED
    BY <2>1, ScanUntouched
<1>3. CASE Logical
  <2>1. payload' = payload /\ UNCHANGED scanning /\ stage # "scan"
    BY <1>1, <1>3 DEF Logical, VerifyLogic, RefuseAssertions, ReadAssertion,
                      FindContradictions, Decide, Routed
  <2>2. QED
    BY <2>1, ScanUntouched
<1>4. CASE Code
  <2>1. CASE RefuseCode
    <3>1. payload' = payload /\ UNCHANGED scanning /\ stage # "scan"
      BY <2>1 DEF RefuseCode, Decide
    <3>2. QED
      BY <3>1, ScanUntouched
  <2>2. QED
    BY <1>4, <2>1, CollectKeeps, PropagateKeeps, ScanKeeps DEF Code, VerifyCode
<1>5. CASE Passthrough
  <2>1. payload' = payload /\ UNCHANGED scanning /\ stage # "scan"
    BY <1>1, <1>5 DEF Passthrough, Decide
  <2>2. QED
    BY <2>1, ScanUntouched
<1>6. CASE Receive
  BY <1>6, RunImportKeeps, RunAssignmentKeeps DEF Receive, RunProgram
<1>7. CASE UNCHANGED engineVars
  BY <1>7, ScanUntouched DEF engineVars, scanning
<1>8. QED
  BY <1>2, <1>3, <1>4, <1>5, <1>6, <1>7 DEF Next, RouteToEngine

\* A clean scan looked at every object that a call may meet through names that
\* are not borrowed.
LEMMA CleanIsHarmless == CodeInv => HarmOnlyBorrowed
PROOF
<1> SUFFICES ASSUME CodeInv, stage = "scan", result = "heuristic_pass",
                    NEW c \in program.calls, Harmful(c), ~Borrowed(c)
             PROVE  FALSE
  BY DEF HarmOnlyBorrowed
<1> DEFINE o == objects[c.func]
           f == Member(o, c.attr)
<1>1. ~CallThreat(c)
  BY DEF CodeInv, ScanClean
<1>2. /\ c.func \in Names \ borrowed
      /\ c.arg \in (Names \ borrowed) \cup {None}
  BY ProgramNames DEF CodeInv, Scanned, CodeTyped, Routed, Borrowed
<1>3. \A n \in Names \ borrowed : objects[n] # None =>
        /\ objects[n] = <<objects[n][1], objects[n][2]>>
        /\ Watched(objects[n]) => Covered(objects[n], n)
  BY DEF CodeInv, Denoted
<1>4. f # None /\ ~Borrows(o, c.attr)
  <2>1. Dangerous(f) \/ f = <<"builtins", "getattr">>
    BY DEF Harmful
  <2>2. f # None
    BY <2>1, CodeGuardAssumption DEF Dangerous
  <2>3. QED
    BY <2>2 DEF Borrowed

\* The call reaches a member that the scanner tracks: it resolves to that.
<1>5. ASSUME Tracked(f[1], f[2])
      PROVE  \/ f \in Resolve(c.func, c.attr)
             \/ f[1] = "builtins" /\ <<"__builtins__", f[2]>> \in Resolve(c.func, c.attr)
  <2>1. f[2] # None /\ f[1] \in DOMAIN Receivers
    BY <1>5, TrackedBinding
  <2>2. CASE c.attr = None
    <3>1. f = o
      BY <2>2 DEF Member
    <3>2. Watched(o)
      BY <1>5, <2>1, <3>1 DEF Watched
    <3>3. Covered(o, c.func)
      BY <1>2, <1>3, <1>4, <3>1, <3>2
    <3>4. QED
      BY <2>2, <3>1, <3>3 DEF Covered, Resolve
  <2>3. CASE c.attr # None
    <3>1. o # None /\ o[2] = None /\ f = <<o[1], c.attr>>
      BY <1>4, <2>3 DEF Member, IsModule, Borrows, Object
    <3>2. Watched(o)
      BY <2>1, <3>1 DEF Watched
    <3>3. Covered(o, c.func) /\ o = <<o[1], None>>
      BY <1>2, <1>3, <3>1, <3>2
    <3>4. QED
      BY <2>3, <3>1, <3>3 DEF Covered, Resolve
  <2>4. QED
    BY <2>2, <2>3
<1>6. CASE Dangerous(f)
  <2>0. f[2] \in Methods(f[1])
    BY <1>6 DEF Dangerous
  <2>1. f[1] \in DOMAIN Receivers /\ f[2] # "getattr"
    BY <2>0, CodeGuardAssumption DEF Methods
  <2>2. Tracked(f[1], f[2])
    BY <2>0, <2>1 DEF Tracked
  <2>3. f[1] = "builtins" => f[2] \in Methods("__builtins__")
    BY <2>0, CodeGuardAssumption DEF Methods, BuiltinsModules
  <2>4. \E b \in Resolve(c.func, c.attr) : b[2] \in Methods(b[1])
    BY <1>5, <2>0, <2>2, <2>3
  <2>5. QED
    BY <1>1, <2>4 DEF CallThreat
<1>7. CASE /\ f = <<"builtins", "getattr">>
           /\ c.arg # None /\ IsModule(objects[c.arg])
           /\ \/ Dangerous(Member(objects[c.arg], c.member))
              \/ c.member = Dynamic /\ objects[c.arg][1] \in DOMAIN Receivers
  <2> DEFINE p == objects[c.arg]
  <2>1. Tracked(f[1], f[2])
    BY <1>7 DEF Tracked, BuiltinsModules
  <2>2. Resolve(c.func, c.attr) \cap (BuiltinsModules \X {"getattr"}) # {}
    BY <1>5, <1>7, <2>1 DEF BuiltinsModules
  <2>3. p[1] \in DOMAIN Receivers /\ c.member \in Methods(p[1]) \cup {Dynamic}
    <3>1. CASE Dangerous(Member(p, c.member))
      <4>1. c.member # None
        BY <1>7, <3>1, CodeGuardAssumption DEF Dangerous, Member, IsModule, Methods
      <4>2. Member(p, c.member) = <<p[1], c.member>>
        BY <1>7, <4>1 DEF Member, Object, Borrowed, Borrows
      <4>3. QED
        BY <3>1, <4>2 DEF Dangerous, Methods
    <3>2. QED
      BY <1>7, <3>1
  <2>4. Covered(p, c.arg) /\ p = <<p[1], None>>
    BY <1>2, <1>3, <1>7, <2>3 DEF Watched, IsModule
  <2>5. p[1] = "builtins" => Methods("__builtins__") = Methods(p[1])
    BY CodeGuardAssumption DEF Methods, BuiltinsModules
  <2>6. \E b \in ValuesOf(c.arg) : b[2] = None /\ c.member \in Methods(b[1]) \cup {Dynamic}
    BY <2>3, <2>4, <2>5 DEF Covered
  <2>7. QED
    BY <1>1, <1>7, <2>2, <2>6 DEF CallThreat, GetattrThreat
<1>8. QED
  BY <1>6, <1>7 DEF Harmful

\* README: "Alias chains of any length and order, and a later re-assignment
\* does not hide an earlier binding" - for programs of any size over any
\* tables of dangerous modules, members and builtins: what a program that is
\* passed can do harm with, it took from a module to which it does not belong.
THEOREM HarmNeedsBorrowing == Spec => []HarmOnlyBorrowed
PROOF
<1>1. Init => CodeInv
  BY CodeInvInit
<1>2. CodeInv /\ [Next]_engineVars => CodeInv'
  BY CodeInvNext
<1>3. CodeInv => HarmOnlyBorrowed
  BY CleanIsHarmless
<1>4. QED
  BY <1>1, <1>2, <1>3, PTL DEF Spec

-----------------------------------------------------------------------------
(* The finance guard, and what the engines' variables hold. *)

BillInv ==
  /\ payload \in Payloads
  /\ SumSound /\ BillDecided
  /\ result = "verified" => payload.type = "financial_transaction"

LEMMA BillInvInit == Init => BillInv
PROOF
<1> SUFFICES ASSUME Init
             PROVE  BillInv
  OBVIOUS
<1>1. payload \in Payloads /\ result = "pending" /\ summed = 0 /\ total = 0 /\ exact = 0
  BY DEF Init, FinanceIdle
<1>2. QED
  BY <1>1 DEF BillInv, SumSound, BillDecided

\* What no decision depends on: a step that leaves the sum alone.
LEMMA SumUntouched ==
  ASSUME SumSound, UNCHANGED billing
  PROVE  SumSound'
BY DEF SumSound, billing, Error, Cap

LEMMA BillInvNext == BillInv /\ [Next]_engineVars => BillInv'
PROOF
<1> SUFFICES ASSUME BillInv, [Next]_engineVars
             PROVE  BillInv'
  OBVIOUS
<1>1. CASE Financial
  <2>1. payload.type = "financial_transaction" /\ IsBill(payload.data)
    BY <1>1, EnginesAssumption DEF Financial, Routed, BillInv
  <2>2. CASE RefuseBill
    <3>1. payload' = payload /\ result' = "unverifiable" /\ UNCHANGED billing
      BY <2>2 DEF RefuseBill, Decide
    <3>2. QED
      BY <3>1, SumUntouched DEF BillInv, BillDecided
  <2>3. CASE AddItem
    <3>1. payload' = payload /\ result' = "pending"
      BY <2>3 DEF AddItem
    <3>2. SumSound'
      BY <2>1, <2>3, AddItemKeeps DEF BillInv
    <3>3. QED
      BY <3>1, <3>2 DEF BillInv, BillDecided
  <2>4. CASE Compare
    <3>1. payload' = payload /\ UNCHANGED billing
      BY <2>4 DEF Compare, Decide
    <3>2. BillDecided' /\ SumSound'
      BY <2>4, <3>1, CompareDecides, SumUntouched DEF BillInv
    <3>3. QED
      BY <2>1, <3>1, <3>2 DEF BillInv
  <2>5. QED
    BY <1>1, <2>2, <2>3, <2>4 DEF Financial, VerifyFinancial
<1>2. CASE Logical
  <2>1. /\ payload' = payload /\ UNCHANGED billing
        /\ payload.type = "logic_assertion" /\ result = "pending"
        /\ result' \in {"pending", "unverifiable", "blocked", "heuristic_pass"}
    BY <1>2 DEF Logical, VerifyLogic, RefuseAssertions, ReadAssertion,
                FindContradictions, Decide, Routed
  <2>2. QED
    BY <2>1, SumUntouched DEF BillInv, BillDecided
<1>3. CASE Code
  <2>1. /\ payload' = payload /\ UNCHANGED billing
        /\ payload.type = "code_execution" /\ result = "pending"
        /\ result' # "verified"
    BY <1>3 DEF Code, VerifyCode, RefuseCode, Collect, Propagate, Scan, Decide, Routed
  <2>2. QED
    BY <2>1, SumUntouched DEF BillInv, BillDecided
<1>4. CASE Passthrough
  <2>1. payload' = payload /\ UNCHANGED billing /\ result' = "unverifiable"
    BY <1>4 DEF Passthrough, Decide
  <2>2. QED
    BY <2>1, SumUntouched DEF BillInv, BillDecided
<1>5. CASE Receive \/ UNCHANGED engineVars
  <2>1. payload' = payload /\ UNCHANGED billing /\ result' = result
    BY <1>5 DEF Receive, RunProgram, engineVars
  <2>2. BillDecided'
    BY <2>1 DEF BillInv, BillDecided, billing, ValidBill, Items, Quantizes, Agrees, Cents
  <2>3. QED
    BY <2>1, <2>2, SumUntouched DEF BillInv
<1>6. QED
  BY <1>1, <1>2, <1>3, <1>4, <1>5 DEF Next, RouteToEngine

\* README: "Catches math hallucinations" - for every precision, every amount
\* and any number of line items, a verified claim is off by less than two cents
\* and half a cent for every rounding; and nothing else is ever verified.
THEOREM VerifiedClaimsAreClose == Spec => []VerifiedIsClose
PROOF
<1>1. Init => BillInv
  BY BillInvInit
<1>2. BillInv /\ [Next]_engineVars => BillInv'
  BY BillInvNext
<1>3. BillInv => VerifiedIsClose
  BY DecidedIsClose, EnginesAssumption DEF BillInv, VerifiedIsClose
<1>4. QED
  BY <1>1, <1>2, <1>3, PTL DEF Spec

\* "deterministic pass": while the exact sum fits into the digits of the
\* context the verdict is that of exact arithmetic.
THEOREM SmallSumsAreExact == Spec => []ExactWhenItFits
PROOF
<1>1. Init => BillInv
  BY BillInvInit
<1>2. BillInv /\ [Next]_engineVars => BillInv'
  BY BillInvNext
<1>3. BillInv => ExactWhenItFits
  BY DecidedIsClose, EnginesAssumption DEF BillInv, ExactWhenItFits
<1>4. QED
  BY <1>1, <1>2, <1>3, PTL DEF Spec

\* The variables hold what they should: the bindings above all are a module
\* of the table and a member the scanner can act on, so that a name never has
\* more of them than the tables allow ("x = os.a0 ... os.a9999 cannot blow up
\* the scan", _Bindings).
THEOREM EnginesTyped == Spec => []TypeOK
PROOF
<1> DEFINE Small == result \in Results /\ read \in Nat
<1>1. Init => CodeInv /\ BillInv /\ Small
  <2>1. Init => Small
    BY DEF Init, LogicIdle, Results
  <2>2. QED
    BY <2>1, CodeInvInit, BillInvInit
<1>2. CodeInv /\ BillInv /\ Small /\ [Next]_engineVars => (CodeInv /\ BillInv /\ Small)'
  <2>1. Small /\ [Next]_engineVars => Small'
    <3> SUFFICES ASSUME Small, [Next]_engineVars
                 PROVE  Small'
      OBVIOUS
    <3>1. CASE Financial
      <4>1. read' = read
        BY <3>1 DEF Financial, logic
      <4>2. result' \in Results
        <5>1. CASE RefuseBill \/ AddItem
          BY <5>1 DEF RefuseBill, AddItem, Decide, Results
        <5>2. CASE Compare
          BY <5>2 DEF Compare, Decide, Results
        <5>3. QED
          BY <3>1, <5>1, <5>2 DEF Financial, VerifyFinancial
      <4>3. QED
        BY <4>1, <4>2
    <3>2. CASE Logical
      BY <3>2 DEF Logical, VerifyLogic, RefuseAssertions, ReadAssertion,
                  FindContradictions, Decide, Results, logic
    <3>3. CASE Code
      BY <3>3 DEF Code, VerifyCode, RefuseCode, Collect, Propagate, Scan, Decide,
                  Results, logic
    <3>4. CASE Passthrough
      BY <3>4 DEF Passthrough, Decide, Results, logic
    <3>5. CASE Receive \/ UNCHANGED engineVars
      BY <3>5 DEF Receive, RunProgram, engineVars, logic
    <3>6. QED
      BY <3>1, <3>2, <3>3, <3>4, <3>5 DEF Next, RouteToEngine
  <2>2. QED
    BY <2>1, CodeInvNext, BillInvNext
<1>3. CodeInv /\ BillInv /\ Small => TypeOK
  BY DEF CodeInv, CodeTyped, BillInv, SumSound, TypeOK
<1>4. QED
  BY <1>1, <1>2, <1>3, PTL DEF Spec

-----------------------------------------------------------------------------
(* The worklist gets on. *)

\* The bindings that names do not have yet.
Unbound == {p \in Names \X Bindings : p[2] \notin values[p[1]]}

\* A turn of the loop leaves fewer bindings to be found, or as many of them
\* and less work.
WorkGetsLess ==
  /\ Unbound' \subseteq Unbound
  /\ Unbound' # Unbound \/ (work' \subseteq work /\ work' # work)

LEMMA TurnGetsOn ==
  ASSUME CodeTyped, CodeTyped', Propagate
  PROVE  WorkGetsLess
PROOF
<1>1. PICK w \in work : Push(w[1], w[2])
  BY DEF Propagate
<1> DEFINE gained == [t \in Names |-> Carried(w[1], w[2])[t] \ values[t]]
<1>2. /\ values' = [t \in Names |-> values[t] \cup gained[t]]
      /\ work' = (work \ {<<w[1], w[2]>>}) \cup UNION {{t} \X gained[t] : t \in Names}
  BY <1>1 DEF Push
<1>3. w = <<w[1], w[2]>>
  BY DEF CodeTyped
<1>4. \A t \in Names : values'[t] = values[t] \cup gained[t]
  BY <1>2
<1>5. \A t \in Names : values'[t] \subseteq Bindings
  BY DEF CodeTyped
<1> HIDE DEF gained
<1>6. Unbound' = {p \in Names \X Bindings : p[2] \notin values'[p[1]]}
  BY DEF Unbound
<1>7. Unbound' \subseteq Unbound
  BY <1>4, <1>6 DEF Unbound
<1>8. CASE \A t \in Names : gained[t] = {}
  <2>1. UNION {{t} \X gained[t] : t \in Names} = {}
    BY <1>8
  <2>2. work' = work \ {w}
    BY <1>2, <1>3, <2>1
  <2>3. QED
    BY <1>7, <2>2 DEF WorkGetsLess
<1>9. CASE \E t \in Names : gained[t] # {}
  <2>1. PICK t \in Names : \E b : b \in gained[t]
    BY <1>9
  <2>2. PICK b : b \in gained[t]
    BY <2>1
  <2>3. b \in values'[t] /\ b \notin values[t] /\ b \in Bindings
    BY <1>4, <1>5, <2>2 DEF gained
  <2>4. <<t, b>> \in Unbound /\ <<t, b>> \notin Unbound'
    BY <1>6, <2>3 DEF Unbound
  <2>5. QED
    BY <1>7, <2>4 DEF WorkGetsLess
<1>10. QED
  BY <1>8, <1>9

\* "Propagation is a worklist over assignment edges ... Bounded: only members
\* the scanner checks are kept" (_Bindings): every turn of propagate's loop
\* finds a new binding, of which the tables allow a fixed number, or uses up
\* an element of the worklist.  No cycle of aliases and no order of the
\* worklist makes a turn for nothing; EveryProgramDecided rests on that.
THEOREM PropagationGetsOn == Spec => [][Propagate => WorkGetsLess]_engineVars
PROOF
<1>1. Init => CodeInv
  BY CodeInvInit
<1>2. CodeInv /\ [Next]_engineVars => CodeInv'
  BY CodeInvNext
<1>3. CodeInv /\ CodeInv' => [Propagate => WorkGetsLess]_engineVars
  BY TurnGetsOn DEF CodeInv
<1>4. QED
  BY <1>1, <1>2, <1>3, PTL DEF Spec

-----------------------------------------------------------------------------
(* The worklist ends in the least fixed point.  First the pairs of a name  *)
(* and a binding that chains of assignments reach, level by level.         *)

Pairs == Names \X Bindings

\* Every set that holds what is given, and all that follows from what it
\* holds, has the binding.
Reached(n, b) ==
  \A T : (Given \subseteq T /\ Extended(T) \subseteq T) => <<n, b>> \in T

LeastInv ==
  stage # "collect" => /\ \A n \in Names : \A b \in ValuesOf(n) : Reached(n, b)
                       /\ \A w \in work : w[2] \in ValuesOf(w[1])

LEMMA ExtendedMeaning ==
  ASSUME NEW T
  PROVE  /\ T \subseteq Extended(T)
         /\ \A s \in Assignments, q \in T : q[1] = s.source =>
              \A c \in Follow(q[2], s.attr) : <<s.target, c>> \in Extended(T)
         /\ \A p \in Extended(T) \ T : \E s \in Assignments, q \in T :
              /\ q[1] = s.source
              /\ p[1] = s.target /\ p[2] \in Follow(q[2], s.attr)
PROOF
<1> DEFINE From(s) == {q \in T : q[1] = s.source}
           Next1(s) == UNION {Follow(q[2], s.attr) : q \in From(s)}
<1>1. Extended(T) = T \cup UNION {{s.target} \X Next1(s) : s \in Assignments}
  BY DEF Extended
<1>2. \A s : \A q \in T : q[1] = s.source => Follow(q[2], s.attr) \subseteq Next1(s)
  OBVIOUS
<1>3. \A s : \A c \in Next1(s) : \E q \in T : q[1] = s.source /\ c \in Follow(q[2], s.attr)
  OBVIOUS
<1> HIDE DEF From, Next1
<1>4. QED
  BY <1>1, <1>2, <1>3

LEMMA GivenMeaning ==
  /\ \A n \in Names : \A b \in Implicit(n) : <<n, b>> \in Given
  /\ \A s \in Imports : \A b \in Imported(s) : <<s.name, b>> \in Given
  /\ \A p \in Given : \/ p[1] \in Names /\ p[2] \in Implicit(p[1]) /\ p = <<p[1], p[2]>>
                      \/ \E s \in Imports : /\ p[1] = s.name /\ p[2] \in Imported(s)
                                            /\ p = <<p[1], p[2]>>
BY DEF Given

LEMMA KnownMeaning ==
  ASSUME CodeTyped
  PROVE  /\ \A n \in Names : \A b \in ValuesOf(n) : <<n, b>> \in Known
         /\ \A p \in Known : p \in Pairs /\ p[1] \in Names /\ p[2] \in ValuesOf(p[1])
BY ValuesTyped DEF Known, Pairs

LEMMA LeastInvNext ==
  ASSUME CodeInv, LeastInv, [Next]_engineVars
  PROVE  LeastInv'
PROOF
<1> USE DEF CodeInv, CodeTyped, Scanned, program
<1>1. CASE Code /\ Collect
  <2>1. /\ payload' = payload /\ stage' # "collect"
        /\ values' = [n \in Names |->
             UNION {Imported(s) : s \in {i \in Imports : i.name = n}}]
        /\ work' = UNION {{s.source} \X ValuesOf(s.source)' : s \in Assignments}
    BY <1>1 DEF Collect
  <2>2. \A n \in Names : \A b \in ValuesOf(n)' : <<n, b>> \in Given
    <3> SUFFICES ASSUME NEW n \in Names, NEW b \in ValuesOf(n)'
                 PROVE  <<n, b>> \in Given
      OBVIOUS
    <3>1. CASE b \in Implicit(n)
      BY <3>1, GivenMeaning
    <3>2. CASE b \in values'[n]
      <4>1. PICK s \in Imports : s.name = n /\ b \in Imported(s)
        BY <2>1, <3>2
      <4>2. QED
        BY <4>1, GivenMeaning
    <3>3. QED
      BY <3>1, <3>2 DEF ValuesOf, Implicit
  <2>3. Given' = Given /\ \A T : Extended(T)' = Extended(T)
    BY <2>1 DEF Given, Extended, Imports, Assignments, Implicit, Imported, Follow,
                Tracked, Methods
  <2>4. \A w \in work' : w[2] \in ValuesOf(w[1])'
    BY <2>1
  <2>5. QED
    BY <2>2, <2>3, <2>4 DEF LeastInv, Reached
<1>2. CASE Code /\ Propagate
  <2>1. PICK w \in work : Push(w[1], w[2])
    BY <1>2 DEF Propagate
  <2> DEFINE n == w[1]
             b == w[2]
             C == Carried(n, b)
             G == [t \in Names |-> C[t] \ values[t]]
  <2>2. n \in Names /\ b \in Bindings /\ b \in ValuesOf(n) /\ stage # "collect"
          /\ payload' = payload
    BY <1>2 DEF LeastInv, Propagate
  <2>3. /\ values' = [t \in Names |-> values[t] \cup G[t]]
        /\ work' = (work \ {<<n, b>>}) \cup UNION {{t} \X G[t] : t \in Names}
    BY <2>1 DEF Push
  <2>4. \A t \in Names : \A c \in C[t] : \E s \in Assignments :
          s.source = n /\ s.target = t /\ c \in Follow(b, s.attr)
    BY DEF Carried
  <2>5. Reached(n, b)
    BY <2>2 DEF LeastInv
  <2>6. \A t \in Names : \A c \in C[t] : Reached(t, c)
    <3> SUFFICES ASSUME NEW t \in Names, NEW c \in C[t],
                        NEW T, Given \subseteq T, Extended(T) \subseteq T
                 PROVE  <<t, c>> \in T
      BY DEF Reached
    <3>1. PICK s \in Assignments :
            s.source = n /\ s.target = t /\ c \in Follow(b, s.attr)
      BY <2>4
    <3> HIDE DEF n, b
    <3>2. <<n, b>> \in T
      BY <2>5 DEF Reached
    <3>3. <<s.target, c>> \in Extended(T)
      BY <3>1, <3>2, ExtendedMeaning
    <3>4. QED
      BY <3>1, <3>3
  <2> HIDE DEF C, n, b
  <2>7. \A t \in Names : ValuesOf(t)' = ValuesOf(t) \cup G[t]
    BY <2>3 DEF ValuesOf, Implicit
  <2>8. \A t \in Names : \A c \in ValuesOf(t)' : Reached(t, c)
    BY <2>2, <2>6, <2>7 DEF LeastInv
  <2>9. \A t, c : Reached(t, c)' <=> Reached(t, c)
    <3>1. Given' = Given /\ \A T : Extended(T)' = Extended(T)
      BY <2>2 DEF Given, Extended, Imports, Assignments, Implicit, Imported, Follow,
                  Tracked, Methods
    <3>2. QED
      BY <3>1 DEF Reached
  <2>10. \A v \in work' : v[2] \in ValuesOf(v[1])'
    <3> SUFFICES ASSUME NEW v \in work'
                 PROVE  v[2] \in ValuesOf(v[1])'
      OBVIOUS
    <3>1. CASE v \in work
      BY <2>2, <2>7, <3>1 DEF LeastInv
    <3>2. CASE \E t \in Names : v \in {t} \X G[t]
      BY <2>7, <3>2
    <3>3. QED
      BY <2>3, <3>1, <3>2
  <2>11. QED
    BY <2>8, <2>9, <2>10 DEF LeastInv
<1>3. CASE /\ payload' = payload /\ values' = values /\ work' = work
           /\ stage' = "collect" <=> stage = "collect"
  <2>1. Given' = Given /\ \A T : Extended(T)' = Extended(T)
    BY <1>3 DEF Given, Extended, Imports, Assignments, Implicit, Imported, Follow,
                Tracked, Methods
  <2>2. \A n : ValuesOf(n)' = ValuesOf(n)
    BY <1>3 DEF ValuesOf, Implicit
  <2>3. QED
    BY <1>3, <2>1, <2>2 DEF LeastInv, Reached
<1>4. QED
  <2>1. CASE Financial \/ Logical \/ Passthrough
    BY <1>3, <2>1 DEF Financial, VerifyFinancial, RefuseBill, AddItem, Compare, Logical,
              VerifyLogic, RefuseAssertions, ReadAssertion, FindContradictions,
              Passthrough, Decide, scanning
  <2>2. CASE Code
    <3>1. CASE RefuseCode \/ Scan
      BY <1>3, <3>1 DEF RefuseCode, Scan, Decide, scanning
    <3>2. QED
      BY <1>1, <1>2, <2>2, <3>1 DEF Code, VerifyCode
  <2>3. CASE Receive \/ UNCHANGED engineVars
    BY <1>3, <2>3 DEF Receive, RunProgram, engineVars, scanning
  <2>4. QED
    BY <2>1, <2>2, <2>3 DEF Next, RouteToEngine

\* When the worklist is empty, what is known has everything that follows.
LEMMA KnownIsClosed ==
  ASSUME CodeInv, stage # "collect", work = {}
  PROVE  Given \subseteq Known /\ Extended(Known) \subseteq Known
PROOF
<1> USE DEF CodeInv, Scanned
<1>1. /\ \A s \in Imports : s.name \in Names
      /\ \A s \in Assignments : s.target \in Names /\ s.source \in Names
  BY ProgramNames DEF CodeTyped, Routed
<1>2. ASSUME NEW p \in Given
      PROVE  p \in Known
  <2>1. CASE p[1] \in Names /\ p[2] \in Implicit(p[1]) /\ p = <<p[1], p[2]>>
    BY <2>1, KnownMeaning DEF ValuesOf
  <2>2. CASE \E s \in Imports : /\ p[1] = s.name /\ p[2] \in Imported(s)
                                /\ p = <<p[1], p[2]>>
    BY <1>1, <2>2, KnownMeaning DEF Pushed
  <2>3. QED
    BY <2>1, <2>2, GivenMeaning
<1>3. ASSUME NEW p \in Extended(Known), p \notin Known
      PROVE  FALSE
  <2>1. PICK s \in Assignments, q \in Known :
          q[1] = s.source /\ p[1] = s.target /\ p[2] \in Follow(q[2], s.attr)
    BY <1>3, ExtendedMeaning
  <2>2. q[2] \in ValuesOf(s.source)
    BY <2>1, KnownMeaning
  <2>3. Follow(q[2], s.attr) \subseteq ValuesOf(s.target)
    BY <1>1, <2>2 DEF Pushed, Carries
  <2>4. <<p[1], p[2]>> \in Known
    BY <1>1, <2>1, <2>3, KnownMeaning
  <2>5. p = <<p[1], p[2]>>
    <3>1. Extended(Known) = Known \cup UNION
            {{a.target} \X UNION {Follow(v[2], a.attr) : v \in {u \in Known : u[1] = a.source}} :
               a \in Assignments}
      BY DEF Extended
    <3>2. QED
      BY <1>3, <3>1
  <2>6. QED
    BY <1>3, <2>4, <2>5
<1>4. QED
  BY <1>2, <1>3

LEMMA KnownIsLeast ==
  ASSUME CodeInv, LeastInv, stage # "collect",
         NEW T, Given \subseteq T, Extended(T) \subseteq T
  PROVE  Known \subseteq T
PROOF
<1>1. SUFFICES ASSUME NEW p \in Known
               PROVE  p \in T
  OBVIOUS
<1>2. p \in Pairs /\ p[1] \in Names /\ p[2] \in ValuesOf(p[1])
  BY KnownMeaning DEF CodeInv
<1>3. p = <<p[1], p[2]>>
  BY <1>2 DEF Pairs
<1>4. Reached(p[1], p[2])
  BY <1>2 DEF LeastInv
<1>5. QED
  BY <1>3, <1>4 DEF Reached

LEMMA PairsClosed ==
  ASSUME CodeTyped, \A s \in Imports : s.name \in Names,
         \A s \in Assignments : s.target \in Names
  PROVE  /\ Given \in SUBSET Pairs
         /\ \A T \in SUBSET Pairs : Extended(T) \in SUBSET Pairs
PROOF
<1>1. Given \in SUBSET Pairs
  BY GivenMeaning, ImplicitBinding, ImportedBinding DEF Pairs
<1>2. ASSUME NEW T \in SUBSET Pairs, NEW p \in Extended(T), p \notin T
      PROVE  p \in Pairs
  <2>1. PICK s \in Assignments :
          p \in {s.target} \X UNION {Follow(q[2], s.attr) : q \in {v \in T : v[1] = s.source}}
    BY <1>2 DEF Extended
  <2>2. PICK q \in T : p[1] = s.target /\ p[2] \in Follow(q[2], s.attr) /\ p = <<p[1], p[2]>>
    BY <2>1
  <2>3. p[2] \in Bindings
    BY <2>2, FollowBinding DEF Pairs
  <2>4. QED
    BY <2>2, <2>3 DEF Pairs
<1>3. QED
  BY <1>1, <1>2

\* The recursive definition of Chains has a solution.
LEMMA ChainsDefined ==
  ASSUME Given \in SUBSET Pairs,
         \A T \in SUBSET Pairs : Extended(T) \in SUBSET Pairs
  PROVE  /\ Chains[0] = Given
         /\ \A k \in Nat : Chains[k + 1] = Extended(Chains[k])
PROOF
<1> DEFINE f == [T \in SUBSET Pairs |-> Extended(T)]
<1>1. \E g : Iterated(SUBSET Pairs, Given, f, g)
  <2>1. f \in [SUBSET Pairs -> SUBSET Pairs]
    OBVIOUS
  <2> HIDE DEF f
  <2>2. QED
    BY <2>1, Iteration
<1>2. PICK g \in [Nat -> SUBSET Pairs] :
        g[0] = Given /\ \A k \in Nat : g[k + 1] = Extended(g[k])
  BY <1>1 DEF Iterated
<1>3. \A k \in Nat : k # 0 => k - 1 \in Nat /\ (k - 1) + 1 = k
  OBVIOUS
<1>4. \A k \in Nat : g[k] = IF k = 0 THEN Given ELSE Extended(g[k - 1])
  BY <1>2, <1>3
<1>5. g = [k \in Nat |-> IF k = 0 THEN Given ELSE Extended(g[k - 1])]
  BY <1>4
<1>6. Chains = [k \in Nat |-> IF k = 0 THEN Given ELSE Extended(Chains[k - 1])]
  BY <1>5 DEF Chains
<1>7. \A k \in Nat : Chains[k] = IF k = 0 THEN Given ELSE Extended(Chains[k - 1])
  BY <1>6
<1>8. \A k \in Nat : k + 1 \in Nat /\ k + 1 # 0 /\ (k + 1) - 1 = k
  OBVIOUS
<1>9. QED
  BY <1>7, <1>8

LEMMA ChainsGrow ==
  ASSUME Given \in SUBSET Pairs,
         \A T \in SUBSET Pairs : Extended(T) \in SUBSET Pairs
  PROVE  /\ \A k \in Nat : Chains[k] \subseteq Pairs
         /\ \A i, j \in Nat : i <= j => Chains[i] \subseteq Chains[j]
PROOF
<1>1. /\ Chains[0] = Given
      /\ \A k \in Nat : Chains[k + 1] = Extended(Chains[k])
  BY ChainsDefined
<1>2. \A k \in Nat : Chains[k] \subseteq Pairs
  <2> DEFINE T == {k \in Nat : ~(Chains[k] \subseteq Pairs)}
  <2> SUFFICES ASSUME T # {}
               PROVE  FALSE
    OBVIOUS
  <2>1. PICK m \in T : \A k \in T : m <= k
    <3>1. T \subseteq Nat
      OBVIOUS
    <3> HIDE DEF T
    <3>2. QED
      BY <3>1, LeastNatural
  <2>2. m # 0
    BY <1>1
  <2>3. m - 1 \in Nat /\ m - 1 \notin T /\ (m - 1) + 1 = m
    BY <2>1, <2>2
  <2>4. Chains[m - 1] \in SUBSET Pairs /\ Chains[m] = Extended(Chains[m - 1])
    BY <1>1, <2>3
  <2>5. QED
    BY <2>4
<1>3. ASSUME NEW i \in Nat, NEW j \in Nat, i <= j
      PROVE  Chains[i] \subseteq Chains[j]
  <2> DEFINE T == {k \in Nat : i <= k /\ ~(Chains[i] \subseteq Chains[k])}
  <2> SUFFICES ASSUME T # {}
               PROVE  FALSE
    BY <1>3
  <2>1. PICK m \in T : \A k \in T : m <= k
    <3>1. T \subseteq Nat
      OBVIOUS
    <3> HIDE DEF T
    <3>2. QED
      BY <3>1, LeastNatural
  <2>2. m # i
    OBVIOUS
  <2>3. m - 1 \in Nat /\ m - 1 \notin T /\ (m - 1) + 1 = m /\ i <= m - 1
    BY <2>1, <2>2
  <2>4. Chains[i] \subseteq Chains[m - 1] /\ Chains[m] = Extended(Chains[m - 1])
    BY <1>1, <2>3
  <2>5. Chains[m - 1] \subseteq Chains[m]
    BY <2>4, ExtendedMeaning
  <2>6. QED
    BY <2>4, <2>5
<1>4. QED
  BY <1>2, <1>3

\* A chain of n assignments st, by which the pairs w come one after another,
\* each of them new at its level.
Chain(n, w, st) ==
  /\ w \in [0..n -> Pairs] /\ st \in [1..n -> Assignments]
  /\ \A i \in 0..n : w[i] \in Chains[i]
  /\ \A i \in 1..n : /\ w[i] \notin Chains[i - 1]
                     /\ w[i][1] = st[i].target
                     /\ w[i][2] \in Follow(w[i - 1][2], st[i].attr)

LEMMA ChainExists ==
  ASSUME Given \in SUBSET Pairs,
         \A T \in SUBSET Pairs : Extended(T) \in SUBSET Pairs,
         NEW n \in Nat, NEW p \in Chains[n], n # 0 => p \notin Chains[n - 1]
  PROVE  \E w, st : Chain(n, w, st) /\ w[n] = p
PROOF
<1> DEFINE New(k, q) == q \in Chains[k] /\ (k # 0 => q \notin Chains[k - 1])
           Ends(k, q) == \E w, st : Chain(k, w, st) /\ w[k] = q
           T == {k \in Nat : \E q : New(k, q) /\ ~Ends(k, q)}
<1>1. SUFFICES ASSUME T # {}
               PROVE  FALSE
  BY DEF Chain
<1>2. PICK m \in T : \A k \in T : m <= k
  <2>1. T \subseteq Nat
    OBVIOUS
  <2> HIDE DEF T
  <2>2. QED
    BY <1>1, <2>1, LeastNatural
<1>3. PICK q : New(m, q) /\ ~Ends(m, q)
  OBVIOUS
<1>4. /\ \A k \in Nat : Chains[k] \subseteq Pairs
      /\ \A k \in Nat : Chains[k + 1] = Extended(Chains[k])
  BY ChainsGrow, ChainsDefined
<1>5. CASE m = 0
  <2> DEFINE w == [i \in 0..0 |-> q]
             st == [i \in 1..0 |-> q]
  <2>1. w \in [0..0 -> Pairs] /\ st \in [1..0 -> Assignments] /\ w[0] = q
    BY <1>3, <1>4, <1>5
  <2>2. Chain(0, w, st)
    <3> HIDE DEF w, st
    <3>1. \A i \in 0..0 : w[i] \in Chains[i]
      BY <1>3, <1>5, <2>1
    <3>2. QED
      BY <2>1, <3>1 DEF Chain
  <2>3. Ends(0, q)
    BY <2>1, <2>2
  <2>4. QED
    BY <1>3, <1>5, <2>3
<1>6. CASE m # 0
  <2>1. m - 1 \in Nat /\ m - 1 \notin T /\ (m - 1) + 1 = m
    BY <1>2, <1>6
  <2>2. Chains[m] = Extended(Chains[m - 1])
    BY <1>4, <2>1
  <2>3. PICK s \in Assignments, r \in Chains[m - 1] :
          r[1] = s.source /\ q[1] = s.target /\ q[2] \in Follow(r[2], s.attr)
    BY <1>3, <1>6, <2>2, ExtendedMeaning
  <2>4. New(m - 1, r)
    <3>1. SUFFICES ASSUME m - 1 # 0, r \in Chains[(m - 1) - 1]
                   PROVE  FALSE
      BY <2>3
    <3>2. (m - 1) - 1 \in Nat /\ ((m - 1) - 1) + 1 = m - 1
      BY <2>1, <3>1
    <3>3. Chains[m - 1] = Extended(Chains[(m - 1) - 1])
      BY <1>4, <3>2
    <3>4. <<s.target, q[2]>> \in Chains[m - 1]
      BY <2>3, <3>1, <3>3, ExtendedMeaning
    <3>5. q = <<q[1], q[2]>>
      BY <1>3, <1>4 DEF Pairs
    <3>6. QED
      BY <1>3, <1>6, <2>3, <3>4, <3>5
  <2>5. PICK w, st : Chain(m - 1, w, st) /\ w[m - 1] = r
    BY <2>1, <2>4
  <2> DEFINE w2 == [i \in 0..m |-> IF i = m THEN q ELSE w[i]]
             st2 == [i \in 1..m |-> IF i = m THEN s ELSE st[i]]
  <2>6. w2 \in [0..m -> Pairs] /\ st2 \in [1..m -> Assignments]
    <3>1. q \in Pairs
      BY <1>3, <1>4
    <3>2. \A i \in 0..m : i # m => i \in 0..(m - 1) /\ w[i] \in Pairs
      BY <2>1, <2>5 DEF Chain
    <3>3. \A i \in 1..m : i # m => i \in 1..(m - 1) /\ st[i] \in Assignments
      BY <2>1, <2>5 DEF Chain
    <3>4. QED
      BY <3>1, <3>2, <3>3
  <2>7. \A i \in 0..m : w2[i] = IF i = m THEN q ELSE w[i]
    OBVIOUS
  <2>8. \A i \in 1..m : st2[i] = IF i = m THEN s ELSE st[i]
    OBVIOUS
  <2> HIDE DEF w2, st2
  <2>9. \A i \in 0..m : w2[i] \in Chains[i]
    <3>1. \A i \in 0..m : i # m => i \in 0..(m - 1)
      BY <2>1
    <3>2. QED
      BY <1>3, <2>5, <2>7, <3>1 DEF Chain
  <2>10. ASSUME NEW i \in 1..m
         PROVE  /\ w2[i] \notin Chains[i - 1]
                /\ w2[i][1] = st2[i].target
                /\ w2[i][2] \in Follow(w2[i - 1][2], st2[i].attr)
    <3>1. i \in 0..m /\ i - 1 \in 0..m /\ i - 1 # m
      BY <2>1
    <3>2. CASE i = m
      BY <1>3, <1>6, <2>3, <2>5, <2>7, <2>8, <3>1, <3>2
    <3>3. CASE i # m
      <4>1. i \in 1..(m - 1)
        BY <2>1, <3>3
      <4>2. QED
        BY <2>5, <2>7, <2>8, <3>1, <3>3, <4>1 DEF Chain
    <3>4. QED
      BY <3>2, <3>3
  <2>11. Chain(m, w2, st2) /\ w2[m] = q
    BY <2>1, <2>6, <2>7, <2>9, <2>10 DEF Chain
  <2>12. QED
    BY <1>3, <2>11
<1>7. QED
  BY <1>5, <1>6

LEMMA FollowOnce ==
  ASSUME NEW b \in Bindings, NEW attr, NEW c \in Follow(b, attr)
  PROVE  c = b \/ (b[2] = None /\ c[2] # None)
PROOF
<1>1. CASE attr = None
  BY <1>1 DEF Follow
<1>2. CASE attr # None /\ b[2] = None /\ Tracked(b[1], attr)
  BY <1>2 DEF Follow
<1>3. CASE attr # None /\ ~(b[2] = None /\ Tracked(b[1], attr))
  BY <1>3 DEF Follow
<1>4. QED
  BY <1>1, <1>2, <1>3

\* Along a chain the binding changes at most once, from a module to a member.
LEMMA ChainBindings ==
  ASSUME NEW n \in Nat, NEW w, NEW st, Chain(n, w, st),
         NEW i \in 0..n, NEW j \in 0..n, i <= j
  PROVE  w[j][2] = w[i][2] \/ (w[i][2][2] = None /\ w[j][2][2] # None)
PROOF
<1> DEFINE Holds(k) == w[k][2] = w[i][2] \/ (w[i][2][2] = None /\ w[k][2][2] # None)
           T == {k \in Nat : i <= k /\ k <= n /\ ~Holds(k)}
<1>1. SUFFICES ASSUME T # {}
               PROVE  FALSE
  OBVIOUS
<1>2. PICK m \in T : \A k \in T : m <= k
  <2>1. T \subseteq Nat
    OBVIOUS
  <2> HIDE DEF T
  <2>2. QED
    BY <1>1, <2>1, LeastNatural
<1>3. m # i
  OBVIOUS
<1>4. m - 1 \in Nat /\ m - 1 \notin T /\ i <= m - 1 /\ m - 1 <= n
  BY <1>2, <1>3
<1>5. Holds(m - 1)
  BY <1>4
<1>6. m \in 1..n /\ m - 1 \in 0..n
  BY <1>4
<1>7. w[m][2] \in Follow(w[m - 1][2], st[m].attr) /\ w[m - 1][2] \in Bindings
  BY <1>6 DEF Chain, Pairs
<1>8. w[m][2] = w[m - 1][2] \/ (w[m - 1][2][2] = None /\ w[m][2][2] # None)
  BY <1>7, FollowOnce
<1>9. Holds(m)
  BY <1>5, <1>8
<1>10. QED
  BY <1>9

\* So no assignment is taken twice for modules, nor twice for members.
LEMMA ChainShort ==
  ASSUME Given \in SUBSET Pairs,
         \A T \in SUBSET Pairs : Extended(T) \in SUBSET Pairs,
         IsFiniteSet(program.statements),
         NEW n \in Nat, NEW w, NEW st, Chain(n, w, st)
  PROVE  n <= 2 * Cardinality(program.statements)
PROOF
<1> DEFINE Kind(i) == IF w[i][2][2] = None THEN 0 ELSE 1
           h == [i \in 1..n |-> <<st[i], Kind(i)>>]
           S == program.statements
<1>1. SUFFICES ASSUME ~(n <= 2 * Cardinality(S))
               PROVE  FALSE
  OBVIOUS
<1>2. IsFiniteSet(0..1) /\ Cardinality(0..1) = 2
  <2>1. 0 \in Int /\ 1 \in Int
    OBVIOUS
  <2>2. IsFiniteSet(0..1) /\ Cardinality(0..1) = IF 0 > 1 THEN 0 ELSE 1 - 0 + 1
    BY ONLY <2>1, FS_Interval
  <2>3. QED
    BY <2>2
<1>3. IsFiniteSet(1..n) /\ Cardinality(1..n) = n
  BY FS_Interval
<1>4. Cardinality(S) \in Nat
  BY FS_CardinalityType
<1>5. IsFiniteSet(S \X (0..1)) /\ Cardinality(S \X (0..1)) = Cardinality(S) * 2
  BY <1>2, FS_Product
<1>6. h \in [1..n -> S \X (0..1)]
  BY DEF Chain, Assignments
<1>7. Cardinality(S \X (0..1)) < Cardinality(1..n)
  BY <1>1, <1>3, <1>4, <1>5
<1>8. \E i, j \in 1..n : i # j /\ h[i] = h[j]
  <2> HIDE DEF h, S
  <2>1. QED
    BY <1>3, <1>5, <1>6, <1>7, FS_PigeonHole
<1>9. PICK i \in 1..n, j \in 1..n : i < j /\ h[i] = h[j]
  BY <1>8
<1>10. st[i] = st[j] /\ Kind(i) = Kind(j)
  BY <1>9
<1>11. w[j][2] = w[i][2]
  <2>1. w[j][2] = w[i][2] \/ (w[i][2][2] = None /\ w[j][2][2] # None)
    BY <1>9, ChainBindings
  <2>2. QED
    BY <1>10, <2>1
<1>12. w[j] = w[i]
  <2>1. i \in 0..n /\ j \in 0..n
    OBVIOUS
  <2>2. w[i] \in Pairs /\ w[j] \in Pairs
    BY <2>1 DEF Chain
  <2>3. w[i][1] = st[i].target /\ w[j][1] = st[j].target
    BY DEF Chain
  <2>4. QED
    BY <1>10, <1>11, <2>2, <2>3 DEF Pairs
<1>13. w[i] \in Chains[i] /\ w[j] \notin Chains[j - 1]
  BY DEF Chain
<1>14. Chains[i] \subseteq Chains[j - 1]
  <2>1. i \in Nat /\ j - 1 \in Nat /\ i <= j - 1
    BY <1>9
  <2>2. QED
    BY <2>1, ChainsGrow
<1>15. QED
  BY <1>12, <1>13, <1>14

LEMMA FixedPoint == CodeInv /\ LeastInv => BindingsAreLeast
PROOF
<1> DEFINE K == 2 * Cardinality(program.statements)
<1>1. SUFFICES ASSUME CodeInv, LeastInv, stage = "propagate", work = {}
               PROVE  Known = Chains[K]
  BY DEF BindingsAreLeast
<1>2. payload \in Payloads /\ payload.type = "code_execution" /\ program.kind = "program"
  BY <1>1 DEF CodeInv, CodeTyped, Scanned, Routed
<1>3. /\ \A s \in Imports : s.name \in Names
      /\ \A s \in Assignments : s.target \in Names
  BY <1>2, ProgramNames
<1>4. /\ Given \in SUBSET Pairs
      /\ \A T \in SUBSET Pairs : Extended(T) \in SUBSET Pairs
  BY <1>1, <1>3, PairsClosed DEF CodeInv
<1>5. IsFiniteSet(program.statements)
  BY <1>2, EnginesAssumption DEF IsProgram, program
<1>6. K \in Nat
  BY <1>5, FS_CardinalityType
<1>7. /\ Chains[0] = Given
      /\ \A k \in Nat : Chains[k + 1] = Extended(Chains[k])
  BY <1>4, ChainsDefined
<1> HIDE DEF K
<1>8. Extended(Chains[K]) \subseteq Chains[K]
  <2>1. SUFFICES ASSUME NEW p \in Chains[K + 1], p \notin Chains[K]
                 PROVE  FALSE
    BY <1>6, <1>7
  <2>2. K + 1 \in Nat /\ (K + 1) - 1 = K
    BY <1>6
  <2>3. PICK w, st : Chain(K + 1, w, st)
    BY <1>4, <2>1, <2>2, ChainExists
  <2>4. K + 1 <= K
    BY <1>4, <1>5, <2>2, <2>3, ChainShort DEF K
  <2>5. QED
    BY <1>6, <2>4
<1>9. Known \subseteq Chains[K]
  <2>1. Given \subseteq Chains[K]
    <3>1. Chains[0] \subseteq Chains[K]
      BY <1>4, <1>6, ChainsGrow
    <3>2. QED
      BY <1>7, <3>1
  <2>2. QED
    BY <1>1, <1>8, <2>1, KnownIsLeast
<1>10. \A k \in Nat : Chains[k] \subseteq Known
  <2> DEFINE T == {k \in Nat : ~(Chains[k] \subseteq Known)}
  <2> SUFFICES ASSUME T # {}
               PROVE  FALSE
    OBVIOUS
  <2>1. PICK m \in T : \A k \in T : m <= k
    <3>1. T \subseteq Nat
      OBVIOUS
    <3> HIDE DEF T
    <3>2. QED
      BY <3>1, LeastNatural
  <2>2. Given \subseteq Known /\ Extended(Known) \subseteq Known
    BY <1>1, KnownIsClosed
  <2>3. m # 0
    BY <1>7, <2>2
  <2>4. m - 1 \in Nat /\ m - 1 \notin T /\ (m - 1) + 1 = m
    BY <2>1, <2>3
  <2>5. Chains[m - 1] \subseteq Known /\ Chains[m] = Extended(Chains[m - 1])
    BY <1>7, <2>4
  <2>6. Extended(Chains[m - 1]) \subseteq Extended(Known)
    BY <2>5 DEF Extended
  <2>7. QED
    BY <2>2, <2>5, <2>6
<1>11. QED
  BY <1>6, <1>9, <1>10 DEF K

\* "Push every known binding along the assignment edges until no name gains a
\* new one" (propagate): in programs of any size, with cycles and chains of
\* any length, and whatever the order of the worklist, it ends with the
\* bindings that chains of assignments carry, all of them and no other; and no
\* chain needs an assignment more than twice.
THEOREM WorklistFindsLeast == Spec => []BindingsAreLeast
PROOF
<1>1. Init => CodeInv /\ LeastInv
  <2>1. Init => stage = "collect"
    BY DEF Init, CodeIdle
  <2>2. QED
    BY <2>1, CodeInvInit DEF LeastInv
<1>2. CodeInv /\ LeastInv /\ [Next]_engineVars => (CodeInv /\ LeastInv)'
  BY CodeInvNext, LeastInvNext
<1>3. CodeInv /\ LeastInv => BindingsAreLeast
  BY FixedPoint
<1>4. QED
  BY <1>1, <1>2, <1>3, PTL DEF Spec

-----------------------------------------------------------------------------
(* The logic guard. *)

\* The claims of the entries at the places in I, as keys.
Keys(I) == {Normalize(assertions[i].claim) : i \in I}

\* While the loop runs, every entry it has read is well formed, and its key is
\* with those of its polarity.
ReadSoFar ==
  (payload.type = "logic_assertion" /\ result = "pending" /\ assertions # Malformed) =>
    /\ read \in 0..Len(assertions)
    /\ \A i \in 1..read : ValidAssertion(assertions[i])
    /\ positive_claims = Keys({i \in 1..read : ~assertions[i].negated})
    /\ negative_claims = Keys({i \in 1..read : assertions[i].negated})

SpeechInv == payload \in Payloads /\ ReadSoFar /\ ContradictionsExactly

LEMMA SpeechHeard ==
  ASSUME payload \in Payloads, payload.type = "logic_assertion",
         assertions # Malformed
  PROVE  /\ Len(assertions) \in Nat /\ DOMAIN assertions = 1..Len(assertions)
         /\ assertions # << >> => Len(assertions) # 0
         /\ \A i \in 1..Len(assertions) :
              assertions[i] # Malformed =>
                /\ assertions[i].claim \in Texts \cup {Malformed}
                /\ assertions[i].negated \in BOOLEAN \cup {Malformed}
PROOF
<1> DEFINE E == [claim : Texts \cup {Malformed}, negated : BOOLEAN \cup {Malformed}]
<1>1. assertions \in Seq(E \cup {Malformed})
  BY EnginesAssumption DEF IsSpeech, assertions
<1>2. \A i \in 1..Len(assertions) : assertions[i] \in E \cup {Malformed}
  <2> HIDE DEF E
  <2>1. QED
    BY <1>1, ElementOfSeq
<1>3. Len(assertions) \in Nat /\ DOMAIN assertions = 1..Len(assertions)
      /\ (assertions # << >> => Len(assertions) # 0)
  <2> HIDE DEF E
  <2>1. QED
    BY <1>1, LenProperties, EmptySeq
<1>4. QED
  BY <1>2, <1>3

\* What a valid assertion is, in terms of what is seen of its claim.
LEMMA ValidSeen ==
  ASSUME NEW a, a.claim \in Texts \cup {Malformed},
         a.negated \in BOOLEAN \cup {Malformed}
  PROVE  ValidAssertion(a) <=>
           ~(\/ a = Malformed
             \/ a.claim = Malformed \/ a.negated = Malformed
             \/ Appearance(a.claim) = << >>)
PROOF
<1>1. a.negated \in {TRUE, FALSE} <=> a.negated # Malformed
  BY LogicAssumption
<1>2. a.claim \in Texts => (Normalize(a.claim) = << >> <=> Appearance(a.claim) = << >>)
  BY KeyIsAppearance, ComposedSteps, SeenSteps
<1>3. CASE a.claim = Malformed
  BY <1>3 DEF ValidAssertion
<1>4. CASE a.claim # Malformed
  BY <1>1, <1>2, <1>4 DEF ValidAssertion
<1>5. QED
  BY <1>3, <1>4

LEMMA SpeechInvInit == Init => SpeechInv
PROOF
<1> SUFFICES ASSUME Init
             PROVE  SpeechInv
  OBVIOUS
<1>1. /\ payload \in Payloads /\ result = "pending" /\ read = 0
      /\ positive_claims = {} /\ negative_claims = {}
  BY DEF Init, LogicIdle
<1>2. ASSUME payload.type = "logic_assertion", assertions # Malformed
      PROVE  read \in 0..Len(assertions)
  BY <1>1, <1>2, SpeechHeard
<1>3. ReadSoFar
  BY <1>1, <1>2 DEF ReadSoFar, Keys
<1>4. QED
  BY <1>1, <1>3 DEF SpeechInv, ContradictionsExactly

LEMMA RefuseSpeaks ==
  ASSUME SpeechInv, RefuseAssertions
  PROVE  SpeechInv'
PROOF
<1>1. payload' = payload /\ result' = "unverifiable"
      /\ assertions \in {Malformed, << >>}
  BY DEF RefuseAssertions, Decide
<1>2. ReadSoFar'
  BY <1>1 DEF ReadSoFar
<1>3. ContradictionsExactly'
  BY <1>1 DEF ContradictionsExactly, assertions
<1>4. QED
  BY <1>1, <1>2, <1>3 DEF SpeechInv

LEMMA ReadSpeaks ==
  ASSUME SpeechInv, payload.type = "logic_assertion", ReadAssertion
  PROVE  SpeechInv'
PROOF
<1> DEFINE n == read + 1
           a == assertions[n]
           key == Normalize(a.claim)
<1>1. /\ payload' = payload /\ assertions' = assertions /\ result = "pending"
      /\ assertions # Malformed /\ read < Len(assertions) /\ read' = n
  BY DEF ReadAssertion, Decide, assertions
<1>2. /\ payload \in Payloads /\ Len(assertions) \in Nat
      /\ DOMAIN assertions = 1..Len(assertions)
  BY <1>1, SpeechHeard DEF SpeechInv
<1>3. /\ read \in 0..Len(assertions)
      /\ \A i \in 1..read : ValidAssertion(assertions[i])
      /\ positive_claims = Keys({i \in 1..read : ~assertions[i].negated})
      /\ negative_claims = Keys({i \in 1..read : assertions[i].negated})
  BY <1>1 DEF SpeechInv, ReadSoFar
<1>4. n \in 1..Len(assertions) /\ n \in 0..Len(assertions)
      /\ 1..n = (1..read) \cup {n}
  BY <1>1, <1>2, <1>3
<1>5. CASE ~ValidAssertion(a)
  <2>1. result' = "unverifiable"
    BY <1>5 DEF ReadAssertion, Decide
  <2>2. \/ a = Malformed
        \/ a.claim = Malformed \/ a.negated = Malformed
        \/ Appearance(a.claim) = << >>
    <3>1. a # Malformed => /\ a.claim \in Texts \cup {Malformed}
                           /\ a.negated \in BOOLEAN \cup {Malformed}
      BY <1>1, <1>2, <1>4, SpeechHeard
    <3> HIDE DEF a
    <3>2. QED
      BY <1>5, <3>1, ValidSeen
  <2>3. ContradictionsExactly'
    BY <1>1, <1>2, <1>4, <2>1, <2>2 DEF ContradictionsExactly
  <2>4. ReadSoFar'
    BY <2>1 DEF ReadSoFar
  <2>5. QED
    BY <1>1, <1>2, <2>3, <2>4 DEF SpeechInv
<1>6. CASE ValidAssertion(a)
  <2>1. /\ result' = "pending"
        /\ positive_claims' = positive_claims \cup (IF a.negated THEN {} ELSE {key})
        /\ negative_claims' = negative_claims \cup (IF a.negated THEN {key} ELSE {})
    BY <1>1, <1>6 DEF ReadAssertion
  <2>2. a.negated \in BOOLEAN
    BY <1>6 DEF ValidAssertion
  <2>3. \A i \in 1..n : ValidAssertion(assertions[i])
    BY <1>3, <1>4, <1>6
  <2>4. positive_claims' = Keys({i \in 1..n : ~assertions[i].negated})
    <3>1. CASE a.negated
      <4>1. {i \in 1..n : ~assertions[i].negated} = {i \in 1..read : ~assertions[i].negated}
        BY <1>4, <3>1
      <4>2. QED
        BY <1>3, <2>1, <3>1, <4>1
    <3>2. CASE ~a.negated
      <4>1. {i \in 1..n : ~assertions[i].negated}
              = {i \in 1..read : ~assertions[i].negated} \cup {n}
        BY <1>4, <3>2
      <4>2. QED
        BY <1>3, <2>1, <3>2, <4>1 DEF Keys
    <3>3. QED
      BY <3>1, <3>2
  <2>5. negative_claims' = Keys({i \in 1..n : assertions[i].negated})
    <3>1. CASE ~a.negated
      <4>1. {i \in 1..n : assertions[i].negated} = {i \in 1..read : assertions[i].negated}
        BY <1>4, <3>1
      <4>2. QED
        BY <1>3, <2>1, <3>1, <4>1
    <3>2. CASE a.negated
      <4>1. {i \in 1..n : assertions[i].negated}
              = {i \in 1..read : assertions[i].negated} \cup {n}
        BY <1>4, <3>2
      <4>2. QED
        BY <1>3, <2>1, <3>2, <4>1 DEF Keys
    <3>3. QED
      BY <3>1, <3>2
  <2>6. ReadSoFar'
    BY <1>1, <1>4, <2>3, <2>4, <2>5 DEF ReadSoFar, Keys
  <2>7. ContradictionsExactly'
    BY <2>1 DEF ContradictionsExactly
  <2>8. QED
    BY <1>1, <1>2, <2>6, <2>7 DEF SpeechInv
<1>7. QED
  BY <1>5, <1>6

\* Keys meet where appearances meet.
LEMMA KeysMeet ==
  ASSUME NEW I, NEW J, \A i \in I \cup J : assertions[i].claim \in Texts
  PROVE  Keys(I) \cap Keys(J) # {} <=>
           {Appearance(assertions[i].claim) : i \in I}
             \cap {Appearance(assertions[i].claim) : i \in J} # {}
PROOF
<1>1. \A i \in I, j \in J :
        Normalize(assertions[i].claim) = Normalize(assertions[j].claim) <=>
          Appearance(assertions[i].claim) = Appearance(assertions[j].claim)
  BY KeyIsAppearance
<1>2. QED
  BY <1>1 DEF Keys

LEMMA FindSpeaks ==
  ASSUME SpeechInv, payload.type = "logic_assertion", FindContradictions
  PROVE  SpeechInv'
PROOF
<1> DEFINE All == 1..Len(assertions)
           Denied == {j \in All : assertions[j].negated}
           Asserted == {j \in All : ~assertions[j].negated}
<1>1. /\ payload' = payload /\ assertions' = assertions /\ result = "pending"
      /\ assertions \notin {Malformed, << >>} /\ read = Len(assertions)
      /\ result' = IF positive_claims \cap negative_claims # {}
                   THEN "blocked" ELSE "heuristic_pass"
  BY DEF FindContradictions, Decide, assertions
<1>2. /\ payload \in Payloads /\ DOMAIN assertions = All
  BY <1>1, SpeechHeard DEF SpeechInv
<1>3. /\ \A i \in All : ValidAssertion(assertions[i])
      /\ positive_claims = Keys(Asserted)
      /\ negative_claims = Keys(Denied)
  BY <1>1 DEF SpeechInv, ReadSoFar
<1>4. ASSUME NEW i \in All
      PROVE  /\ assertions[i].claim \in Texts
             /\ ~(\/ assertions[i] = Malformed
                  \/ assertions[i].claim = Malformed
                  \/ assertions[i].negated = Malformed
                  \/ Appearance(assertions[i].claim) = << >>)
  <2>1. assertions[i] # Malformed /\ assertions[i].claim # Malformed
    BY <1>3 DEF ValidAssertion
  <2>2. /\ assertions[i].claim \in Texts \cup {Malformed}
        /\ assertions[i].negated \in BOOLEAN \cup {Malformed}
    BY <1>1, <1>2, <2>1, SpeechHeard
  <2>3. QED
    BY <1>3, <2>1, <2>2, ValidSeen
<1> HIDE DEF All
<1>5. positive_claims \cap negative_claims # {} <=>
        {Appearance(assertions[i].claim) : i \in Denied}
          \cap {Appearance(assertions[i].claim) : i \in Asserted} # {}
  <2>1. \A i \in Denied \cup Asserted : assertions[i].claim \in Texts
    BY <1>4
  <2>2. Keys(Denied) \cap Keys(Asserted) = Keys(Asserted) \cap Keys(Denied)
    OBVIOUS
  <2> HIDE DEF Denied, Asserted
  <2>3. QED
    BY <1>3, <2>1, <2>2, KeysMeet
<1>6. ContradictionsExactly'
  BY <1>1, <1>2, <1>4, <1>5 DEF ContradictionsExactly
<1>7. ReadSoFar'
  BY <1>1 DEF ReadSoFar
<1>8. QED
  BY <1>1, <1>2, <1>6, <1>7 DEF SpeechInv

LEMMA SpeechInvNext ==
  ASSUME "logic_assertion" \in Enabled
  PROVE  SpeechInv /\ [Next]_engineVars => SpeechInv'
PROOF
<1> SUFFICES ASSUME SpeechInv, [Next]_engineVars
             PROVE  SpeechInv'
  OBVIOUS
<1>1. CASE Logical
  BY <1>1, RefuseSpeaks, ReadSpeaks, FindSpeaks DEF Logical, Routed, VerifyLogic
<1>2. CASE Financial \/ Code \/ Passthrough \/ Receive
  <2>1. payload.type # "logic_assertion"
    BY <1>2 DEF Financial, Code, Passthrough, Receive, Routed
  <2>2. payload' = payload
    BY <1>2 DEF Financial, VerifyFinancial, RefuseBill, AddItem, Compare, Code,
                VerifyCode, RefuseCode, Collect, Propagate, Scan, Passthrough,
                Receive, RunProgram, Decide
  <2>3. QED
    BY <2>1, <2>2 DEF SpeechInv, ReadSoFar, ContradictionsExactly
<1>3. CASE UNCHANGED engineVars
  BY <1>3 DEF engineVars, logic, SpeechInv, ReadSoFar, Keys, assertions,
              ContradictionsExactly
<1>4. QED
  BY <1>1, <1>2, <1>3 DEF Next, RouteToEngine

\* "The decision says what it should of the whole message" - for claims and
\* messages of any length: with its engine on, a message is blocked exactly if
\* it asserts and denies claims that look the same, however they are written.
THEOREM LookAlikesContradict ==
  ASSUME "logic_assertion" \in Enabled
  PROVE  Spec => []ContradictionsExactly
PROOF
<1>1. Init => SpeechInv
  BY SpeechInvInit
<1>2. SpeechInv /\ [Next]_engineVars => SpeechInv'
  BY SpeechInvNext
<1>3. SpeechInv => ContradictionsExactly
  BY DEF SpeechInv
<1>4. QED
  BY <1>1, <1>2, <1>3, PTL DEF Spec

\* "The key is idempotent" (_normalize_claim): for claims of any length, on
\* both paths.
THEOREM KeysStay == Spec => []KeyIdempotent
PROOF
<1>1. Init => payload \in Payloads
  BY DEF Init
<1>2. payload \in Payloads /\ [Next]_engineVars => (payload \in Payloads)'
  BY DEF Next, RouteToEngine, Financial, VerifyFinancial, RefuseBill, AddItem,
         Compare, Logical, VerifyLogic, RefuseAssertions, ReadAssertion,
         FindContradictions, Code, VerifyCode, RefuseCode, Collect, Propagate,
         Scan, Passthrough, Receive, RunProgram, Decide, engineVars
<1>3. payload \in Payloads => KeyIdempotent
  <2> SUFFICES ASSUME payload \in Payloads, payload.type = "logic_assertion",
                      assertions # Malformed,
                      NEW i \in DOMAIN assertions,
                      assertions[i] # Malformed, assertions[i].claim # Malformed
               PROVE  LET key == Normalize(assertions[i].claim) IN Normalize(key) = key
    BY DEF KeyIdempotent
  <2>1. assertions[i].claim \in Texts
    BY SpeechHeard
  <2>2. QED
    BY <2>1, NormalizeKeeps
<1>4. QED
  BY <1>1, <1>2, <1>3, PTL DEF Spec

=============================================================================
