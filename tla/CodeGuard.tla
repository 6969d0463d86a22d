----------------------------- MODULE CodeGuard -----------------------------
(***************************************************************************)
(* The code guard, _verify_code, and the name bindings it rests on         *)
(* (_Bindings).  A binding is a module, <<m, None>>, or a member of one,   *)
(* <<m, f>>.  Every name keeps every binding it may have anywhere in the   *)
(* program; a worklist pushes bindings along assignments; then every call  *)
(* is looked up.  A program is a set of statements and a set of calls:     *)
(*   [op |-> "import", module, name]         import module as name         *)
(*   [op |-> "from", module, member, name]   from module import .. as name *)
(*   [op |-> "assign", target, source, attr] target = source[.attr]        *)
(*   [func, attr, arg, member]      func[.attr](arg, member), e.g. getattr *)
(* Annotated, walrus and unpacking assignments are assignments.  A binding *)
(* may be on the worklist twice; the second time has no effect, so that    *)
(* the list is a set here, from which any element may be popped.           *)
(***************************************************************************)
EXTENDS Guard, Integers, FiniteSets

CONSTANTS Names,             \* names of programs, those of modules included
          Receivers,         \* _DANGEROUS_RECEIVER_METHODS, a function
          CallNames,         \* _DANGEROUS_CALL_NAMES
          DangerousImports,  \* _DANGEROUS_IMPORTS
          Elsewhere,         \* <<m, f>> -> what f in module m is, when that is
                             \* a module or another module's member (os.path)
          None,              \* no member, no attribute, no argument
          Dynamic            \* an attribute name that is no constant

BuiltinsModules == {"builtins", "__builtins__"}

Methods(m) == IF m \in DOMAIN Receivers THEN Receivers[m] ELSE {}

\* The tables as they stand in the class: both names of the builtins module
\* are receivers, of the builtins that are dangerous by name, and getattr is a
\* case of its own.  A member that the tables name stands for itself.
ASSUME CodeGuardAssumption ==
  /\ BuiltinsModules \subseteq DOMAIN Receivers
  /\ \A m \in BuiltinsModules : Receivers[m] = CallNames
  /\ \A m \in DOMAIN Receivers : {None, "getattr"} \cap Receivers[m] = {}
  /\ None \notin {"getattr", <<"builtins", "getattr">>}
  /\ \A p \in DOMAIN Elsewhere : p[2] \notin {"getattr"} \cup Methods(p[1])

VARIABLES
  stage,    \* "collect", "propagate" or "scan"
  values,   \* _values: name -> set of bindings
  work,     \* the worklist of propagate
  objects,  \* history: what the names denote when the program is run,
            \* None for everything that is neither a module nor a member
  borrowed  \* history: the names whose objects came out of a module that
            \* is not their own, directly or by assignment

\* What the parser yields: names of the program and members to import.
IsProgram(p) ==
  p.kind = "program" =>
    /\ IsFiniteSet(p.statements)
    /\ \A s \in p.statements :
         \/ s.op = "assign" /\ {s.target, s.source} \subseteq Names
         \/ s.op = "import" /\ s.name \in Names
         \/ s.op = "from" /\ s.name \in Names /\ s.member # None
    /\ \A c \in p.calls : c.func \in Names /\ c.arg \in Names \cup {None}

program == payload.code
scanning == <<stage, values, work, objects, borrowed>>

Assignments == {s \in program.statements : s.op = "assign"}
Imports == program.statements \ Assignments

-----------------------------------------------------------------------------
(* _Bindings. *)

Implicit(n) ==
  (IF n \in DOMAIN Receivers THEN {<<n, None>>} ELSE {})
    \cup (IF n \in CallNames \cup {"getattr"} THEN {<<"builtins", n>>} ELSE {})

ValuesOf(n) == values[n] \cup Implicit(n)

Tracked(m, member) ==
  IF member = "getattr" THEN m \in BuiltinsModules ELSE member \in Methods(m)

\* Mutation: any attribute of a module is followed.
FollowAnything(b, attr) ==
  CASE attr = None -> {b}
    [] attr # None /\ b[2] = None -> {<<b[1], attr>>}
    [] OTHER -> {}

\* What the target of an assignment is bound to: at most one binding.
Follow(b, attr) ==
  CASE attr = None -> {b}
    [] attr # None /\ b[2] = None /\ Tracked(b[1], attr) -> {<<b[1], attr>>}
    [] OTHER -> {}

\* What an import binds its name to.  A module under its own name needs no
\* binding, for it has that one implicitly; here it is given all the same.
Imported(s) ==
  IF s.module \in DOMAIN Receivers
       /\ (s.op = "import" \/ Tracked(s.module, s.member))
  THEN {<<s.module, IF s.op = "import" THEN None ELSE s.member>>} ELSE {}

Resolve(func, attr) ==
  IF attr = None THEN ValuesOf(func)
  ELSE {<<b[1], attr>> : b \in {v \in ValuesOf(func) : v[2] = None}}

-----------------------------------------------------------------------------
(* The scan. *)

CodeIdle ==
  /\ stage = "collect"
  /\ values = [n \in Names |-> {}]
  /\ work = {}
  /\ objects = [n \in Names |->
       IF n \in CallNames \cup {"getattr"} THEN <<"builtins", n>>
       ELSE IF n = "__builtins__" THEN <<"builtins", None>> ELSE None]
  /\ borrowed = {}

\* No code passes, and what cannot be analysed is refused.
RefuseCode ==
  /\ result = "pending" /\ stage = "collect"
  /\ \/ program.kind = "empty" /\ Decide("heuristic_pass")
     \/ program.kind = "not a string" /\ Decide("unverifiable")
     \/ program.kind \in {"over the cap", "syntax error"} /\ Decide("blocked")
     \/ program.kind = "parser error" /\ Decide("raised")
  /\ UNCHANGED scanning

\* The walk over the tree: imports become bindings, assignments edges.  The
\* worklist starts with the bindings of every name that is assigned from.
Collect ==
  /\ result = "pending" /\ stage = "collect"
  /\ program.kind = "program"
  /\ stage' = "propagate"
  /\ values' = [n \in Names |->
       UNION {Imported(s) : s \in {i \in Imports : i.name = n}}]
  /\ work' = UNION {{s.source} \X ValuesOf(s.source)' : s \in Assignments}
  /\ UNCHANGED <<payload, result, objects, borrowed>>

\* What the assignments from n carry to every name.
Carried(n, b) ==
  [t \in Names |->
     UNION {Follow(b, s.attr) :
              s \in {a \in Assignments : a.source = n /\ a.target = t}}]

\* Mutation: what a name gains is not passed on.
PushOnce(n, b) ==
  /\ values' = [t \in Names |-> values[t] \cup Carried(n, b)[t]]
  /\ work' = work \ {<<n, b>>}

\* Mutation: what a name is given is passed on, known or not.
PushAgain(n, b) ==
  /\ values' = [t \in Names |-> values[t] \cup Carried(n, b)[t]]
  /\ work' = (work \ {<<n, b>>}) \cup UNION {{t} \X Carried(n, b)[t] : t \in Names}

Push(n, b) ==
  LET gained == [t \in Names |-> Carried(n, b)[t] \ values[t]]
  IN  /\ values' = [t \in Names |-> values[t] \cup gained[t]]
      /\ work' = (work \ {<<n, b>>}) \cup UNION {{t} \X gained[t] : t \in Names}

Propagate ==
  /\ result = "pending" /\ stage = "propagate"
  /\ \E w \in work : Push(w[1], w[2])
  /\ UNCHANGED <<payload, result, stage, objects, borrowed>>

ImportThreat(s) ==
  \/ s.module \in DangerousImports
  \/ s.op = "from" /\ s.module \in DOMAIN Receivers
       /\ s.member \in Methods(s.module) \cup {"*"}

\* getattr with two arguments, on a module that is dangerous.
GetattrThreat(c) ==
  /\ Resolve(c.func, c.attr) \cap (BuiltinsModules \X {"getattr"}) # {}
  /\ c.arg # None
  /\ \E b \in ValuesOf(c.arg) : /\ b[2] = None
                                /\ c.member \in Methods(b[1]) \cup {Dynamic}

\* Mutation: a name that is assigned to has lost its meaning as a builtin.
CallThreatShadowed(c) ==
  \/ c.attr = None /\ c.func \in CallNames /\ values[c.func] = {}
  \/ c.attr # None /\ \E b \in Resolve(c.func, c.attr) : b[2] \in Methods(b[1])
  \/ GetattrThreat(c)

CallThreat(c) ==
  \/ c.attr = None /\ c.func \in CallNames
  \/ \E b \in Resolve(c.func, c.attr) : b[2] \in Methods(b[1])
  \/ GetattrThreat(c)

\* The calls, then the text of the program against the patterns.
Scan ==
  /\ result = "pending" /\ stage = "propagate"
  /\ work = {}
  /\ stage' = "scan"
  /\ Decide(IF \/ \E s \in Imports : ImportThreat(s)
               \/ \E c \in program.calls : CallThreat(c)
               \/ program.pattern
            THEN "blocked" ELSE "heuristic_pass")
  /\ UNCHANGED <<values, work, objects, borrowed>>

VerifyCode == RefuseCode \/ Collect \/ Propagate \/ Scan

-----------------------------------------------------------------------------
(* A receiver runs a program that passed: its statements, in any order and  *)
(* any number of times, since loops, branches and functions may order them  *)
(* anyhow.                                                                  *)

Stray(m, f) == <<m, f>> \in DOMAIN Elsewhere
Object(m, f) == IF Stray(m, f) THEN Elsewhere[<<m, f>>] ELSE <<m, f>>

IsModule(object) == object # None /\ object[2] = None

Member(object, attr) ==
  CASE attr = None -> object
    [] attr # None /\ IsModule(object) -> Object(object[1], attr)
    [] OTHER -> None

\* The attribute is not the module's own.
Borrows(object, attr) == attr # None /\ IsModule(object) /\ Stray(object[1], attr)

\* The name is bound to the object, borrowed or not.
Bind(name, object, isBorrowed) ==
  /\ objects' = [objects EXCEPT ![name] = object]
  /\ borrowed' = IF isBorrowed THEN borrowed \cup {name} ELSE borrowed \ {name}

RunImport(s) ==
  IF s.op = "import" THEN Bind(s.name, <<s.module, None>>, FALSE)
  ELSE Bind(s.name, Object(s.module, s.member), Stray(s.module, s.member))

RunAssignment(s) ==
  LET o == objects[s.source]
  IN  Bind(s.target, Member(o, s.attr), s.source \in borrowed \/ Borrows(o, s.attr))

RunProgram ==
  /\ stage = "scan" /\ result = "heuristic_pass"
  /\ \/ \E s \in Imports : RunImport(s)
     \/ \E s \in Assignments : RunAssignment(s)
  /\ UNCHANGED <<payload, result, stage, values, work>>

Dangerous(object) == object # None /\ object[2] \in Methods(object[1])

\* The call runs a dangerous member, or takes one from its module by getattr,
\* or it may be one that it takes.
Harmful(c) ==
  LET f == Member(objects[c.func], c.attr)
  IN  \/ Dangerous(f)
      \/ /\ f = <<"builtins", "getattr">>
         /\ c.arg # None /\ IsModule(objects[c.arg])
         /\ \/ Dangerous(Member(objects[c.arg], c.member))
            \/ c.member = Dynamic /\ objects[c.arg][1] \in DOMAIN Receivers

\* The call uses a name with a borrowed object, or borrows one itself.
Borrowed(c) ==
  \/ {c.func, c.arg} \cap borrowed # {}
  \/ Borrows(objects[c.func], c.attr)
  \/ c.arg # None /\ Borrows(objects[c.arg], c.member)

-----------------------------------------------------------------------------
(* Properties. *)

\* The bindings of all names, those that no assignment gives them, and those
\* that one more assignment carries to a name.
Known == UNION {{n} \X ValuesOf(n) : n \in Names}

Given == (UNION {{n} \X Implicit(n) : n \in Names})
           \cup (UNION {{s.name} \X Imported(s) : s \in Imports})

Extended(pairs) ==
  pairs \cup UNION {{a.target} \X UNION {Follow(p[2], a.attr) :
                                           p \in {q \in pairs : q[1] = a.source}} :
                     a \in Assignments}

Chains[k \in Nat] == IF k = 0 THEN Given ELSE Extended(Chains[k - 1])

\* "Push every known binding along the assignment edges until no name gains a
\* new one" (propagate): whatever the order of the worklist, and with cycles
\* and chains of any length, it ends in the least fixed point - the bindings
\* that some chain of assignments carries to a name, all of them and no other.
BindingsAreLeast ==
  (stage = "propagate" /\ work = {}) =>
    Known = Chains[2 * Cardinality(program.statements)]

\* "Alias chains of any length and order, and a later re-assignment does not
\* hide an earlier binding" (README), while a clean scan "cannot be sound"
\* (_DANGEROUS_RECEIVER_METHODS): in whatever order these statements are run, a
\* program whose scan is clean calls a dangerous member only as the member of a
\* module it has imported from, or found in, another module (posixpath.os).
HarmOnlyBorrowed ==
  (stage = "scan" /\ result = "heuristic_pass") =>
    \A c \in program.calls : Harmful(c) => Borrowed(c)

=============================================================================
