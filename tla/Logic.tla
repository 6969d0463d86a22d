------------------------------- MODULE Logic -------------------------------
(***************************************************************************)
(* The logic guard, _verify_logic: assertions are claims with a polarity,  *)
(* and a message that both asserts and denies a claim is blocked.  Claims  *)
(* are compared by the key _normalize_claim computes.  A claim is a        *)
(* sequence of characters, one for each kind that the function treats in   *)
(* its own way: a letter in all its forms, a combining mark, and spaces    *)
(* and invisible characters inside and outside ASCII.                      *)
(***************************************************************************)
EXTENDS Guard, Integers, SequencesExt

ASSUME LogicAssumption == Malformed \notin BOOLEAN

VARIABLES read,              \* assertions read so far
          positive_claims, negative_claims

assertions == payload.assertions

logic == <<read, positive_claims, negative_claims>>

-----------------------------------------------------------------------------
(* Characters.  "wide E" is a compatibility form of E, "e'" and "E'" are    *)
(* the precomposed letters, "'" is the combining acute accent.             *)

Characters == {"e", "E", "wide E", "e'", "E'", "'", " ", "tab", "no-break",
               "nul", "zero width"}
Texts == Seq(Characters)

Ascii == {"e", "E", " ", "tab", "nul"}
Invisible == {"nul", "zero width"}     \* the latter for all outside of ASCII
Space == {" ", "tab", "no-break"}

Plain == [ch \in Characters |-> ch]
Lower == [Plain EXCEPT !["E"] = "e", !["E'"] = "e'"]
CompatibilityForm == [Plain EXCEPT !["wide E"] = "E", !["no-break"] = " "]

Accented(ch) == IF ch = "e" THEN "e'" ELSE "E'"

Each(form, text) == [i \in DOMAIN text |-> form[text[i]]]

\* A text read from its first character to its last; what it becomes takes
\* each of them in as the rule says.
Rewrite(rule, text) ==
  LET before[n \in 0..Len(text)] ==
        IF n = 0 THEN << >> ELSE rule[text[n]][before[n - 1]]
  IN  before[Len(text)]

\* Canonical composition: a letter takes up the accent right behind it.
Compose == [ch \in Characters |-> [t \in Texts |->
  IF ch = "'" /\ t # << >> /\ Last(t) \in {"e", "E"}
  THEN Append(Front(t), Accented(Last(t))) ELSE Append(t, ch)]]

NFKC(text) == Rewrite(Compose, Each(CompatibilityForm, text))

\* " ".join(text.split()): a run of spaces becomes one, and none at the start
\* or at the end.
Separate == [ch \in Characters |-> [t \in Texts |->
  IF ch \notin Space THEN Append(t, ch)
  ELSE IF t = << >> \/ Last(t) = " " THEN t ELSE Append(t, " ")]]

Split(text) ==
  LET t == Rewrite(Separate, text)
  IN  IF t # << >> /\ Last(t) = " " THEN Front(t) ELSE t

Strip == [ch \in Characters |-> [t \in Texts |->
  IF ch \in Invisible THEN t ELSE Append(t, ch)]]

Visible(text) == Rewrite(Strip, text)

\* Mutation: invisible characters go last, when nothing is composed any more.
NormalizeLate(claim) ==
  IF \A i \in DOMAIN claim : claim[i] \in Ascii
  THEN Split(Each(Lower, Visible(claim)))
  ELSE Split(Visible(NFKC(Each(Lower, NFKC(claim)))))

\* _normalize_claim: a fast path for ASCII, and the full one.
Normalize(claim) ==
  IF \A i \in DOMAIN claim : claim[i] \in Ascii
  THEN Split(Each(Lower, Visible(claim)))
  ELSE Split(NFKC(Each(Lower, NFKC(Visible(claim)))))

-----------------------------------------------------------------------------
(* The guard. *)

\* An assertion is Malformed or has a claim and a polarity (FALSE, unless it
\* says otherwise).
IsSpeech(list) ==
  list # Malformed =>
    list \in Seq([claim : Texts \cup {Malformed},
                  negated : BOOLEAN \cup {Malformed}] \cup {Malformed})

ValidAssertion(a) == /\ a # Malformed
                     /\ a.claim # Malformed
                     /\ Normalize(a.claim) # << >>
                     /\ a.negated \in {TRUE, FALSE}

LogicIdle == read = 0 /\ positive_claims = {} /\ negative_claims = {}

RefuseAssertions == /\ result = "pending"
                    /\ assertions \in {Malformed, << >>}
                    /\ Decide("unverifiable")
                    /\ UNCHANGED logic

\* Mutation: a contradiction is reported as soon as it is seen.
ReadAssertionEagerly ==
  LET a == assertions[read + 1]
      key == Normalize(a.claim)
  IN  /\ result = "pending" /\ assertions # Malformed
      /\ read < Len(assertions)
      /\ read' = read + 1
      /\ \/ /\ ~ValidAssertion(a)
            /\ Decide("unverifiable")
            /\ UNCHANGED <<positive_claims, negative_claims>>
         \/ /\ ValidAssertion(a)
            /\ positive_claims' = positive_claims \cup (IF a.negated THEN {} ELSE {key})
            /\ negative_claims' = negative_claims \cup (IF a.negated THEN {key} ELSE {})
            /\ IF positive_claims' \cap negative_claims' # {}
               THEN Decide("blocked") ELSE UNCHANGED <<payload, result>>

\* One turn of the loop: the first malformed entry ends it.
ReadAssertion ==
  LET a == assertions[read + 1]
      key == Normalize(a.claim)
  IN  /\ result = "pending" /\ assertions # Malformed
      /\ read < Len(assertions)
      /\ read' = read + 1
      /\ \/ /\ ~ValidAssertion(a)
            /\ Decide("unverifiable")
            /\ UNCHANGED <<positive_claims, negative_claims>>
         \/ /\ ValidAssertion(a)
            /\ positive_claims' = positive_claims \cup (IF a.negated THEN {} ELSE {key})
            /\ negative_claims' = negative_claims \cup (IF a.negated THEN {key} ELSE {})
            /\ UNCHANGED <<payload, result>>

\* Finding no contradiction is no proof of consistency: never "verified".
FindContradictions ==
  /\ result = "pending" /\ assertions \notin {Malformed, << >>}
  /\ read = Len(assertions)
  /\ Decide(IF positive_claims \cap negative_claims # {}
            THEN "blocked" ELSE "heuristic_pass")
  /\ UNCHANGED logic

VerifyLogic == RefuseAssertions \/ ReadAssertion \/ FindContradictions

-----------------------------------------------------------------------------
(* Properties. *)

\* What a reader sees of a claim, without composing anything: its letters in
\* lower case, each in its parts, and single spaces between words.
Face(ch) == IF ch \in Space THEN " "
            ELSE IF ch \in {"E", "wide E"} THEN "e" ELSE ch

See == [ch \in Characters |-> [t \in Texts |->
  IF ch \in Invisible THEN t
  ELSE IF ch \in {"e'", "E'"} THEN Append(Append(t, "e"), "'")
  ELSE Append(t, Face(ch))]]

Appearance(claim) == Split(Rewrite(See, claim))

\* "The key is idempotent" (_normalize_claim): a key that is normalized again
\* stays what it is, on whichever of the two paths it was computed.
KeyIdempotent ==
  (payload.type = "logic_assertion" /\ result # "pending" /\ assertions # Malformed) =>
    \A i \in DOMAIN assertions :
      (assertions[i] # Malformed /\ assertions[i].claim # Malformed) =>
        LET key == Normalize(assertions[i].claim) IN Normalize(key) = key

\* The decision says what it should of the whole message, however the entries
\* are ordered and wherever the loop ends: an entry that is malformed or has
\* nothing to see makes it unverifiable, even next to a contradiction; it is
\* blocked if and only if it asserts and denies claims that look the same; and
\* it is never verified.
ContradictionsExactly ==
  (payload.type = "logic_assertion" /\ result # "pending") =>
    IF \/ assertions \in {Malformed, << >>}
       \/ \E i \in DOMAIN assertions :
            LET a == assertions[i]
            IN  \/ a = Malformed
                \/ a.claim = Malformed \/ a.negated = Malformed
                \/ Appearance(a.claim) = << >>
    THEN result = "unverifiable"
    ELSE LET Denied == {Appearance(assertions[i].claim) :
                          i \in {j \in DOMAIN assertions : assertions[j].negated}}
             Asserted == {Appearance(assertions[i].claim) :
                          i \in {j \in DOMAIN assertions : ~assertions[j].negated}}
         IN  result = IF Denied \cap Asserted # {} THEN "blocked"
                                                   ELSE "heuristic_pass"

=============================================================================
