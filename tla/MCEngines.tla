------------------------------ MODULE MCEngines ------------------------------
(* Payloads for TLC: bills, assertions and programs, well formed and not. *)
EXTENDS Engines, TLC

\* Three digits, ten units in a cent: sums are exact below 1000 units (one
\* unit of money), and cannot be quantized from 9.995 units of money on.
MCAmounts == {0, 4, 15, 995, 5005, 9990}
MCItems == [amount : MCAmounts, quantity : {1, 2, Missing}]
BadItems == {Malformed,
             [amount |-> 15, quantity |-> Malformed],
             [amount |-> Missing, quantity |-> 1],
             [amount |-> -5, quantity |-> 1]}
MCClaims == {0, 14, 25, 1005, 9984, 9989, 10004, Missing, -5}
Bill(claim, items) == [type |-> "financial_transaction",
                       data |-> [claimed_total |-> claim, line_items |-> items]]
Bills ==
  {Bill(c, items) : c \in MCClaims, items \in BoundedSeq(MCItems, 2)}
    \cup {Bill(c, <<i, j, k>>) : c \in MCClaims, i \in MCItems,
                                 j \in {[amount |-> 4, quantity |-> 1]},
                                 k \in MCItems}
    \cup {Bill(c, <<i, j>>) : c \in {15, Malformed}, i \in BadItems, j \in MCItems}
    \cup {Bill(15, Malformed),
          [type |-> "financial_transaction", data |-> Malformed]}

\* Claims of up to three characters, in pairs of opposite polarity.
Say(claim) == [claim |-> claim, negated |-> FALSE]
Deny(claim) == [claim |-> claim, negated |-> TRUE]
Speech(entries) == [type |-> "logic_assertion", assertions |-> entries]
Messages ==
  {Speech(<<Say(c)>>) : c \in BoundedSeq(Characters, 3)}
    \cup {Speech(<<Say(c), Deny(d)>>) :
            c \in BoundedSeq(Characters, 2),
            d \in BoundedSeq({"e", "E'", "'", " ", "zero width"}, 2)}
    \cup {Speech(<<Deny(<<"e", c>>), Say(d), Say(<<c, "E">>)>>) :
            c \in Characters, d \in BoundedSeq(Characters, 2)}
    \cup {Speech(<<Say(<<"e">>), Deny(<<"E">>), a>>) :
            a \in {Malformed, Say(Malformed), Say(<<"nul">>), Say(<<"'">>),
                   [claim |-> <<"e">>, negated |-> Malformed]}}
    \cup {Speech(Malformed), Speech(<< >>)}

\* Programs of up to three statements and one call.
MCNames == {"x", "y", "os", "builtins", "__builtins__", "eval", "getattr"}
MCReceivers == [m \in {"os", "builtins", "__builtins__"} |->
                  IF m = "os" THEN {"system"} ELSE {"eval"}]
MCElsewhere == (<<"posixpath", "os">> :> <<"os", None>>)
                 @@ (<<"os", "path">> :> <<"posixpath", None>>)
Import(m, n) == [op |-> "import", module |-> m, name |-> n]
From(m, f, n) == [op |-> "from", module |-> m, member |-> f, name |-> n]
Assign(t, s, a) == [op |-> "assign", target |-> t, source |-> s, attr |-> a]
Call(f, a) == [func |-> f, attr |-> a, arg |-> None, member |-> None]
Getattr(f, a, m) == [func |-> f, attr |-> None, arg |-> a, member |-> m]
Statements == {Import("os", "os"), Import("os", "x"), Import("posixpath", "y"),
               Import("builtins", "builtins"), Import("subprocess", "x"),
               From("builtins", "getattr", "x"), From("os", "system", "x"),
               Assign("x", "y", None), Assign("y", "x", None),
               Assign("x", "os", None), Assign("os", "y", None),
               Assign("y", "x", "system"), Assign("x", "eval", None),
               Assign("x", "__builtins__", None),
               Assign("eval", "y", None), Assign("y", "getattr", None),
               Assign("y", "builtins", "getattr"), Assign("x", "x", "path"),
               From("posixpath", "os", "x"), Assign("x", "y", "os")}
Calls == {Call("x", None), Call("y", None), Call("eval", None),
          Call("x", "system"), Call("y", "eval"),
          Getattr("y", "x", "system"), Getattr("x", "os", Dynamic)}
Programs ==
  {[kind |-> "program", statements |-> S, calls |-> {c}, pattern |-> FALSE] :
     S \in UNION {kSubset(k, Statements) : k \in 0..3}, c \in Calls}
    \cup {[kind |-> "program", statements |-> {}, calls |-> {}, pattern |-> TRUE]}
    \cup {[kind |-> k] : k \in {"empty", "not a string", "over the cap",
                                "syntax error", "parser error"}}
Codes == {[type |-> "code_execution", code |-> p] : p \in Programs}

MCPayloads == Bills \cup Messages \cup Codes
                \cup {[type |-> "general"], [type |-> "data_query"]}

=============================================================================
