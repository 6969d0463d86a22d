------------------------------ MODULE Finance ------------------------------
(***************************************************************************)
(* The finance guard, _verify_financial: line items are multiplied out and *)
(* summed in Decimal, total and claim are quantized to cents, and the two  *)
(* may differ by one cent.  Decimal arithmetic is floating-point: every    *)
(* product and every sum is rounded to Precision significant digits.       *)
(*                                                                         *)
(* Money is counted in units, Cent of them in a cent, small enough for a   *)
(* product of an amount and a quantity to be a whole number of units.      *)
(***************************************************************************)
EXTENDS Guard, Integers, Sequences

CONSTANTS Precision,   \* significant digits of the decimal context
          Cent,        \* units in a cent, a power of ten
          Missing      \* an optional field that is not there

TenTo[k \in Nat] == IF k = 0 THEN 1 ELSE 10 * TenTo[k - 1]

ASSUME FinanceAssumption == /\ Precision \in Nat \ {0}
                            /\ \E k \in 0..Cent : Cent = TenTo[k]
                            /\ Malformed \notin Int /\ Missing \notin Int

VARIABLES summed,      \* line items multiplied out and added so far
          total,       \* computed_total
          exact        \* history: the sum without any rounding

billing == <<summed, total, exact>>

\* The payload's data: its claimed_total and its line_items.  An item is
\* Malformed or has an amount and, perhaps, a quantity.
Amounts == Int \cup {Malformed, Missing}

IsBill(data) ==
  data # Malformed =>
    /\ data.claimed_total \in Amounts
    /\ data.line_items # Malformed =>
         data.line_items \in
           Seq([amount : Amounts, quantity : Amounts] \cup {Malformed})

Items == payload.data.line_items

-----------------------------------------------------------------------------
(* Validation. *)

IsAmount(v) == v # Malformed /\ v # Missing /\ v >= 0

\* A quantity that is not there is one; one that is null is malformed.
Quantity(item) == IF item.quantity = Missing THEN 1 ELSE item.quantity

ValidItem(item) == /\ item # Malformed
                   /\ IsAmount(item.amount)
                   /\ IsAmount(Quantity(item))

ValidBill == /\ payload.data # Malformed
             /\ Items # Malformed
             /\ IsAmount(payload.data.claimed_total)
             /\ Items # << >>
             /\ \A i \in 1..Len(Items) : ValidItem(Items[i])

-----------------------------------------------------------------------------
(* Decimal arithmetic. *)

\* The value of the last significant digit of v.
Ulp(v) == TenTo[CHOOSE k \in 0..v : /\ v < TenTo[Precision + k]
                                    /\ k = 0 \/ v >= TenTo[Precision + k - 1]]

\* ROUND_HALF_EVEN, the rounding of the context.
HalfEven(v, u) ==
  LET q == v \div u
      r == v % u
  IN  IF 2 * r > u \/ (2 * r = u /\ q % 2 = 1) THEN (q + 1) * u ELSE q * u

Rounded(v) == HalfEven(v, Ulp(v))

\* quantize(0.01, ROUND_HALF_UP), in cents.
Cents(v) == (2 * v + Cent) \div (2 * Cent)

\* quantize raises InvalidOperation when the cents need too many digits.
Quantizes(v) == Cents(v) < TenTo[Precision]

\* Mutation: the difference is compared without its absolute value.
AgreesFromBelow(claimed) == Cents(total) - Cents(claimed) <= 1

\* The tolerance of one cent.
Agrees(claimed) == Cents(total) - Cents(claimed) \in -1..1

-----------------------------------------------------------------------------
FinanceIdle == summed = 0 /\ total = 0 /\ exact = 0

RefuseBill == /\ result = "pending"
              /\ ~ValidBill
              /\ Decide("unverifiable")
              /\ UNCHANGED billing

\* Mutation: every product is quantized before it is added.
AddItemInCents ==
  LET item == Items[summed + 1]
      product == item.amount * Quantity(item)
  IN  /\ result = "pending" /\ ValidBill
      /\ summed < Len(Items)
      /\ total' = Rounded(total + Cents(Rounded(product)) * Cent)
      /\ exact' = exact + product
      /\ summed' = summed + 1
      /\ UNCHANGED <<payload, result>>

AddItem ==
  LET item == Items[summed + 1]
      product == item.amount * Quantity(item)
  IN  /\ result = "pending" /\ ValidBill
      /\ summed < Len(Items)
      /\ total' = Rounded(total + Rounded(product))
      /\ exact' = exact + product
      /\ summed' = summed + 1
      /\ UNCHANGED <<payload, result>>

\* The computed total is quantized outside the try block, the claim inside.
Compare ==
  LET claimed == payload.data.claimed_total
  IN  /\ result = "pending" /\ ValidBill
      /\ summed = Len(Items)
      /\ Decide(CASE ~Quantizes(total) -> "raised"
                  [] Quantizes(total) /\ ~Quantizes(claimed) -> "unverifiable"
                  [] OTHER -> IF Agrees(claimed) THEN "verified" ELSE "blocked")
      /\ UNCHANGED billing

VerifyFinancial == RefuseBill \/ AddItem \/ Compare

-----------------------------------------------------------------------------
(* Properties. *)

\* "Catches math hallucinations" (README): whatever the size of the amounts
\* and however often the sum was rounded, a verified claim is off by less than
\* two cents and half a cent for every rounding (two for each item but one).
\* And no other engine verifies anything.
VerifiedIsClose ==
  result = "verified" =>
    LET claimed == payload.data.claimed_total
        n == Len(Items)
    IN  /\ payload.type = "financial_transaction"
        /\ 2 * (exact - claimed) < (2 * n + 3) * Cent
        /\ 2 * (claimed - exact) < (2 * n + 3) * Cent

\* When the exact sum has no more digits than the context, order and number
\* of the items do not matter: the claim is verified if and only if it agrees,
\* in cents, to within one.  No true claim is blocked and no rounding
\* accumulates ("deterministic pass").
ExactWhenItFits ==
  (/\ payload.type = "financial_transaction"
   /\ result \in {"verified", "blocked"}
   /\ exact < TenTo[Precision])
     => (result = "verified"
           <=> Cents(exact) - Cents(payload.data.claimed_total) \in -1..1)

=============================================================================
