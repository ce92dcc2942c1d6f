--------------------------- MODULE BudgetPricing ----------------------------
(***************************************************************************)
(* What a budget costs.  Amounts are integers (cents); an event day is     *)
(* numbered from 0, and each day has the items booked on it, a fee and a   *)
(* discount of its own.                                                    *)
(***************************************************************************)
EXTENDS Integers, FiniteSetsExt

\* A discount that is neither a percentage nor an amount takes nothing off.
NoDiscount == [kind |-> "", value |-> 0]

\* The rounding of an amount to cents.  An exact half may go either way in
\* floating point; here it goes up.
Percent(base, value) == (base * value + 50) \div 100

Clamp(x, high) == IF x < 0 THEN 0 ELSE IF x > high THEN high ELSE x

\* Mutant: a percentage is taken as a factor, and nothing caps a discount.
UnclampedDiscount(base, discount) ==
    CASE discount.kind = "percentage" -> base * discount.value
      [] discount.kind = "amount"     -> discount.value
      [] OTHER                        -> 0

DiscountAmount(base, discount) ==
    CASE discount.kind = "percentage" -> Clamp(Percent(base, discount.value), base)
      [] discount.kind = "amount"     -> Clamp(discount.value, base)
      [] OTHER                        -> 0

DayTotal(subtotal, fee, discount) ==
    subtotal + fee - DiscountAmount(subtotal + fee, discount)

\* The discounts of days 0 .. n-1: what is given for a day that exists is
\* kept, a day without an entry has none, entries of other days are dropped.
ResolveDiscounts(discounts, n) ==
    [d \in 0 .. n - 1 |->
        IF d \in DOMAIN discounts THEN discounts[d] ELSE NoDiscount]

DaySubtotal(items, d) ==
    MapThenSumSet(LAMBDA i : i.price, {i \in items : i.day = d})

\* The total of a budget of n days.  Items of other days cost nothing.
TotalAmount(items, n, discounts) ==
    MapThenSumSet(LAMBDA d : DayTotal(DaySubtotal(items, d), 0,
                                      ResolveDiscounts(discounts, n)[d]),
                  0 .. n - 1)

=============================================================================
