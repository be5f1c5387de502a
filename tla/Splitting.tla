----------------------------- MODULE Splitting -----------------------------
(***************************************************************************)
(* lib/splitting.ts: who pays what once a coordinator states the delivery  *)
(* fee.  A state holds one cart and fee, and then the split of it.         *)
(*                                                                         *)
(* The delivery share is computed in floating point.  A subtotal divided   *)
(* by the group's subtotal and multiplied by the fee can come out just     *)
(* below a whole number that it should equal, and Math.floor then takes    *)
(* one paisa off: both outcomes are modelled.  For totals and fees below   *)
(* 2^25 paise the rounding error is too small for any other outcome.       *)
(***************************************************************************)
EXTENDS Lists

CONSTANTS
  Students,   \* who may have items in the cart
  Prices,     \* item prices in paise
  Quantities, \* item quantities
  MaxItems,   \* bound: items in a cart
  Fees        \* delivery fees in paise

ASSUME SplitAssumption == /\ Prices \subseteq Nat \ {0}
                          /\ Quantities \subseteq Nat \ {0}
                          /\ Fees \subseteq Nat /\ MaxItems \in Nat

VARIABLES items, fee, split

vars == <<items, fee, split>>

Item == [userId : Students, pricePaise : Prices, quantity : Quantities]
NoSplit == <<>>

Line(item) == item.pricePaise * item.quantity

groupTotalPaise(lines, deliveryFee) ==
  SumOf([k \in DOMAIN lines |-> Line(lines[k])]) + deliveryFee

(* subtotalByUser *)
Subtotal(lines, u) ==
  SumOf([k \in DOMAIN lines |->
           IF lines[k].userId = u THEN Line(lines[k]) ELSE 0])

(* The entries of subtotalByUser, in the order of each user's first item. *)
Entries(lines) ==
  FoldLeft(LAMBDA seen, item : IF Contains(seen, item.userId) THEN seen
                               ELSE Append(seen, item.userId),
           <<>>, lines)

groupSubtotal(lines) ==
  SumOf([i \in DOMAIN Entries(lines) |-> Subtotal(lines, Entries(lines)[i])])

(* Faulty: the first entry, whatever it bought. *)
FirstEntry(lines) == Entries(lines)[1]

(* The first of those who bought most. *)
LargestUser(lines) ==
  Entries(lines)[SelectInSeq(Entries(lines),
    LAMBDA u : \A v \in ToSet(Entries(lines)) :
                 Subtotal(lines, v) <= Subtotal(lines, u))]

(* Faulty: rounds up. *)
RoundedUp(sub, total, deliveryFee) ==
  {(sub * deliveryFee + total - 1) \div total}

(* Math.floor((subtotalPaise / groupSubtotal) * deliveryFeePaise) *)
FloorShares(sub, total, deliveryFee) ==
  LET exact == (sub * deliveryFee) \div total IN
  IF (sub * deliveryFee) % total = 0 /\ sub < total /\ deliveryFee > 0
  THEN {exact - 1, exact}
  ELSE {exact}

(* Faulty: the remainder is dropped. *)
RemainderDropped(share, lines, deliveryFee, u) == share[u]

(* The largest contributor's share takes what rounding left over. *)
WithRemainder(share, lines, deliveryFee, u) ==
  IF u = LargestUser(lines)
  THEN share[u] + deliveryFee
         - SumOf([i \in DOMAIN Entries(lines) |-> share[Entries(lines)[i]]])
  ELSE share[u]

(* Equal subtotals are rounded alike: the computation is deterministic. *)
RoundedShares(lines, deliveryFee) ==
  LET buyers == ToSet(Entries(lines))
      total == groupSubtotal(lines)
  IN {share \in [buyers -> -1 .. deliveryFee] :
        /\ \A u \in buyers :
             share[u] \in FloorShares(Subtotal(lines, u), total, deliveryFee)
        /\ \A u, v \in buyers :
             Subtotal(lines, u) = Subtotal(lines, v) => share[u] = share[v]}

(* Every split the code may return: one record per buyer. *)
splitCost(lines, deliveryFee) ==
  IF groupSubtotal(lines) = 0 THEN {NoSplit}
  ELSE {[i \in DOMAIN Entries(lines) |->
           LET u == Entries(lines)[i]
               delivery == WithRemainder(share, lines, deliveryFee, u)
           IN [userId |-> u, subtotalPaise |-> Subtotal(lines, u),
               deliverySharePaise |-> delivery,
               totalPaise |-> Subtotal(lines, u) + delivery]]
        : share \in RoundedShares(lines, deliveryFee)}

Init == /\ items \in BoundedSeq(Item, MaxItems)
        /\ fee \in Fees
        /\ split = NoSplit

Split == /\ split = NoSplit
         /\ split' \in splitCost(items, fee)
         /\ UNCHANGED <<items, fee>>

Spec == Init /\ [][Split]_vars

-----------------------------------------------------------------------------
Payers == DOMAIN split
Done == split # NoSplit
Buyer(i) == split[i].userId

(* Rounding neither loses nor invents a paisa: the shares add up to the    *)
(* group's total, the fact claim-coordinator relies on.                    *)
SumsToTotal ==
  Done => SumOf([i \in Payers |-> split[i].totalPaise])
            = groupTotalPaise(items, fee)

(* Everyone who ordered is billed once and pays at least for the own       *)
(* items; nobody's delivery share is negative, the remainder included.     *)
EveryBuyerOnce ==
  Done => /\ {Buyer(i) : i \in Payers} = {items[k].userId : k \in DOMAIN items}
          /\ \A i, j \in Payers : Buyer(i) = Buyer(j) => i = j
          /\ \A i \in Payers :
               split[i].totalPaise >= Subtotal(items, Buyer(i))

(* Whoever pays more than the proportional share of the fee has bought     *)
(* most, and pays at most one paisa on top for each of the other buyers.   *)
OnlyLargestPaysMore ==
  Done => \A i \in Payers :
    LET total == groupTotalPaise(items, 0)
        over == split[i].deliverySharePaise * total
                  - split[i].subtotalPaise * fee
    IN over > 0 => /\ \A j \in Payers :
                        split[j].subtotalPaise <= split[i].subtotalPaise
                   /\ over <= (Len(split) - 1) * total
=============================================================================
