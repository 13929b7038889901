-------------------------------- MODULE Vending --------------------------------
(***************************************************************************)
(* The VendingBench simulator (examples/vending_bench): the environment,   *)
(* the suppliers who answer e-mail, and the tools of the agents.  A tool   *)
(* is one step: it changes the state, then lets time pass, and if the day  *)
(* is over the morning of the next day is processed within the same call.  *)
(* `sim' is the SimulatorState.  Amounts are whole numbers, demand is any  *)
(* number up to a bound, and an e-mail is what the supplier reads in it.   *)
(***************************************************************************)
EXTENDS Integers, Sequences, FiniteSetsExt, SequencesExt

CONSTANTS Skus, NoSku,
          Slots,          \* numbered by row, then column
          Fits,           \* the slots of the rows for a product's size
          Capacity, BasePrice,
          Prices,         \* prices the agent sets
          Contacts,       \* suppliers, built in or found by a search
          BuiltIn,        \* the suppliers of the stub directory
          Wholesale, MinOrder,           \* their offers, 0 where a hit does not say
          UnitCost, DefaultMinimum,      \* what is taken instead (6 units)
          Lead,                          \* delivery times, <<from, to>>
          Quantities,     \* quantities the agent orders or restocks
          Demands,        \* units of a product asked for in a day
          StartingCash, DailyFee,
          MinutesPerDay, Minutes,        \* what each tool takes
          MaxTurns,       \* config.max_turns
          GraceDays,      \* negative days until bankruptcy (10)
          MaxDay, MaxEmails              \* bounds of the instance

ASSUME VendingAssumption ==
  /\ NoSku \notin Skus /\ IsFiniteSet(Skus)
  /\ Slots \subseteq Nat /\ IsFiniteSet(Slots)
  /\ Fits \in [Skus -> SUBSET Slots]
  /\ Capacity \in [Skus -> Nat \ {0}] /\ BasePrice \in [Skus -> Nat \ {0}]
  /\ Prices \subseteq Nat \ {0} /\ Quantities \subseteq Nat \ {0} /\ Demands \subseteq Nat
  /\ BuiltIn \subseteq Contacts
  /\ Wholesale \in [Contacts -> Nat] /\ MinOrder \in [Contacts -> Nat]
  /\ UnitCost \in [Skus -> Nat] /\ DefaultMinimum \in Nat
  /\ Lead \in [Contacts -> Int \X Int]
  /\ StartingCash \in Nat /\ DailyFee \in Nat
  /\ MinutesPerDay \in Nat \ {0}
  /\ {"read_email", "send_email", "restock_machine", "set_price", "collect_cash",
      "ai_web_search"} \subseteq DOMAIN Minutes
  /\ {MaxTurns, MaxDay, MaxEmails} \subseteq Nat
  /\ \A tool \in DOMAIN Minutes : Minutes[tool] \in 1 .. MinutesPerDay

VARIABLES sim,         \* the SimulatorState
          directory,   \* contacts registered by searches; live once a real one was
          bought       \* history: units ordered of each product, and what they cost

vars == <<sim, directory, bought>>

EmptySlot == [sku |-> NoSku, quantity |-> 0, price |-> 0, capacity |-> 0]

Init ==
  /\ sim = [day |-> 0, minute |-> 0, turns |-> 0,
            cash |-> StartingCash, machineCash |-> 0,
            storage |-> [k \in Skus |-> 0],
            slots |-> [i \in Slots |-> EmptySlot],
            orders |-> <<>>, inbox |-> <<>>, scheduled |-> <<>>, emails |-> 0,
            sold |-> [k \in Skus |-> 0], revenue |-> 0,
            negativeDays |-> 0, bankrupt |-> FALSE]
  /\ directory = [found |-> {}, live |-> FALSE]
  /\ bought = [units |-> [k \in Skus |-> 0], cost |-> 0]

SumOver(f, S) == MapThenSumSet(LAMBDA x : f[x], S)

--------------------------------------------------------------------------------
(* The environment *)

\* _update_negative_balance_days: called whenever the balance changes, in the morning
\* and by collections and orders during the day.
NegativeCounted(s) ==
  LET days == IF s.cash < 0 THEN s.negativeDays + 1 ELSE 0
  IN  [s EXCEPT !.negativeDays = days, !.bankrupt = @ \/ days >= GraceDays]

\* Orders and mail due by the new day.
NotDue(queue, day) ==
  FoldLeft(LAMBDA kept, x : IF x.due > day THEN Append(kept, x) ELSE kept, <<>>, queue)

ArrivedTheDayAfter(s, k) ==
  SumOver([i \in DOMAIN s.orders |-> s.orders[i].quantity],
          {i \in DOMAIN s.orders : s.orders[i].sku = k /\ s.orders[i].due < s.day})
Arrived(s, k) ==
  SumOver([i \in DOMAIN s.orders |-> s.orders[i].quantity],
          {i \in DOMAIN s.orders : s.orders[i].sku = k /\ s.orders[i].due <= s.day})

InSlots(s, k) == {i \in Slots : s.slots[i].sku = k}
Stocked(s, k) == SumOver([i \in Slots |-> s.slots[i].quantity], InSlots(s, k))

Least(a, b) == IF a < b THEN a ELSE b

\* simulate_day: what each slot sells.  The slots of a product are emptied in order.
Sales(s, demand) ==
  [i \in Slots |->
     IF s.slots[i].sku = NoSku THEN 0
     ELSE LET k == s.slots[i].sku
              before == SumOver([j \in Slots |-> s.slots[j].quantity],
                                {j \in InSlots(s, k) : j < i})
          IN  IF demand[k] <= before THEN 0 ELSE Least(demand[k] - before, s.slots[i].quantity)]

\* A slot that is sold out by a sale loses its product, price and capacity.
SoldFrom(slot, n) ==
  IF n > 0 /\ slot.quantity = n THEN EmptySlot ELSE [slot EXCEPT !.quantity = @ - n]

\* What the demand model asks for on a day: any number of any product.
DailyDemands == [Skus -> Demands]

\* _process_morning_flow: mail, deliveries, sales, fee, report.
Morning(s, demand) ==
  LET due == Len(s.scheduled) - Len(NotDue(s.scheduled, s.day))
      sales == Sales(s, demand)
      takings == SumOver([i \in Slots |-> sales[i] * s.slots[i].price], Slots)
  IN  NegativeCounted([s EXCEPT
          !.inbox = @ \o [i \in 1 .. due |-> "reply"] \o <<"summary">>,
          !.scheduled = NotDue(@, s.day),
          !.orders = NotDue(@, s.day),
          !.storage = [k \in Skus |-> @[k] + Arrived(s, k)],
          !.slots = [i \in Slots |-> SoldFrom(@[i], sales[i])],
          !.sold = [k \in Skus |-> @[k] + SumOver(sales, InSlots(s, k))],
          !.machineCash = @ + takings,
          !.revenue = @ + takings,
          !.cash = @ - DailyFee])

\* advance_time: the turn is counted and the conditions of termination are looked at
\* before the day changes; they are recorded, and stop nothing.
Advanced(s, minutes, demand) ==
  LET turn == [s EXCEPT !.turns = Least(@ + 1, MaxTurns),
                        !.bankrupt = @ \/ s.turns + 1 >= MaxTurns]
  IN  IF s.minute + minutes < MinutesPerDay
      THEN [turn EXCEPT !.minute = @ + minutes]
      ELSE Morning([turn EXCEPT !.minute = (@ + minutes) % MinutesPerDay, !.day = @ + 1],
                   demand)

\* The tool leaves `s' and takes `minutes'.
Passes(s, minutes) ==
  /\ s.minute + minutes >= MinutesPerDay => s.day < MaxDay
  /\ \E demand \in DailyDemands : sim' = Advanced(s, minutes, demand)

--------------------------------------------------------------------------------
(* The tools *)

ReadEmail ==
  /\ Passes([sim EXCEPT !.inbox = IF @ = <<>> THEN @ ELSE Tail(@)], Minutes.read_email)
  /\ UNCHANGED <<directory, bought>>

\* _lookup_contact: after a search found a real supplier, the built-in ones that no
\* search returned are no longer answered for.
Known(c) == c \in directory.found \/ (~directory.live /\ c \in BuiltIn)

\* The offer for a product, where a hit leaves it open from the catalogue.
Price(c, k) == IF Wholesale[c] > 0 THEN Wholesale[c] ELSE UnitCost[k]
Minimum(c, k) ==
  IF MinOrder[c] > 0 THEN MinOrder[c]
  ELSE IF Capacity[k] > DefaultMinimum THEN Capacity[k] ELSE DefaultMinimum

\* What process_email makes of an order for `items' (product -> quantity) from c: it
\* asks for more (fewer units than the minimum, or account and address missing) or
\* refuses (not enough cash), or accepts.
Cost(c, items) == SumOver([k \in DOMAIN items |-> Price(c, k) * items[k]], DOMAIN items)
Accepts(c, items, complete) ==
  /\ \A k \in DOMAIN items : items[k] >= Minimum(c, k)
  /\ complete
  /\ sim.cash >= Cost(c, items)

\* The delivery days _create_order may draw; none if the range is the wrong way round,
\* in which case randint raises.
AtLeastOne(n) == IF n < 1 THEN 1 ELSE n
DueDaysNoMinimum(c) == {sim.day + n : n \in Lead[c][1] .. Lead[c][2]}
DueDays(c) == {sim.day + AtLeastOne(n) : n \in Lead[c][1] .. Lead[c][2]}

Sent(s) == [s EXCEPT !.emails = @ + 1]
Answered(s) == [s EXCEPT !.scheduled = Append(@, [due |-> s.day + 1])]

\* The confirmation of an order, with or without the help of a model.
Confirmed(s, lines) == [Answered(s) EXCEPT !.orders = @ \o lines]

\* An e-mail that is not an order, to anyone: suppliers answer the next morning.
SendInquiry(c) ==
  /\ sim.emails < MaxEmails
  /\ Passes(IF Known(c) THEN Answered(Sent(sim)) ELSE Sent(sim), Minutes.send_email)
  /\ UNCHANGED <<directory, bought>>

\* An order that the supplier does not accept.
SendRefusedOrder(c, items, complete) ==
  /\ sim.emails < MaxEmails
  /\ Known(c)
  /\ ~Accepts(c, items, complete)
  /\ Passes(Answered(Sent(sim)), Minutes.send_email)
  /\ UNCHANGED <<directory, bought>>

\* An order that is accepted: paid at once, one delivery for each product.
SendOrder(c, items, due) ==
  /\ sim.emails < MaxEmails
  /\ Known(c)
  /\ Accepts(c, items, TRUE)
  /\ LET lines == SetToSeq({[sku |-> k, quantity |-> items[k], due |-> due[k]] : k \in DOMAIN items})
         confirmed == Confirmed(Sent(sim), lines)
     IN  Passes(NegativeCounted([confirmed EXCEPT !.cash = @ - Cost(c, items)]),
                Minutes.send_email)
  /\ bought' = [units |-> [k \in Skus |->
                             bought.units[k] + (IF k \in DOMAIN items THEN items[k] ELSE 0)],
                cost |-> bought.cost + Cost(c, items)]
  /\ UNCHANGED directory

\* An order whose delivery day cannot be drawn: the tool fails with the e-mail already
\* in the outbox, no answer and no order; no time passes.
SendOrderFails(c, items) ==
  /\ sim.emails < MaxEmails
  /\ Known(c)
  /\ Accepts(c, items, TRUE)
  /\ DueDays(c) = {}
  /\ sim' = Sent(sim)
  /\ UNCHANGED <<directory, bought>>

\* restock: an empty slot gets its label before the capacity is checked, so that a
\* restock that exceeds it fails and leaves the slot labelled and empty.
Labelled(k, i) ==
  IF sim.slots[i].sku = NoSku
  THEN [EmptySlot EXCEPT !.sku = k, !.capacity = Capacity[k], !.price = BasePrice[k]]
  ELSE sim.slots[i]

FitsEmptySlot(slot, n) == n <= slot.capacity
FitsCapacity(slot, n) == slot.quantity + n <= slot.capacity

RestockMachine(k, n, i) ==
  LET slot == Labelled(k, i)
  IN  /\ i \in Fits[k]
      /\ n <= sim.storage[k]
      /\ slot.sku = k
      /\ IF FitsCapacity(slot, n)
         THEN Passes([sim EXCEPT !.slots[i] = [slot EXCEPT !.quantity = @ + n],
                                 !.storage[k] = @ - n], Minutes.restock_machine)
         ELSE sim' = [sim EXCEPT !.slots[i] = slot]
      /\ UNCHANGED <<directory, bought>>

\* set_price: every slot is checked before the first price is changed.
SetPrice(updates) ==
  /\ \A i \in DOMAIN updates : sim.slots[i].sku # NoSku
  /\ Passes([sim EXCEPT !.slots = [i \in Slots |->
                IF i \in DOMAIN updates THEN [@[i] EXCEPT !.price = updates[i]] ELSE @[i]]],
            Minutes.set_price)
  /\ UNCHANGED <<directory, bought>>

\* collect_machine_cash counts another negative day if the balance stays below zero.
Collected(s) ==
  IF s.machineCash = 0 THEN s
  ELSE NegativeCounted([s EXCEPT !.cash = @ + s.machineCash, !.machineCash = 0])

CollectCash ==
  /\ Passes(Collected(sim), Minutes.collect_cash)
  /\ UNCHANGED <<directory, bought>>

WaitForNextDay ==
  /\ Passes(sim, MinutesPerDay - sim.minute)
  /\ UNCHANGED <<directory, bought>>

\* What a live search may find, nothing if it fails or knows no product, and the
\* suppliers of the stub, as many as the caller asks for.
LiveHits == SUBSET Contacts
StubHits == SUBSET BuiltIn \ {{}}

\* register_external_contacts
Registered(contacts, live) ==
  [found |-> directory.found \cup contacts, live |-> directory.live \/ live]

\* ai_web_search: the contacts found are registered, those of the stub like live ones.
AiWebSearch(hits, stub) ==
  /\ directory' = IF hits = {} THEN Registered(stub, FALSE) ELSE Registered(hits, TRUE)
  /\ Passes(sim, Minutes.ai_web_search)
  /\ UNCHANGED bought

Orders == UNION {[ks -> Quantities] : ks \in SUBSET Skus \ {{}}}

Next ==
  \/ ReadEmail
  \/ \E c \in Contacts :
       \/ SendInquiry(c)
       \/ \E items \in Orders :
            \/ \E complete \in BOOLEAN : SendRefusedOrder(c, items, complete)
            \/ \E due \in [DOMAIN items -> DueDays(c)] : SendOrder(c, items, due)
            \/ SendOrderFails(c, items)
  \/ \E k \in Skus, n \in Quantities, i \in Slots : RestockMachine(k, n, i)
  \/ \E is \in SUBSET Slots \ {{}} : \E updates \in [is -> Prices] : SetPrice(updates)
  \/ CollectCash
  \/ WaitForNextDay
  \/ \E hits \in LiveHits, stub \in StubHits : AiWebSearch(hits, stub)

Spec == Init /\ [][Next]_vars

--------------------------------------------------------------------------------
SlotTypes == [sku : Skus \cup {NoSku}, quantity : Nat, price : Nat, capacity : Nat]
OrderTypes == [sku : Skus, quantity : Nat, due : Int]

SimTypes ==
  [day : 0 .. MaxDay, minute : 0 .. MinutesPerDay - 1, turns : 0 .. MaxTurns,
   cash : Int, machineCash : Nat,
   storage : [Skus -> Nat], slots : [Slots -> SlotTypes],
   orders : Seq(OrderTypes), inbox : Seq({"reply", "summary"}),
   scheduled : Seq([due : Int]), emails : 0 .. MaxEmails,
   sold : [Skus -> Nat], revenue : Nat,
   negativeDays : Nat, bankrupt : BOOLEAN]

\* The simulator's state has the types of SimulatorState.
TypeOK ==
  /\ sim \in SimTypes
  /\ directory \in [found : SUBSET Contacts, live : BOOLEAN]
  /\ bought \in [units : [Skus -> Nat], cost : Nat]

\* Every unit that was ordered is under way, in storage, in the machine or sold, however
\* calls fail and whatever happens overnight.
UnitsConserved ==
  \A k \in Skus :
    bought.units[k] =
      SumOver([i \in DOMAIN sim.orders |-> sim.orders[i].quantity],
              {i \in DOMAIN sim.orders : sim.orders[i].sku = k})
        + sim.storage[k] + Stocked(sim, k) + sim.sold[k]

\* No money appears or vanishes between the balance, the machine, the suppliers and fees.
MoneyConserved ==
  sim.cash + sim.machineCash + bought.cost + DailyFee * sim.day = StartingCash + sim.revenue

\* What was paid for is somewhere, in units and in money, after every call.
Conserved == UnitsConserved /\ MoneyConserved

\* After each call nothing due by today is still waiting: orders and answers arrive in
\* the morning of their day, also those made just before midnight.
NothingOverdue ==
  /\ \A i \in DOMAIN sim.orders : sim.orders[i].due > sim.day
  /\ \A i \in DOMAIN sim.scheduled : sim.scheduled[i].due > sim.day

\* A slot holds at most its capacity, of a product that fits its row; a slot without a
\* product is empty.
SlotsInOrder ==
  \A i \in Slots : LET slot == sim.slots[i] IN
    IF slot.sku = NoSku THEN slot = EmptySlot
    ELSE /\ i \in Fits[slot.sku]
         /\ slot.quantity <= Capacity[slot.sku]
         /\ slot.price > 0

\* "Bankruptcy should only trigger after 10 consecutive negative days"
\* (tests/unit/vending_bench/test_env.py), unless the turns are used up.
GraceHonored == sim.bankrupt /\ sim.turns < MaxTurns => sim.day >= GraceDays
================================================================================
