------------------------------- MODULE Ladder -------------------------------
(***************************************************************************)
(* One side of one bot's book, order by order and second by second: which  *)
(* resting order quotes which level (pairByPrice), which are replaced and  *)
(* why (evaluateCancel), what that costs of the cancel budget, what rests  *)
(* under terms the bot would not sign now, and when a quote must be rolled *)
(* because its signed expiry is near. The other side is the same code with *)
(* prices negated; the control flags and the interleaving of the calls are *)
(* QuotingLoop's, so a cycle is one step here.                             *)
(*                                                                         *)
(* Time is relative, so that no clock grows: an order keeps how long it    *)
(* has left, a cancel how long ago it was. Prices are ticks.               *)
(***************************************************************************)
EXTENDS Integers, Sequences, FiniteSets, SequencesExt

CONSTANTS
  Ladders,    \* the target ladders the strategy may ask for, best price first; <<>> quotes nothing
  Fees,       \* taker fees the venue may list
  Foreign,    \* orders others put on this side: a draining predecessor, an operator's tool
  MaxForeign, \* bound: how many of them arrive
  Life,       \* MM_ORDER_EXPIRY_SECONDS
  Margin,     \* MM_EXPIRY_REPLACE_MARGIN_SECONDS
  Slack,      \* signedExpirySlackSeconds
  Poll,       \* the longest time between two cycles: the ticker, and the calls of a cycle
  Refresh,    \* MM_QUOTE_REFRESH_INTERVAL_MS
  MaxAge,     \* MM_MAX_QUOTE_AGE_SECONDS; 0 turns it off
  Window,     \* the minute the cancel budget is counted over
  Budget,     \* MM_MAX_CANCELS_PER_MINUTE; 0 is no limit
  Tolerance,  \* MM_CANCEL_STALE_ORDER_THRESHOLD_BPS; 0 pairs by rank
  MinMove,    \* MM_MIN_PRICE_MOVE_BEFORE_REPLACE_BPS
  MinLife,    \* MM_MIN_QUOTE_LIFETIME_SECONDS
  SizeTol,    \* the size difference the venue or the configuration lets pass
  Faults      \* "call", "refuse", "depart", "crash"

ASSUME TimesAssumption ==
  /\ {Life, Margin, Slack, Poll, Refresh, MaxAge, Window, Budget} \subseteq Nat
  /\ 0 < Poll /\ 0 < Margin /\ 2 * Margin < Life   \* the last is config.Load's
ASSUME FeesAssumption == Fees \subseteq Nat /\ Fees # {}
\* A level has a price: buildLevels asks for none below a tick.
ASSUME LaddersAssumption ==
  Ladders # {} /\ \A t \in Ladders : t \in Seq([price: Nat \ {0}, size: Nat])
ASSUME KnobsAssumption == {MaxForeign, Tolerance, MinMove, MinLife, SizeTol} \subseteq Nat

VARIABLES
  up,       \* the process runs
  book,     \* resting orders in order of creation, as ListOpenOrders gives them
  stamps,   \* Syncer.cancelTimestamps: how long ago each was
  listed,   \* the taker fee at the venue
  cache,    \* the client's copy of it
  spec,     \* the bot's and the syncer's copy of it
  quiet,    \* how long ago LastQuoteUpdate is: Long is longer than anything asks, Never is unset
  wait,     \* time since the last cycle
  foreign,  \* orders of others that have arrived
  spent,    \* history: how long ago each budgeted cancel of this process was
  calm,     \* history: time since a call failed or the process started, up to Margin
  dark,     \* history: how long the side has been without an order of the bot and without excuse
  lapsed    \* history: an order of the bot lapsed on the book in calm

vars == <<up, book, stamps, listed, cache, spec, quiet, wait, foreign, spent, calm, dark, lapsed>>

Larger(a, b) == IF a >= b THEN a ELSE b
Long == Larger(Refresh, MaxAge) + 1
Never == Long + 1

\* bad is a history field: how long the order has rested under terms the bot would not sign.
Order == [price: Nat, size: Nat, left: Nat, post: BOOLEAN, fee: Nat, prot: BOOLEAN, bad: Nat]
ASSUME ForeignAssumption == \A o \in Foreign : o \in Order /\ o.left > 0 /\ o.bad = 0

TypeOK ==
  /\ up \in BOOLEAN
  /\ book \in Seq(Order)
  /\ stamps \in Seq(0 .. Window + 1)
  /\ {listed, cache, spec} \subseteq Fees
  /\ quiet \in 0 .. Never
  /\ wait \in 0 .. Poll
  /\ foreign \in 0 .. MaxForeign
  /\ spent \in Seq(0 .. Window)
  /\ calm \in 0 .. Margin
  /\ dark \in Nat
  /\ lapsed \in BOOLEAN

Init ==
  /\ up = TRUE
  /\ book = <<>> /\ stamps = <<>> /\ spent = <<>>
  /\ listed \in Fees /\ cache = listed /\ spec = listed
  /\ quiet = Never /\ wait = 0 /\ foreign = 0
  /\ calm = 0 /\ dark = 0 /\ lapsed = FALSE

Own(o) == ~o.prot

\* The sequence s at some of its places alone, in their order.
InOrder(places) ==
  [k \in 1 .. Cardinality(places) |-> CHOOSE i \in places : Cardinality({j \in places : j < i}) = k - 1]
At(s, places) == [k \in 1 .. Cardinality(places) |-> s[InOrder(places)[k]]]

-----------------------------------------------------------------------------
(* Pairing resting orders with levels.                                      *)

Distance(a, b) == IF a >= b THEN a - b ELSE b - a

\* groupOrdersBySide ranks the best price first, and of equals the one listed first.
Better(b, i, j) == b[i].price > b[j].price \/ (b[i].price = b[j].price /\ i < j)
Ranked(b, places) ==
  [k \in 1 .. Cardinality(places) |->
     CHOOSE i \in places : Cardinality({j \in places : Better(b, j, i)}) = k - 1]

\* The free order nearest to price, the best-ranked of equals; 0 if none is at one of the distances
\* in within.
Nearest(b, free, price, within) ==
  LET off(i) == Distance(b[i].price, price)
      near == {i \in free : off(i) \in within}
  IN  IF near = {} THEN 0
      ELSE CHOOSE i \in near : \A j \in near \ {i} :
             off(i) < off(j) \/ (off(i) = off(j) /\ Better(b, i, j))

\* Which order each level claims: levels that an order already quotes first, then the leftovers.
Claims(b, targets) ==
  LET near[k \in 0 .. Len(targets)] ==
        IF k = 0 THEN <<>>
        ELSE LET claimed == near[k - 1]
             IN  Append(claimed, Nearest(b, DOMAIN b \ Range(claimed), targets[k].price, 0 .. Tolerance - 1))
      all[k \in 0 .. Len(targets)] ==
        IF k = 0 THEN near[Len(targets)]
        ELSE LET claimed == all[k - 1]
             IN  IF claimed[k] # 0 THEN claimed
                 ELSE [claimed EXCEPT ![k] =
                        Nearest(b, DOMAIN b \ Range(claimed), targets[k].price, Nat)]
  IN  all[Len(targets)]

\* Faulty variant: the order's rank decides, so that one missing order shifts all below it.
SlotsByRank(b, targets) ==
  LET ranked == Ranked(b, DOMAIN b)
      n == Larger(Len(b), Len(targets))
  IN  [i \in 1 .. n |-> [order |-> IF i <= Len(b) THEN ranked[i] ELSE 0,
                         level |-> IF i <= Len(targets) THEN i ELSE 0]]

\* pairByPrice: a slot per level, then one for each order that no level claims.
Slots(b, targets) ==
  IF Tolerance = 0 THEN SlotsByRank(b, targets)
  ELSE LET claims == Claims(b, targets)
           rest == Ranked(b, DOMAIN b \ Range(claims))
       IN  [k \in 1 .. Len(targets) |-> [order |-> claims[k], level |-> k]]
             \o [j \in 1 .. Len(rest) |-> [order |-> rest[j], level |-> 0]]

-----------------------------------------------------------------------------
(* Whether a resting order is kept.                                         *)

\* expiryBeyondConfig; never for protected orders.
BeyondConfig(o) == ~o.prot /\ o.left > Life + Slack

\* staleTermsReason: the order does not carry what this process would sign now. An order's fee is
\* the one it was signed for, so the headroom both bounds carry cancels out.
StaleTerms(o, fee) == ~o.post \/ BeyondConfig(o) \/ o.fee < fee

Expiring(o) == o.left <= Margin
SizeWrong(o, target) == Distance(o.size, target.size) > SizeTol

\* quoteAge. Orders signed for longer than Life are replaced before it is asked for.
Age(o) == IF o.left <= Life THEN Life - o.left ELSE 0

\* Faulty variant: the terms are judged at startup only.
DecideButTerms(o, target, fee) ==
  IF target.price = 0 THEN "no_target"
  ELSE IF Expiring(o) /\ Own(o) THEN "expiring"
  ELSE IF SizeWrong(o, target) THEN "size_mismatch"
  ELSE IF Distance(o.price, target.price) >= Tolerance THEN "stale_or_wrong"
  ELSE "keep"

\* evaluateCancel, with price 0 for no target. The strategy never crosses its own ladder (see
\* Quotes), so the guard against that is left out.
Decide(o, target, fee) ==
  IF target.price = 0 THEN "no_target"
  ELSE IF StaleTerms(o, fee) THEN "stale_terms"
  ELSE IF Expiring(o) /\ Own(o) THEN "expiring"
  ELSE IF SizeWrong(o, target) THEN "size_mismatch"
  ELSE LET drift == Distance(o.price, target.price)
       IN  IF drift < Tolerance THEN "keep"
           ELSE IF Age(o) < MinLife \/ drift < MinMove THEN "suppress"
           ELSE "stale_or_wrong"

\* Which cancels count against the budget, and wait for it.
Budgeted(reason) == reason \in {"size_mismatch", "stale_or_wrong"}
NoTarget == [price |-> 0, size |-> 0]

\* Faulty variants: the minute is cut short; nothing is dropped.
PruneNever(s) == s
PruneEarly(s) == At(s, {i \in DOMAIN s : s[i] < Window})

\* pruneCancelTimestamps drops what is older than a minute.
Prune(s) == At(s, {i \in DOMAIN s : s[i] <= Window})
CanUseCancelSlot(s) == Budget = 0 \/ Len(Prune(s)) < Budget

-----------------------------------------------------------------------------
(* A pass over one side. cut is the number of calls that succeed before one *)
(* fails, refused the levels whose post-only order would take, known the    *)
(* schedule the syncer judges by, fee the one the client signs with.        *)

Placed(target, fee) ==
  [price |-> target.price, size |-> target.size, left |-> Life, post |-> TRUE,
   fee |-> fee, prot |-> FALSE, bad |-> 0]

\* Faulty variant: a replace that the budget puts off frees its slot.
FreesPutOff(slot, reason, cancels) == slot.order = 0 \/ reason \notin {"keep", "suppress"}

\* Is the level of this slot placed?
Frees(slot, reason, cancels) == slot.order = 0 \/ cancels

\* One slot: the calls it makes, with r what the pass has done so far.
Slot(b, targets, slot, r, cut, refused, known, fee) ==
  LET target == IF slot.level = 0 THEN NoTarget ELSE targets[slot.level]
      reason == IF slot.order = 0 THEN "keep" ELSE Decide(b[slot.order], target, known)
      cancels == /\ slot.order # 0 /\ reason \notin {"keep", "suppress"}
                 /\ Budgeted(reason) => CanUseCancelSlot(r.stamps)
      sent == cancels /\ Own(b[slot.order])        \* Syncer.cancel skips a protected order
      cancelFails == sent /\ r.calls = cut
      calls == r.calls + (IF sent THEN 1 ELSE 0)
      places == Frees(slot, reason, cancels) /\ slot.level # 0 /\ ~cancelFails
      placeFails == places /\ calls = cut
      counted == sent /\ ~cancelFails /\ Budgeted(reason)
  IN  IF r.failed THEN r
      ELSE [gone    |-> IF sent /\ ~cancelFails THEN r.gone \cup {slot.order} ELSE r.gone,
            placed  |-> IF places /\ ~placeFails /\ slot.level \notin refused
                          THEN Append(r.placed, Placed(target, fee)) ELSE r.placed,
            stamps  |-> IF counted THEN Append(Prune(r.stamps), 0) ELSE r.stamps,
            spent   |-> IF counted THEN Append(r.spent, 0) ELSE r.spent,
            changed |-> r.changed \/ (cancels /\ ~cancelFails) \/ (places /\ ~placeFails),
            calls   |-> calls + (IF places THEN 1 ELSE 0),
            failed  |-> cancelFails \/ placeFails]

\* reconcileSide over the listed book b.
Pass(b, targets, cut, refused, known, fee) ==
  LET slots == Slots(b, targets)
      done[k \in 0 .. Len(slots)] ==
        IF k = 0 THEN [gone |-> {}, placed |-> <<>>, stamps |-> stamps, spent |-> spent,
                       changed |-> FALSE, calls |-> 0, failed |-> FALSE]
        ELSE LET r == done[k - 1] IN Slot(b, targets, slots[k], r, cut, refused, known, fee)
  IN  done[Len(slots)]

\* The book b without the orders at the places in gone.
Without(b, gone) == At(b, DOMAIN b \ gone)
OwnPlaces(b) == {i \in DOMAIN b : Own(b[i])}

-----------------------------------------------------------------------------
(* RunCycle.                                                                *)

\* The bot's and the client's copies of the schedule: refreshed when the cache is due and
\* /markets answers, else what they were (GetMarket keeps the last good one).
Schedule == {cache, listed}

\* After a failed call, what rests under old terms has a new claim to be replaced in time.
Excused(b) == [i \in DOMAIN b |-> [b[i] EXCEPT !.bad = 0]]

\* A cycle that ends in an error: cancels some of the side and keeps the rest.
Broken(b, gone) ==
  /\ book' = Excused(Without(b, gone))
  /\ calm' = 0
  /\ dark' = 0

\* Faulty variant: the throttle does not look at the orders' expiry.
ThrottlesExpiring(b) == quiet < Refresh /\ Len(b) > 0

\* Is the refresh throttle in force? LastQuoteUpdate is recent, something rests, and no order is in
\* its margin. (A pending operator change lifts it: QuotingLoop.)
Throttles(b) ==
  /\ quiet < Refresh
  /\ Len(b) > 0
  /\ \A i \in DOMAIN b : ~Expiring(b[i])

\* A cycle that finds the side quoted leaves it dark from now at the earliest.
Unlit(b) == IF b = <<>> THEN dark ELSE 0

\* Faulty variant: the age counts on an empty book too.
TooOldEmpty(b) == MaxAge > 0 /\ quiet > MaxAge /\ quiet # Never

\* risk.Evaluate's quote age: nothing on this book changed for MaxAge.
TooOld(b) == MaxAge > 0 /\ Len(b) > 0 /\ quiet > MaxAge /\ quiet # Never

StartCycle(fee) ==
  /\ up
  /\ fee \in Schedule
  /\ spec' = fee   \* syncFeeSchedule records it before it cancels anything for it
  /\ wait' = 0
  /\ UNCHANGED <<up, listed, foreign, lapsed>>

\* What the load lists: after a raise, the book that the cancel-all left.
Listed(fee) == IF fee > spec THEN Without(book, OwnPlaces(book)) ELSE book

\* A cancel-all for a raised fee that does not get through ends the cycle.
FeeCancelFails(fee) ==
  /\ StartCycle(fee) /\ "call" \in Faults
  /\ fee > spec
  /\ \E gone \in SUBSET OwnPlaces(book) : gone # OwnPlaces(book) /\ Broken(book, gone)
  /\ cache' = fee
  /\ UNCHANGED <<stamps, quiet, spent>>

\* The load fails, or something before the throttle does.
LoadFails(fee) ==
  /\ StartCycle(fee) /\ "call" \in Faults
  /\ Broken(Listed(fee), {})
  /\ cache' = fee
  /\ UNCHANGED <<stamps, quiet, spent>>

\* risk.Evaluate's "quote age exceeded": the side is cancelled, call failures or not.
AgeHalts(fee) ==
  /\ StartCycle(fee)
  /\ TooOld(Listed(fee))
  /\ \/ /\ book' = Without(Listed(fee), OwnPlaces(Listed(fee)))
        /\ dark' = Unlit(Listed(fee))
        /\ UNCHANGED calm
     \/ "call" \in Faults /\ \E gone \in SUBSET OwnPlaces(Listed(fee)) : Broken(Listed(fee), gone)
  /\ cache' = fee
  /\ UNCHANGED <<stamps, quiet, spent>>

Throttled(fee) ==
  /\ StartCycle(fee)
  /\ ~TooOld(Listed(fee))
  /\ Throttles(Listed(fee))
  /\ book' = Listed(fee)
  /\ cache' = fee
  /\ dark' = Unlit(Listed(fee))
  /\ UNCHANGED <<stamps, quiet, spent, calm>>

\* Sync. The client may refresh its schedule again before it signs.
Sync(fee, targets, cut, refused, signed) ==
  /\ StartCycle(fee)
  /\ ~TooOld(Listed(fee)) /\ ~Throttles(Listed(fee))
  /\ LET b == Listed(fee)
         r == Pass(b, targets, cut, refused, spec', signed)
     IN  /\ IF r.failed
              THEN book' = Excused(Without(b, r.gone) \o r.placed) /\ calm' = 0
              ELSE book' = Without(b, r.gone) \o r.placed /\ UNCHANGED calm
         /\ dark' = 0
         /\ stamps' = r.stamps
         /\ spent' = r.spent
         /\ quiet' = IF r.changed /\ ~r.failed THEN 0 ELSE quiet
         /\ cache' = IF r.placed = <<>> THEN fee ELSE signed

\* The number of calls a pass can make is below NoCut. A pass whose first call fails changes as
\* much as LoadFails does.
NoCut == 99
Endings ==
  [cut : {NoCut}, refused : IF "refuse" \in Faults THEN {{}, {1}} ELSE {{}}]
    \cup [cut : IF "call" \in Faults THEN {1} ELSE {}, refused : {{}}]

Cycle ==
  \E fee \in Schedule :
    \/ FeeCancelFails(fee) \/ LoadFails(fee) \/ AgeHalts(fee) \/ Throttled(fee)
    \/ \E targets \in Ladders, end \in Endings, signed \in {fee, listed} :
         Sync(fee, targets, end.cut, end.refused, signed)

-----------------------------------------------------------------------------
(* Startup reconciliation.                                                  *)

\* startupRejectReason: not the bot's, or under terms it would not sign now.
Rejected(o, fee) == o.prot \/ StaleTerms(o, fee)
\* adoptionMismatchReason against the best level.
Mismatch(o, targets) ==
  \/ targets = <<>>
  \/ Distance(o.price, targets[1].price) >= Tolerance
  \/ SizeWrong(o, targets[1])
Candidates(b, fee) == {i \in DOMAIN b : ~Rejected(b[i], fee)}

\* Faulty variant: what is near enough in price is adopted whatever its size.
AdoptedAnySize(b, targets, fee) ==
  {i \in Candidates(b, fee) : targets # <<>> /\ Distance(b[i].price, targets[1].price) < Tolerance}

\* The one order a boot keeps: a side with two candidates keeps neither.
Adopted(b, targets, fee) ==
  {i \in Candidates(b, fee) : Cardinality(Candidates(b, fee)) = 1 /\ ~Mismatch(b[i], targets)}

Boot(targets) ==
  /\ ~up
  /\ LET doomed == OwnPlaces(book) \ Adopted(book, targets, listed)
     IN  \/ /\ up' = TRUE
            /\ book' = Excused(Without(book, doomed))
         \/ /\ "call" \in Faults                    \* a cancel fails, and with it the boot
            /\ up' = FALSE
            /\ \E gone \in SUBSET doomed : gone # doomed /\ book' = Without(book, gone)
  /\ cache' = listed /\ spec' = listed
  /\ stamps' = <<>> /\ spent' = <<>>
  /\ quiet' = Never /\ wait' = 0 /\ calm' = 0 /\ dark' = 0
  /\ UNCHANGED <<listed, foreign, lapsed>>

\* What the process holds is lost; Boot sets it anew.
Crash ==
  /\ up /\ "crash" \in Faults
  /\ up' = FALSE
  /\ cache' = listed /\ spec' = listed
  /\ stamps' = <<>> /\ spent' = <<>>
  /\ quiet' = Never /\ wait' = 0 /\ calm' = 0 /\ dark' = 0
  /\ book' = Excused(book)
  /\ UNCHANGED <<listed, foreign, lapsed>>

-----------------------------------------------------------------------------
(* Time and the venue.                                                      *)

Older(s) == [i \in DOMAIN s |-> s[i] + 1]
Aged(o) == [o EXCEPT !.left = @ - 1, !.bad = IF up /\ Own(o) /\ StaleTerms(o, spec) THEN @ + 1 ELSE 0]

\* A second passes. Cycles are at most Poll apart; orders whose expiry is reached leave.
Tick ==
  /\ up => wait < Poll
  /\ LET aged == [i \in DOMAIN book |-> Aged(book[i])]
     IN  book' = At(aged, {i \in DOMAIN aged : aged[i].left > 0})
  /\ lapsed' = (lapsed \/ (up /\ calm = Margin /\ \E i \in DOMAIN book : Own(book[i]) /\ book[i].left = 1))
  /\ stamps' = Prune(Older(stamps))
  /\ spent' = LET old == Older(spent) IN At(old, {i \in DOMAIN old : old[i] <= Window})
  /\ quiet' = IF quiet >= Long THEN quiet ELSE quiet + 1
  /\ wait' = IF up THEN wait + 1 ELSE wait
  /\ calm' = IF up /\ calm < Margin THEN calm + 1 ELSE calm
  /\ dark' = IF up /\ book = <<>> THEN IF dark > Poll THEN dark ELSE dark + 1 ELSE 0
  /\ UNCHANGED <<up, listed, cache, spec, foreign>>

\* The venue changes its fee.
ListFee(fee) ==
  /\ fee # listed
  /\ listed' = fee
  /\ UNCHANGED <<up, book, stamps, cache, spec, quiet, wait, foreign, spent, calm, dark, lapsed>>

\* A predecessor that is still draining places an order under its own terms, or an operator's
\* tool places a protected one.
Arrive(o) ==
  /\ foreign < MaxForeign
  /\ book' = Append(book, o)
  /\ foreign' = foreign + 1
  /\ UNCHANGED <<up, stamps, listed, cache, spec, quiet, wait, spent, calm, dark, lapsed>>

\* An order is filled, or the venue takes it off.
Depart(i) ==
  /\ "depart" \in Faults
  /\ i \in DOMAIN book
  /\ book' = Without(book, {i})
  /\ UNCHANGED <<up, stamps, listed, cache, spec, quiet, wait, foreign, spent, calm, dark, lapsed>>

Next ==
  \/ Cycle
  \/ \E targets \in Ladders : Boot(targets)
  \/ Crash \/ Tick
  \/ \E fee \in Fees : ListFee(fee)
  \/ \E o \in Foreign : Arrive(o)
  \/ \E i \in DOMAIN book : Depart(i)

Spec == Init /\ [][Next]_vars

-----------------------------------------------------------------------------
(* Properties.                                                              *)

\* On a quiet book every quote is rolled before its signed expiry, whatever the throttle, the
\* minimum lifetime and the cancel budget say, as long as no call failed within the margin
\* (evaluateCancel: "a stable ladder silently expires, the book goes dark for a cycle").
NoneLapses == ~lapsed

\* In no minute of a process are more price and size replacements cancelled than the budget
\* allows (MM_MAX_CANCELS_PER_MINUTE).
BudgetKept == Budget > 0 => Len(spent) <= Budget

\* An order under terms this process would not sign (post-only, fee, expiry), also one that a
\* draining predecessor places after the boot, is gone within the refresh interval and a poll,
\* or what is left of it after a failed call.
StaleTermsGo == \A i \in DOMAIN book : book[i].bad <= Refresh + Poll

\* Failed calls, put-off replaces, refused and foreign orders and restarts never add up to more
\* orders than the ladder has levels, but for those that others placed. A protected order is
\* outside it: its slot counts as free and is placed anew at every pass, and each cancel that
\* fails then leaves one order more.
LadderBound ==
  (\A o \in Foreign : ~o.prot) => Len(book) <= Max({Len(t) : t \in Ladders}) + foreign

\* What a full pass over the book as it stands would do for targets.
FullPass(targets) == Pass(book, targets, NoCut, {}, spec, cache)

Near(o, target) == Distance(o.price, target.price) < Tolerance
Fits(o, target) == Near(o, target) /\ ~SizeWrong(o, target)

\* A rung that quotes its level, and is alone near it, is kept wherever the rest of the ladder is:
\* a missing order above it does not shift it (pairByPrice: 2026-10-01).
RungsStay ==
  \A targets \in Ladders : \A i \in DOMAIN book :
    LET o == book[i]
        levels == {k \in DOMAIN targets : Near(o, targets[k])}
    IN  /\ Own(o) /\ ~StaleTerms(o, spec) /\ ~Expiring(o) /\ levels # {}
        /\ \A k \in levels : Fits(o, targets[k])
        /\ \A j \in DOMAIN book \ {i}, k \in levels : ~Near(book[j], targets[k])
        => i \notin FullPass(targets).gone

\* Startup and the cycle judge an order alike: what a boot adopts, the next cycle for the same
\* targets keeps, unless it is due to be rolled (adoptionMismatchReason's comment).
AdoptedIsKept ==
  \A targets \in Ladders : \A i \in Adopted(book, targets, listed) :
    Decide(book[i], targets[1], listed) \in {"keep", "expiring"}

\* A side with targets and nothing resting is quoted again by the next cycle: no halt, budget or
\* throttle leaves it dark.
NeverDark == dark <= Poll
=============================================================================
