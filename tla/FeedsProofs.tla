----------------------------- MODULE FeedsProofs ----------------------------
(***************************************************************************)
(* Proofs about Feeds for every market, every set of prices, every band    *)
(* and every timeout, throttle, poll and cycle time.                       *)
(***************************************************************************)
EXTENDS Feeds, TLAPS

\* The parts of TypeOK.
ControlTyped ==
  /\ kind \in Kinds /\ pc \in {"down", "idle", "load", "judge", "sync", "cancel"}
  /\ ended \in {"ok", "error", "unlisted", "halted", "uncancelled"} /\ why \in Answers
ValuesTyped ==
  /\ listing \in ListingValues /\ feed \in FeedValues /\ pool \in PoolValues
  /\ last \in StampValues /\ new \in SnapshotValues
  /\ wait \in 0 .. Larger(Poll, Slack) /\ tended \in 0 .. Cap
FlagsTyped == rest \in BOOLEAN /\ ready \in BOOLEAN /\ halted \in BOOLEAN /\ calm \in BOOLEAN

\* The snapshot that is judged is younger than the last one kept, and no older than the cycle.
NewIsFresh ==
  pc \in {"judge", "sync"} => new.seen <= wait /\ new.seen <= last.seen /\ why = "ok"

\* The bot's quotes were looked after no longer ago than the last kept snapshot was read.
TendedSince ==
  /\ pc \in {"down", "idle", "load", "judge"} => tended <= last.seen
  /\ pc = "sync" => tended = new.seen
  /\ pc = "down" => last.seen = Unset

\* The round behind a snapshot of an anchored market was within its maximum age when it was read.
RoundWithin ==
  kind \in {"anchored", "pool"} =>
    /\ last.anchor = last.seen
    /\ last.seen # Unset => feed.round <= MaxAge + last.seen
    /\ pc \in {"judge", "sync"} => new.anchor = new.seen /\ feed.round <= MaxAge + new.seen

\* Between cycles both bounds hold with the time since the last cycle ended.
IdleBounds ==
  Graced => /\ tended <= Longest + wait
            /\ kind \in {"anchored", "pool"} /\ ended # "uncancelled" /\ rest
                 => feed.round <= MaxAge + Longest + wait

\* The clock of a cycle, and that of the time between two.
WaitBounded == /\ pc = "idle" => wait <= Poll
               /\ pc \notin {"down", "idle"} => wait <= Slack

(* The inductive invariant.                                                *)
IInv ==
  /\ ControlTyped /\ ValuesTyped /\ FlagsTyped
  /\ WaitBounded /\ NewIsFresh /\ TendedSince /\ RoundWithin /\ IdleBounds
  /\ BandHolds /\ RefusalClearsBook

-----------------------------------------------------------------------------
(* Facts about the constants and about ages.                               *)

LEMMA ConstantFacts ==
  /\ StaleMarket \in Nat /\ StaleBalance \in Nat /\ StaleAnchor \in Nat
  /\ MaxAge \in Nat /\ Slack \in Nat /\ Poll \in Nat
  /\ OracleRefresh \in Nat /\ PoolRefresh \in Nat /\ MarketRefresh \in Nat
  /\ OracleRefresh > 0 /\ PoolRefresh > 0 /\ MarketRefresh > 0 /\ Slack > 0 /\ Poll > 0
  /\ Prices \subseteq Nat /\ 0 \notin Prices /\ Settled \in Prices
  /\ Grace \in Nat /\ Longest \in Nat /\ Cap \in Nat /\ Unset = Cap + 1
  /\ StaleMarket <= Grace /\ StaleBalance <= Grace /\ StaleAnchor <= Grace
  /\ Grace <= Longest /\ Slack <= Longest
  /\ MaxAge + Longest + Poll < Cap
BY TimesAssumption, KindsAssumption DEF Grace, Longest, Cap, Unset, Larger, Settled

\* What Older does to a stamp.
LEMMA OlderFacts ==
  ASSUME NEW s \in Stamps
  PROVE  /\ Older(s) \in Stamps
         /\ s <= Older(s) /\ Older(s) <= s + 1
         /\ (Older(s) = Unset) = (s = Unset)
         /\ s # Unset => Older(s) <= Cap
BY ConstantFacts DEF Older, Until, Stamps

\* What the throttled reads' clocks do.
LEMMA UntilFacts ==
  ASSUME NEW b \in Nat, NEW s \in 0 .. b
  PROVE  Until(b, s) \in 0 .. b
BY DEF Until

-----------------------------------------------------------------------------
(* Facts about the reads.                                                  *)

\* A read of the oracle never makes the round older, and one that is served is within its maximum age.
LEMMA RoundsFacts ==
  ASSUME feed \in FeedValues, NEW r \in Rounds(feed)
  PROVE  /\ r.feed \in FeedValues /\ r.why \in Answers
         /\ r.feed.round <= feed.round
         /\ r.why = "ok" => r.feed.round <= MaxAge
<1> DEFINE aged(g) == [feed |-> g, why |-> IF g.round > MaxAge THEN "refused" ELSE "ok"]
           newer == {g \in [price : Prices, round : 0 .. feed.round, read : {0}] :
                       g.round = feed.round => feed.price \in {g.price, 0}}
<1> USE ConstantFacts DEF FeedValues, Answers
<1>1. CASE r = aged(feed)
  BY <1>1
<1>2. CASE r = aged([price |-> Settled, round |-> 0, read |-> 0])
  BY <1>2
<1>3. ASSUME NEW g \in newer, r = aged(g) PROVE r.feed = g /\ r.why = aged(g).why
  BY <1>3
<1>4. CASE \E g \in newer : r = aged(g)
  <2>1. PICK g \in newer : r = aged(g)
    BY <1>4
  <2>2. g \in FeedValues /\ g.round <= feed.round
    OBVIOUS
  <2>3. QED
    BY <2>1, <2>2
<1>5. CASE \E w \in {"unread", "refused"} : r = [feed |-> feed, why |-> w]
  BY <1>5
<1>6. QED
  BY <1>1, <1>2, <1>4, <1>5 DEF Rounds

\* A read of the pool answers a pool's price.
LEMMA PoolPricesFacts ==
  ASSUME pool \in PoolValues, NEW q \in PoolPrices(pool)
  PROVE  q.pool \in PoolValues /\ q.why \in Answers
BY ConstantFacts DEF PoolPrices, PoolValues, Answers

LEMMA PoolReadsFacts ==
  ASSUME pool \in PoolValues, NEW r, r.why \in Answers, NEW q \in PoolReads(r)
  PROVE  /\ q.pool \in PoolValues /\ q.why \in Answers
         /\ q.why = "ok" => r.why = "ok" /\ InBand(r.feed, q.pool)
BY PoolPricesFacts DEF PoolReads, Answers

LEMMA ListingFacts ==
  ASSUME NEW l \in ListingValues, NEW m \in GetMarket(l)
  PROVE  m \in ListingValues
BY ConstantFacts DEF GetMarket, Listings, ListingValues, Larger

\* What the anchor of a market answers, market by market.
AnchorAnswer(a) ==
  /\ a.listing \in ListingValues /\ a.feed \in FeedValues /\ a.pool \in PoolValues
  /\ a.why \in Answers /\ a.price \in Prices \cup {0} /\ a.age \in Stamps
  /\ a.feed.round <= feed.round
  /\ kind \in {"anchored", "pool"} =>
       a.stage = "anchor_data" /\ a.age = 0 /\ (a.why = "ok" => a.feed.round <= MaxAge)
  /\ kind \notin {"anchored", "pool"} => a.feed = feed /\ a.stage # "anchor_data"
  /\ kind = "pool" /\ a.why = "ok" => Distance(a.feed.price, a.price) <= Band
  /\ a.stage \notin {"exchange_market_data", "balances"}
  /\ a.why = "refused" => a.stage \in {"anchor_data", "future_state", "option_state"}
  /\ a.why = "unread" => a.stage \in {"anchor_data", "perp_state"}

LEMMA AnchorFacts ==
  ASSUME ControlTyped, ValuesTyped, NEW l \in ListingValues, NEW a \in AnchorReads(l)
  PROVE  AnchorAnswer(a)
<1>1. feed \in FeedValues /\ pool \in PoolValues /\ kind \in Kinds
  BY DEF ControlTyped, ValuesTyped
<1>2. CASE kind = "anchored"
  <2>1. PICK r \in Rounds(feed) :
          a = [feed |-> r.feed, pool |-> pool, listing |-> l, stage |-> "anchor_data",
               why |-> r.why, price |-> r.feed.price, age |-> 0]
    BY <1>2 DEF AnchorReads
  <2>2. QED
    BY <1>1, <1>2, <2>1, RoundsFacts, ConstantFacts DEF AnchorAnswer, FeedValues, Answers, Stamps
<1>3. CASE kind = "pool"
  <2> DEFINE answer(r, q) ==
        [feed |-> r.feed, pool |-> q.pool, listing |-> l, stage |-> "anchor_data",
         why |-> q.why, price |-> q.pool.price, age |-> 0]
  <2>1. PICK r \in Rounds(feed) : \E q \in PoolReads(r) : a = answer(r, q)
    BY <1>3 DEF AnchorReads
  <2>2. PICK q \in PoolReads(r) : a = answer(r, q)
    BY <2>1
  <2>3. QED
    BY <1>1, <1>3, <2>2, RoundsFacts, PoolReadsFacts, ConstantFacts
    DEF AnchorAnswer, FeedValues, PoolValues, Answers, Stamps, InBand
<1>4. CASE kind = "perp"
  <2>1. PICK m \in GetMarket(l) :
          a = [feed |-> feed, pool |-> pool, listing |-> m, stage |-> "perp_state",
               why |-> IF m.has /\ m.index THEN "ok" ELSE "unread", price |-> 0, age |-> m.age]
    BY <1>4 DEF AnchorReads
  <2>2. m \in ListingValues /\ m.age \in Stamps
    BY <1>4, <1>1, ListingFacts, ConstantFacts, PerpAssumption DEF ListingValues, Stamps, Larger
  <2>3. QED
    BY <1>1, <1>4, <2>1, <2>2, ConstantFacts DEF AnchorAnswer, FeedValues, Answers
<1>5. CASE kind \in {"future", "option"}
  <2>1. \E w \in {"ok", "refused"} :
          a = [feed |-> feed, pool |-> pool, listing |-> l,
               stage |-> IF kind = "future" THEN "future_state" ELSE "option_state",
               why |-> w, price |-> 0, age |-> 0]
    BY <1>5 DEF AnchorReads
  <2>2. QED
    BY <1>1, <1>5, <2>1, ConstantFacts DEF AnchorAnswer, FeedValues, Answers, Stamps
<1>6. CASE kind = "spot"
  <2>1. a = [feed |-> feed, pool |-> pool, listing |-> l, stage |-> "none",
             why |-> "ok", price |-> 0, age |-> Unset]
    BY <1>6 DEF AnchorReads
  <2>2. QED
    BY <1>1, <1>6, <2>1, ConstantFacts DEF AnchorAnswer, FeedValues, Answers, Stamps
<1>7. QED
  BY <1>1, <1>2, <1>3, <1>4, <1>5, <1>6, KindsAssumption

-----------------------------------------------------------------------------
(* The inductive invariant holds at the start and is kept by every step.   *)

\* What the proofs below need of the types.
LEMMA TypeFacts ==
  ASSUME ValuesTyped
  PROVE  /\ last.seen \in Stamps /\ last.anchor \in Stamps
         /\ new.seen \in Stamps /\ new.anchor \in Stamps /\ new.price \in Prices \cup {0}
         /\ feed.round \in 0 .. Cap /\ feed.read \in 0 .. OracleRefresh
         /\ pool.read \in 0 .. PoolRefresh
         /\ tended \in 0 .. Cap /\ wait \in Nat
         /\ Stamps \subseteq Nat /\ \A s \in Stamps : s <= Unset
BY ConstantFacts
DEF ValuesTyped, StampValues, SnapshotValues, FeedValues, PoolValues, Stamps, Larger

LEMMA ValueFacts ==
  /\ Zero \in StampValues /\ NoSnapshot \in SnapshotValues
  /\ Zero.seen = Unset /\ Zero.anchor = Unset
  /\ NoFeed \in FeedValues /\ NoPool \in PoolValues
  /\ 0 \in Stamps /\ 0 \in 0 .. Larger(Poll, Slack)
<1>1. NoFeed \in FeedValues /\ NoPool \in PoolValues
  BY ConstantFacts DEF NoFeed, NoPool, FeedValues, PoolValues
<1>2. QED
  BY <1>1, ConstantFacts DEF StampValues, SnapshotValues, Zero, NoSnapshot, Stamps, Larger

LEMMA StampFacts ==
  ASSUME NEW s \in Stamps, NEW t \in Stamps, NEW p \in Prices \cup {0}
  PROVE  /\ [seen |-> s, anchor |-> t] \in StampValues
         /\ [seen |-> s, anchor |-> t, price |-> p] \in SnapshotValues
BY DEF StampValues, SnapshotValues

LEMMA InitHolds == Init => IInv
<1> SUFFICES ASSUME Init PROVE IInv
  OBVIOUS
<1> USE ConstantFacts, ValueFacts DEF Init
<1>1. ControlTyped
  BY DEF ControlTyped, Answers
<1>2. ValuesTyped
  <2>1. listing \in ListingValues
    BY DEF ListingValues, Larger
  <2>2. QED
    BY <2>1 DEF ValuesTyped
<1>3. FlagsTyped
  BY DEF FlagsTyped
<1>4. WaitBounded /\ NewIsFresh /\ TendedSince /\ RoundWithin /\ IdleBounds
  BY DEF WaitBounded, NewIsFresh, TendedSince, RoundWithin, IdleBounds, Graced
<1>5. QED
  BY <1>1, <1>2, <1>3, <1>4 DEF IInv, BandHolds, RefusalClearsBook

LEMMA StartKeeps == IInv /\ Start => IInv'
<1> SUFFICES ASSUME IInv, Start PROVE IInv'
  OBVIOUS
<1>1. PICK l \in GetMarket(listing) :
        /\ listing' = l
        /\ IF l.has THEN pc' = "load" /\ wait' = 0 /\ UNCHANGED ended ELSE EndsAs("unlisted")
  BY DEF Start
<1>2. l \in ListingValues
  BY <1>1, ListingFacts DEF IInv, ValuesTyped
<1> USE <1>1, <1>2, ConstantFacts DEF Start, EndsAs, IInv
<1>3. ControlTyped'
  BY DEF ControlTyped, Answers
<1>4. ValuesTyped'
  BY ValueFacts DEF ValuesTyped
<1>5. FlagsTyped'
  BY DEF FlagsTyped
<1>6. (WaitBounded /\ NewIsFresh /\ TendedSince /\ RoundWithin /\ IdleBounds)'
  BY TypeFacts DEF WaitBounded, NewIsFresh, TendedSince, RoundWithin, IdleBounds, Graced
<1>7. (BandHolds /\ RefusalClearsBook)'
  BY DEF NewIsFresh, BandHolds, RefusalClearsBook
<1>8. QED
  BY <1>3, <1>4, <1>5, <1>6, <1>7

\* A load that fails halts, or ends the cycle within the grace of what it could not read.
LEMMA FailsKeeps ==
  ASSUME IInv, pc = "load", NEW stage, NEW w \in Answers, Fails(stage, w),
         feed' \in FeedValues, pool' \in PoolValues, listing' \in ListingValues,
         feed'.round <= feed.round, UNCHANGED <<kind, calm>>,
         w # "ok",
         \/ stage \in {"exchange_market_data", "balances", "perp_state", "future_state", "option_state"}
         \/ stage = "anchor_data" /\ kind \in {"anchored", "pool"},
         w = "refused" => stage \in {"anchor_data", "future_state", "option_state"}
  PROVE  IInv'
<1> USE ConstantFacts
<1>1. CASE HaltsFor(stage, w)
  <2> USE <1>1 DEF Fails, Halt, IInv
  <2>1. ControlTyped'
    BY DEF ControlTyped, Answers
  <2>2. ValuesTyped'
    BY DEF ValuesTyped
  <2>3. FlagsTyped'
    BY DEF FlagsTyped
  <2>4. (WaitBounded /\ NewIsFresh /\ TendedSince /\ RoundWithin /\ IdleBounds)'
    BY TypeFacts DEF WaitBounded, NewIsFresh, TendedSince, RoundWithin, IdleBounds, Graced, FeedValues
  <2>5. (BandHolds /\ RefusalClearsBook)'
    BY DEF NewIsFresh, BandHolds, RefusalClearsBook
  <2>6. QED
    BY <2>1, <2>2, <2>3, <2>4, <2>5
<1>2. CASE ~HaltsFor(stage, w)
  <2> USE <1>2 DEF Fails, EndsAs, IInv
  <2>1. stage # "perp_state" => last.seen = Unset \/ last.seen <= Grace
    BY TypeFacts DEF HaltsFor, Stale, RoundWithin
  <2>2. w # "refused"
    BY DEF HaltsFor
  <2>3. ControlTyped'
    BY DEF ControlTyped, Answers
  <2>4. ValuesTyped'
    BY ValueFacts DEF ValuesTyped
  <2>5. FlagsTyped'
    BY DEF FlagsTyped
  <2>6. (WaitBounded /\ NewIsFresh /\ TendedSince /\ RoundWithin /\ IdleBounds)'
    BY <2>1, TypeFacts DEF WaitBounded, NewIsFresh, TendedSince, RoundWithin, IdleBounds, Graced, FeedValues
  <2>7. (BandHolds /\ RefusalClearsBook)'
    BY <2>2 DEF NewIsFresh, BandHolds, RefusalClearsBook
  <2>8. QED
    BY <2>3, <2>4, <2>5, <2>6, <2>7
<1>3. QED
  BY <1>1, <1>2

LEMMA LoadKeeps == IInv /\ Load => IInv'
<1> SUFFICES ASSUME IInv, Load PROVE IInv'
  OBVIOUS
<1>1. CASE UNCHANGED caches /\ \E stage \in {"exchange_market_data", "balances"} : Fails(stage, "unread")
  <2>1. PICK stage \in {"exchange_market_data", "balances"} : Fails(stage, "unread")
    BY <1>1
  <2>2. feed' \in FeedValues /\ pool' \in PoolValues /\ listing' \in ListingValues
    BY <1>1 DEF caches, IInv, ValuesTyped
  <2>3. feed'.round <= feed.round /\ UNCHANGED <<kind, calm>> /\ pc = "load"
    BY <1>1, TypeFacts, ConstantFacts DEF Load, caches, IInv
  <2>4. QED
    BY <2>1, <2>2, <2>3, FailsKeeps DEF Answers
<1>2. ASSUME NEW a \in AnchorReads(listing),
             listing' = a.listing, feed' = a.feed, pool' = a.pool,
             IF a.why # "ok" THEN Fails(a.stage, a.why)
             ELSE /\ new' = [seen |-> 0, anchor |-> a.age, price |-> a.price]
                  /\ pc' = "judge" /\ why' = "ok"
                  /\ UNCHANGED <<wait, ended, last, rest, ready, halted, tended>>
      PROVE  IInv'
  <2>1. AnchorAnswer(a) /\ pc = "load" /\ UNCHANGED <<kind, calm>> /\ kind \in Kinds
    <3>1. listing \in ListingValues
      BY DEF IInv, ValuesTyped
    <3>2. QED
      BY <3>1, AnchorFacts DEF Load, IInv, ControlTyped
  <2>2. CASE a.why # "ok"
    <3>1. \/ a.stage \in {"exchange_market_data", "balances", "perp_state", "future_state", "option_state"}
          \/ a.stage = "anchor_data" /\ kind \in {"anchored", "pool"}
      BY <2>1, <2>2 DEF AnchorAnswer, Answers
    <3>2. QED
      BY <1>2, <2>1, <2>2, <3>1, FailsKeeps DEF AnchorAnswer
  <2>3. CASE a.why = "ok"
    <3> USE <1>2, <2>1, <2>3, ConstantFacts, ValueFacts DEF AnchorAnswer, IInv
    <3>1. ControlTyped'
      BY DEF ControlTyped, Answers
    <3>2. ValuesTyped'
      BY StampFacts DEF ValuesTyped
    <3>3. FlagsTyped'
      BY DEF FlagsTyped
    <3>4. (WaitBounded /\ NewIsFresh /\ TendedSince /\ RoundWithin /\ IdleBounds)'
      BY TypeFacts DEF WaitBounded, NewIsFresh, TendedSince, RoundWithin, IdleBounds, Graced, FeedValues
    <3>5. (BandHolds /\ RefusalClearsBook)'
      BY DEF NewIsFresh, BandHolds, RefusalClearsBook
    <3>6. QED
      BY <3>1, <3>2, <3>3, <3>4, <3>5
  <2>4. QED
    BY <2>2, <2>3
<1>3. QED
  BY <1>1, <1>2 DEF Load

LEMMA RiskHaltsKeeps == IInv /\ RiskHalts => IInv'
<1> SUFFICES ASSUME IInv, RiskHalts PROVE IInv'
  OBVIOUS
<1> USE ConstantFacts, ValueFacts DEF RiskHalts, Kept, Halt, caches, IInv
<1>1. ControlTyped'
  BY DEF ControlTyped, Answers
<1>2. ValuesTyped'
  BY StampFacts, TypeFacts DEF ValuesTyped
<1>3. FlagsTyped'
  BY DEF FlagsTyped
<1>4. (WaitBounded /\ NewIsFresh /\ TendedSince /\ RoundWithin /\ IdleBounds)'
  BY TypeFacts DEF WaitBounded, NewIsFresh, TendedSince, RoundWithin, IdleBounds, Graced
<1>5. (BandHolds /\ RefusalClearsBook)'
  BY DEF NewIsFresh, BandHolds, RefusalClearsBook
<1>6. QED
  BY <1>1, <1>2, <1>3, <1>4, <1>5

LEMMA RiskPassesKeeps == IInv /\ RiskPasses => IInv'
<1> SUFFICES ASSUME IInv, RiskPasses PROVE IInv'
  OBVIOUS
<1> USE ConstantFacts, ValueFacts DEF RiskPasses, caches, IInv
<1>1. new.seen \in 0 .. Cap
  BY TypeFacts DEF NewIsFresh, WaitBounded, Cap
<1>2. ControlTyped'
  BY DEF ControlTyped, Answers
<1>3. ValuesTyped'
  BY <1>1 DEF ValuesTyped
<1>4. FlagsTyped'
  BY DEF FlagsTyped
<1>5. (WaitBounded /\ NewIsFresh /\ TendedSince /\ RoundWithin /\ IdleBounds)'
  BY TypeFacts DEF WaitBounded, NewIsFresh, TendedSince, RoundWithin, IdleBounds, Graced
<1>6. (BandHolds /\ RefusalClearsBook)'
  BY DEF NewIsFresh, BandHolds, RefusalClearsBook
<1>7. QED
  BY <1>2, <1>3, <1>4, <1>5, <1>6

LEMMA SyncedFacts ==
  ASSUME Synced
  PROVE  /\ pc = "sync" /\ pc' = "idle" /\ wait' = 0 /\ ended' \in {"ok", "error"}
         /\ UNCHANGED <<kind, feed, tended>> /\ new' = NoSnapshot
         /\ last' = last \/ (last'.seen = new.seen /\ last'.anchor = new.anchor)
<1>1. CASE Kept
  BY <1>1 DEF Kept, Synced, EndsAs, caches
<1>2. CASE last' = last
  BY <1>2 DEF Synced, EndsAs, caches
<1>3. QED
  BY <1>1, <1>2 DEF Synced

LEMMA SyncedKeeps == IInv /\ Synced => IInv'
<1> SUFFICES ASSUME IInv, Synced PROVE IInv'
  OBVIOUS
<1> USE ConstantFacts DEF IInv
<1>1. ControlTyped'
  BY DEF Synced, EndsAs, ControlTyped, Answers
<1>2. ValuesTyped'
  BY ValueFacts, StampFacts, TypeFacts DEF Synced, Kept, EndsAs, caches, ValuesTyped
<1>3. FlagsTyped'
  BY DEF Synced, FlagsTyped
<1>4. new.seen <= wait /\ wait <= Slack /\ tended = new.seen /\ new.seen <= last.seen
  BY SyncedFacts DEF NewIsFresh, WaitBounded, TendedSince
<1>5. (WaitBounded /\ NewIsFresh /\ TendedSince)'
  BY <1>4, SyncedFacts, TypeFacts DEF WaitBounded, NewIsFresh, TendedSince
<1>6. RoundWithin'
  BY <1>4, SyncedFacts, TypeFacts DEF RoundWithin
<1>7. IdleBounds'
  BY <1>4, SyncedFacts, TypeFacts DEF RoundWithin, IdleBounds, Graced
<1>8. (BandHolds /\ RefusalClearsBook)'
  BY DEF Synced, EndsAs, NewIsFresh, BandHolds, RefusalClearsBook
<1>9. QED
  BY <1>1, <1>2, <1>3, <1>5, <1>6, <1>7, <1>8

LEMMA CancelledKeeps == IInv /\ Cancelled => IInv'
<1> SUFFICES ASSUME IInv, Cancelled PROVE IInv'
  OBVIOUS
<1> USE ConstantFacts, ValueFacts DEF Cancelled, EndsAs, IInv
<1>1. /\ pc = "cancel" /\ pc' = "idle" /\ wait' = 0 /\ tended' = 0
      /\ UNCHANGED <<kind, listing, feed, pool, last, new>>
      /\ (ended' = "halted" /\ rest' = FALSE) \/ ended' = "uncancelled"
  BY DEF caches
<1>2. ControlTyped'
  BY DEF ControlTyped, Answers
<1>3. ValuesTyped'
  BY <1>1 DEF ValuesTyped
<1>4. FlagsTyped'
  BY DEF FlagsTyped
<1>5. (WaitBounded /\ NewIsFresh /\ TendedSince /\ RoundWithin /\ IdleBounds)'
  BY <1>1, TypeFacts DEF WaitBounded, NewIsFresh, TendedSince, RoundWithin, IdleBounds, Graced
<1>6. (BandHolds /\ RefusalClearsBook)'
  BY DEF NewIsFresh, BandHolds, RefusalClearsBook
<1>7. QED
  BY <1>2, <1>3, <1>4, <1>5, <1>6

LEMMA CrashKeeps == IInv /\ Crash => IInv'
<1> SUFFICES ASSUME IInv, Crash PROVE IInv'
  OBVIOUS
<1> USE ConstantFacts, ValueFacts DEF Crash, Exit, IInv
<1>1. ControlTyped'
  BY DEF ControlTyped, Answers
<1>2. ValuesTyped'
  BY DEF ValuesTyped
<1>3. FlagsTyped'
  BY DEF FlagsTyped
<1>4. (WaitBounded /\ NewIsFresh /\ TendedSince /\ RoundWithin /\ IdleBounds)'
  BY TypeFacts DEF WaitBounded, NewIsFresh, TendedSince, RoundWithin, IdleBounds, Graced
<1>5. (BandHolds /\ RefusalClearsBook)'
  BY DEF NewIsFresh, BandHolds, RefusalClearsBook
<1>6. QED
  BY <1>1, <1>2, <1>3, <1>4, <1>5

LEMMA BootKeeps == IInv /\ Boot => IInv'
<1> SUFFICES ASSUME IInv, Boot PROVE IInv'
  OBVIOUS
<1> USE ConstantFacts, ValueFacts
<1>1. PICK l \in ListingValues : \E a \in AnchorReads(l) :
        /\ a.why = "ok"
        /\ listing' = l /\ feed' = a.feed /\ pool' = a.pool
        /\ last' = [seen |-> 0, anchor |-> a.age]
  BY DEF Boot, Listings, ListingValues, Larger
<1>2. PICK a \in AnchorReads(l) :
        /\ a.why = "ok"
        /\ listing' = l /\ feed' = a.feed /\ pool' = a.pool
        /\ last' = [seen |-> 0, anchor |-> a.age]
  BY <1>1
<1>3. AnchorAnswer(a) /\ UNCHANGED <<kind, new, calm>> /\ kind \in Kinds
  BY AnchorFacts DEF Boot, IInv, ControlTyped
<1>4. feed' \in FeedValues /\ pool' \in PoolValues /\ listing' \in ListingValues /\ last' \in StampValues
  BY <1>2, <1>3, StampFacts DEF AnchorAnswer
<1> USE <1>2, <1>3 DEF Boot, EndsAs, AnchorAnswer, IInv
<1>5. ControlTyped'
  BY DEF ControlTyped, Answers
<1>6. ValuesTyped'
  BY <1>4 DEF ValuesTyped
<1>7. FlagsTyped'
  BY DEF FlagsTyped
<1>8. (WaitBounded /\ NewIsFresh /\ TendedSince /\ RoundWithin /\ IdleBounds)'
  BY TypeFacts DEF WaitBounded, NewIsFresh, TendedSince, RoundWithin, IdleBounds, Graced, FeedValues
<1>9. (BandHolds /\ RefusalClearsBook)'
  BY DEF NewIsFresh, BandHolds, RefusalClearsBook
<1>10. QED
  BY <1>5, <1>6, <1>7, <1>8, <1>9

LEMMA BootKilledKeeps == IInv /\ BootKilled => IInv'
<1> SUFFICES ASSUME IInv, BootKilled PROVE IInv'
  OBVIOUS
<1> USE ConstantFacts, ValueFacts DEF BootKilled, EndsAs, caches, IInv
<1>1. ControlTyped'
  BY DEF ControlTyped, Answers
<1>2. ValuesTyped'
  BY DEF ValuesTyped
<1>3. FlagsTyped'
  BY DEF FlagsTyped
<1>4. (WaitBounded /\ NewIsFresh /\ TendedSince /\ RoundWithin /\ IdleBounds)'
  BY TypeFacts DEF WaitBounded, NewIsFresh, TendedSince, RoundWithin, IdleBounds, Graced
<1>5. (BandHolds /\ RefusalClearsBook)'
  BY DEF NewIsFresh, BandHolds, RefusalClearsBook
<1>6. QED
  BY <1>1, <1>2, <1>3, <1>4, <1>5

LEMMA SettleKeeps == IInv /\ Settle => IInv'
<1> SUFFICES ASSUME IInv, Settle PROVE IInv'
  OBVIOUS
<1> USE ConstantFacts, ValueFacts DEF Settle, caches, IInv
<1>1. ControlTyped'
  BY DEF ControlTyped, Answers
<1>2. ValuesTyped'
  BY DEF ValuesTyped
<1>3. FlagsTyped'
  BY DEF FlagsTyped
<1>4. (WaitBounded /\ NewIsFresh /\ TendedSince /\ RoundWithin /\ IdleBounds)'
  BY TypeFacts DEF WaitBounded, NewIsFresh, TendedSince, RoundWithin, IdleBounds, Graced
<1>5. (BandHolds /\ RefusalClearsBook)'
  BY DEF NewIsFresh, BandHolds, RefusalClearsBook
<1>6. QED
  BY <1>1, <1>2, <1>3, <1>4, <1>5

LEMMA TickKeeps == IInv /\ Tick => IInv'
<1> SUFFICES ASSUME IInv, Tick PROVE IInv'
  OBVIOUS
<1> USE ConstantFacts DEF IInv
<1>1. /\ last' = [last EXCEPT !.seen = Older(last.seen), !.anchor = Older(last.anchor)]
      /\ new' = [new EXCEPT !.seen = Older(new.seen), !.anchor = Older(new.anchor)]
      /\ feed' = [feed EXCEPT !.round = Older(feed.round), !.read = Until(OracleRefresh, feed.read)]
      /\ tended' = Older(tended)
      /\ wait' = IF pc = "down" THEN 0 ELSE wait + 1
      /\ UNCHANGED <<kind, pc, rest, ready, halted, calm, ended, why>>
  BY DEF Tick
<1>2. \A s \in 0 .. Cap : Older(s) \in 0 .. Cap /\ Older(s) <= s + 1 /\ s <= Older(s)
  BY DEF Older, Until
<1>3. /\ last'.seen = Older(last.seen) /\ last'.anchor = Older(last.anchor)
      /\ last' \in StampValues
  BY <1>1, TypeFacts, OlderFacts DEF ValuesTyped, StampValues
<1>4. /\ new'.seen = Older(new.seen) /\ new'.anchor = Older(new.anchor) /\ new'.price = new.price
      /\ new' \in SnapshotValues
  BY <1>1, TypeFacts, OlderFacts DEF ValuesTyped, SnapshotValues
<1>5. feed'.round = Older(feed.round) /\ feed' \in FeedValues /\ feed'.price = feed.price
  BY <1>1, <1>2, TypeFacts, UntilFacts DEF ValuesTyped, FeedValues
<1>6. pool' \in PoolValues
  BY TypeFacts, UntilFacts DEF Tick, ValuesTyped, PoolValues
<1>7. listing' \in ListingValues
  <2>1. \A s \in 0 .. Larger(Cap, MarketRefresh) :
          Older(s) \in 0 .. Larger(Cap, MarketRefresh)
            /\ Until(MarketRefresh, s) \in 0 .. Larger(Cap, MarketRefresh)
    BY DEF Older, Until, Larger
  <2>2. QED
    BY <2>1 DEF Tick, ValuesTyped, ListingValues
<1>8. ControlTyped'
  BY <1>1 DEF ControlTyped
<1>9. ValuesTyped'
  BY <1>1, <1>2, <1>3, <1>4, <1>5, <1>6, <1>7, TypeFacts
  DEF Tick, ValuesTyped, WaitBounded, ControlTyped, Larger
<1>10. FlagsTyped'
  BY <1>1 DEF FlagsTyped
<1>11. WaitBounded'
  BY <1>1, TypeFacts DEF Tick, WaitBounded
<1>12. (NewIsFresh /\ TendedSince)'
  BY <1>1, <1>2, <1>3, <1>4, TypeFacts DEF NewIsFresh, TendedSince, Older, Until
<1>13. RoundWithin'
  BY <1>1, <1>2, <1>3, <1>4, <1>5, TypeFacts DEF RoundWithin, Older, Until
<1>14. IdleBounds'
  BY <1>1, <1>2, <1>3, <1>5, TypeFacts, OlderFacts DEF IdleBounds, Graced
<1>15. (BandHolds /\ RefusalClearsBook)'
  BY <1>1, <1>4, <1>5 DEF BandHolds, RefusalClearsBook
<1>16. QED
  BY <1>8, <1>9, <1>10, <1>11, <1>12, <1>13, <1>14, <1>15

LEMMA StepKeeps == IInv /\ [Next]_vars => IInv'
<1>1. IInv /\ UNCHANGED vars => IInv'
  BY DEF vars, IInv, ControlTyped, ValuesTyped, FlagsTyped, WaitBounded, NewIsFresh, TendedSince,
         RoundWithin, IdleBounds, Graced, BandHolds, RefusalClearsBook
<1>2. QED
  BY <1>1, StartKeeps, LoadKeeps, RiskHaltsKeeps, RiskPassesKeeps, SyncedKeeps, CancelledKeeps,
     CrashKeeps, BootKeeps, BootKilledKeeps, SettleKeeps, TickKeeps
  DEF Next, Cycle

-----------------------------------------------------------------------------
(* The results.                                                            *)

THEOREM Invariant == Spec => []IInv
<1>1. Init => IInv
  BY InitHolds
<1>2. IInv /\ [Next]_vars => IInv'
  BY StepKeeps
<1>3. QED
  BY <1>1, <1>2, PTL DEF Spec

(* Everything the process and the venue hold stays within its type.        *)
THEOREM TypeCorrect == Spec => []TypeOK
<1>1. IInv => TypeOK
  BY DEF IInv, ControlTyped, ValuesTyped, FlagsTyped, TypeOK
<1>2. QED
  BY <1>1, Invariant, PTL

(* RunCycle never leaves resting quotes, or a process that says it is ready, without a load that   *)
(* passed the risk check or a halt's cancel-all for longer than the longest timeout (or the         *)
(* longest cycle) and a poll.                                                                       *)
THEOREM QuotesStayTended == Spec => []QuotesAreTended
<1>1. IInv => QuotesAreTended
  BY ConstantFacts, TypeFacts DEF IInv, IdleBounds, WaitBounded, QuotesAreTended, Graced
<1>2. QED
  BY <1>1, Invariant, PTL

(* handleLoadError's grace and ChainlinkAnchorSource's throttle together never let an order rest on *)
(* an oracle round older than MM_ANCHOR_CHAINLINK_MAX_AGE_SECONDS and that same time.               *)
THEOREM OracleStaysBounded == Spec => []OracleBound
<1>1. IInv => OracleBound
  BY ConstantFacts, TypeFacts DEF IInv, IdleBounds, WaitBounded, OracleBound, Graced
<1>2. QED
  BY <1>1, Invariant, PTL

(* A pool price that reaches the risk check is within MM_ANCHOR_BAND_BPS of the round the oracle's  *)
(* cache holds, however old either cache is.                                                        *)
THEOREM PoolStaysInBand == Spec => []BandHolds
<1>1. IInv => BandHolds
  BY DEF IInv
<1>2. QED
  BY <1>1, Invariant, PTL

(* Where Loader.Load is refused a price and the halt's cancels go through, no order rests when the  *)
(* cycle ends, nor afterwards until a load succeeds.                                                *)
THEOREM RefusalsClearTheBook == Spec => []RefusalClearsBook
<1>1. IInv => RefusalClearsBook
  BY DEF IInv
<1>2. QED
  BY <1>1, Invariant, PTL
=============================================================================
