-------------------------------- MODULE Feeds -------------------------------
(***************************************************************************)
(* What a quote stands on, and when the bot stops standing on it: the      *)
(* reads of a cycle in their order (Loader.Load), the caches some of them  *)
(* go through (/markets, the Chainlink round, the pool's TWAP), the grace  *)
(* a failed read has (handleLoadError), the risk check, readiness, and the *)
(* halt whose cancel-all may itself fail.                                  *)
(*                                                                         *)
(* Time is relative: a stamp is how long ago it was, up to Cap, or Unset.  *)
(* The ladder is one flag here (Ladder has it order by order) and what the *)
(* risk check says of inventory, balances and deviation is a free choice.  *)
(***************************************************************************)
EXTENDS Integers

CONSTANTS
  Kinds,          \* of "spot" (cNGN), "anchored", "pool", "perp", "future", "option": the markets run
  Prices, Band,   \* what oracle and pool may answer, MM_ANCHOR_BAND_BPS between them
  StaleMarket,    \* MM_STALE_MARKET_DATA_TIMEOUT_SECONDS
  StaleBalance,   \* MM_STALE_BALANCE_TIMEOUT_SECONDS
  StaleAnchor,    \* MM_STALE_ANCHOR_TIMEOUT_SECONDS
  MaxAge,         \* MM_ANCHOR_CHAINLINK_MAX_AGE_SECONDS
  OracleRefresh,  \* chainlinkRefreshThrottle
  PoolRefresh,    \* poolRefreshThrottle
  MarketRefresh,  \* MM_MARKET_REFRESH_SECONDS
  Poll,           \* the longest time between two cycles
  Slack           \* the longest time a cycle takes

ASSUME TimesAssumption ==
  {StaleMarket, StaleBalance, StaleAnchor, MaxAge, OracleRefresh, PoolRefresh, MarketRefresh,
   Poll, Slack} \subseteq Nat \ {0}
ASSUME KindsAssumption ==
  /\ Kinds \subseteq {"spot", "anchored", "pool", "perp", "future", "option"}
  /\ Prices # {} /\ Prices \subseteq Nat \ {0}
\* Nothing in the code holds an operator to this: with a shorter timeout a healthy perp halts
\* whenever its copy of /markets is about to be refreshed.
ASSUME PerpAssumption == "perp" \in Kinds => MarketRefresh + Slack <= StaleAnchor

VARIABLES
  kind,     \* the market this bot quotes
  pc,       \* "down", "idle", or where the cycle is
  wait,     \* time since the last cycle ended, or since this one began
  listing,  \* HTTPClient.markets: its age, whether it has the market, whether that has an index
  feed,     \* ChainlinkAnchorSource: the round's price (0: none yet) and age, when it was read
  pool,     \* PoolBandedAnchorSource: the price and when it was read
  last,     \* Bot.snapshot's stamps: market data and balances (seen), anchor
  new,      \* those of the snapshot being judged, and its anchor price
  rest,     \* orders of this bot rest
  ready,    \* /readyz
  halted,   \* Bot.currentHalted
  calm,     \* from here on every dependency answers
  ended,    \* history: how the last cycle ended
  why,      \* history: what its load said: "ok", "unread", or "refused" (no price to stand on)
  tended    \* history: time since a load passed the risk check, or a halt tried to cancel

vars == <<kind, pc, wait, listing, feed, pool, last, new, rest, ready, halted, calm, ended, why, tended>>
caches == <<listing, feed, pool>>

Larger(a, b) == IF a >= b THEN a ELSE b
Grace == Larger(StaleMarket, Larger(StaleBalance, StaleAnchor))
Longest == Larger(Grace, Slack)
Cap == MaxAge + Grace + Poll + Slack + 1
Unset == Cap + 1
\* Faulty variant: an age that is not kept to its bound.
UntilPast(bound, age) == age + 1

Until(bound, age) == IF age >= bound THEN age ELSE age + 1
Older(age) == Until(Cap, age)
Stamps == 0 .. Unset
Zero == [seen |-> Unset, anchor |-> Unset]
NoSnapshot == [seen |-> Unset, anchor |-> Unset, price |-> 0]
NoFeed == [price |-> 0, round |-> Cap, read |-> OracleRefresh]
NoPool == [price |-> 0, read |-> PoolRefresh]
Settled == CHOOSE p \in Prices : TRUE   \* where oracle and pool stand once calm
Distance(a, b) == IF a >= b THEN a - b ELSE b - a

ListingValues == [age : 0 .. Larger(Cap, MarketRefresh), has : BOOLEAN, index : BOOLEAN]
FeedValues == [price : Prices \cup {0}, round : 0 .. Cap, read : 0 .. OracleRefresh]
PoolValues == [price : Prices \cup {0}, read : 0 .. PoolRefresh]
StampValues == [seen : Stamps, anchor : Stamps]
SnapshotValues == [seen : Stamps, anchor : Stamps, price : Prices \cup {0}]
Answers == {"ok", "unread", "refused"}

(* Everything the process and the venue may hold. *)
TypeOK ==
  /\ kind \in Kinds
  /\ pc \in {"down", "idle", "load", "judge", "sync", "cancel"}
  /\ wait \in 0 .. Larger(Poll, Slack)
  /\ listing \in ListingValues /\ feed \in FeedValues /\ pool \in PoolValues
  /\ last \in StampValues /\ new \in SnapshotValues
  /\ rest \in BOOLEAN /\ ready \in BOOLEAN /\ halted \in BOOLEAN /\ calm \in BOOLEAN
  /\ ended \in {"ok", "error", "unlisted", "halted", "uncancelled"}
  /\ why \in Answers
  /\ tended \in 0 .. Cap

Init ==
  /\ kind \in Kinds
  /\ pc = "down" /\ wait = 0
  /\ listing = [age |-> 0, has |-> TRUE, index |-> TRUE]
  /\ feed = NoFeed /\ pool = NoPool
  /\ last = Zero /\ new = NoSnapshot
  /\ rest \in BOOLEAN          \* what a dead process left
  /\ ready = FALSE /\ halted = FALSE /\ calm = FALSE
  /\ ended = "ok" /\ why = "ok" /\ tended = Cap

-----------------------------------------------------------------------------
(* The reads. Each is the set of what it may answer; once calm, the answers *)
(* are the good ones.                                                       *)

\* loadMarkets: the venue may have dropped the market, or serve the perp without its index.
Listings ==
  {l \in [age : {0}, has : BOOLEAN, index : BOOLEAN] : calm => l.has /\ l.index}

\* GetMarket. A failed refresh keeps the last good listing.
GetMarket(l) ==
  IF l.has /\ l.age < MarketRefresh THEN {l}
  ELSE Listings \cup (IF calm THEN {} ELSE {l})

\* Faulty variant: the age of a cached round is not looked at again.
RoundsTrusted(f) ==
  IF f.price # 0 /\ f.read < OracleRefresh
  THEN {[feed |-> f, why |-> "ok"]}
  ELSE {[feed |-> [price |-> p, round |-> r, read |-> 0],
         why |-> IF r > MaxAge THEN "refused" ELSE "ok"] : p \in Prices, r \in 0 .. f.round}

\* ChainlinkAnchorSource.GetAnchorPrice: a round read less than OracleRefresh ago is served again, and
\* its age is looked at in either case. A read may fail, answer a bad round, or the same round again.
Rounds(f) ==
  LET aged(g) == [feed |-> g, why |-> IF g.round > MaxAge THEN "refused" ELSE "ok"]
      newer == {g \in [price : Prices, round : 0 .. f.round, read : {0}] :
                  g.round = f.round => f.price \in {g.price, 0}}
  IN  IF f.price # 0 /\ f.read < OracleRefresh THEN {aged(f)}
      ELSE IF calm THEN {aged([price |-> Settled, round |-> 0, read |-> 0])}
      ELSE {aged(g) : g \in newer} \cup {[feed |-> f, why |-> w] : w \in {"unread", "refused"}}

\* PoolBandedAnchorSource.poolPrice.
PoolPrices(q) ==
  IF q.price # 0 /\ q.read < PoolRefresh THEN {[pool |-> q, why |-> "ok"]}
  ELSE IF calm THEN {[pool |-> [price |-> Settled, read |-> 0], why |-> "ok"]}
  ELSE {[pool |-> [price |-> p, read |-> 0], why |-> "ok"] : p \in Prices}
         \cup {[pool |-> q, why |-> w] : w \in {"unread", "refused"}}

\* Faulty variant: the band is checked when the pool is read, not when its last price is served.
InBandOnRead(f, q) == q.read # 0 \/ Distance(f.price, q.price) <= Band

InBand(f, q) == Distance(f.price, q.price) <= Band

\* PoolBandedAnchorSource.GetAnchorPrice: where the oracle refuses, the pool is not read.
PoolReads(r) ==
  IF r.why # "ok" THEN {[pool |-> pool, why |-> r.why]}
  ELSE {[pool |-> q.pool,
         why |-> IF q.why = "ok" /\ ~InBand(r.feed, q.pool) THEN "refused" ELSE q.why] : q \in PoolPrices(pool)}

\* What the anchor of each market answers under listing l: the caches it leaves, a price or none, the stamp's age.
AnchorReads(l) ==
  CASE kind = "anchored" ->
         {[feed |-> r.feed, pool |-> pool, listing |-> l, stage |-> "anchor_data",
           why |-> r.why, price |-> r.feed.price, age |-> 0] : r \in Rounds(feed)}
    [] kind = "pool" ->
         UNION {{[feed |-> r.feed, pool |-> q.pool, listing |-> l, stage |-> "anchor_data",
                  why |-> q.why, price |-> q.pool.price, age |-> 0] : q \in PoolReads(r)} : r \in Rounds(feed)}
    [] kind = "perp" ->
         {[feed |-> feed, pool |-> pool, listing |-> m, stage |-> "perp_state",
           why |-> IF m.has /\ m.index THEN "ok" ELSE "unread", price |-> 0, age |-> m.age] :
            m \in GetMarket(l)}
    [] kind \in {"future", "option"} ->
         {[feed |-> feed, pool |-> pool, listing |-> l,
           stage |-> IF kind = "future" THEN "future_state" ELSE "option_state",
           why |-> w, price |-> 0, age |-> 0] : w \in IF calm THEN {"ok"} ELSE {"ok", "refused"}}
    [] OTHER ->   \* cNGN spot: its oracle is never the snapshot's anchor and never fails the load
         {[feed |-> feed, pool |-> pool, listing |-> l, stage |-> "none",
           why |-> "ok", price |-> 0, age |-> Unset]}

-----------------------------------------------------------------------------
(* RunCycle.                                                                *)

EndsAs(how) == pc' = "idle" /\ wait' = 0 /\ ended' = how

\* syncFeeSchedule. A market that is not listed ends the cycle there.
Start ==
  /\ pc = "idle"
  /\ \E l \in GetMarket(listing) :
       /\ listing' = l
       /\ IF l.has THEN pc' = "load" /\ wait' = 0 /\ UNCHANGED ended ELSE EndsAs("unlisted")
  /\ UNCHANGED <<kind, feed, pool, last, new, rest, ready, halted, calm, why, tended>>

\* haltForReason up to its cancel-all.
Halt ==
  /\ pc' = "cancel"
  /\ halted' = TRUE
  /\ ready' = FALSE

\* Faulty variant: a stamp as old as the timeout is stale.
StaleAtTimeout(stamp, timeout) == stamp # Unset /\ stamp >= timeout

Stale(stamp, timeout) == stamp # Unset /\ stamp > timeout

\* Faulty variant: a refusal of the anchor waits for the timeout like an unread one.
HaltsForLate(stage, w) ==
  CASE stage = "anchor_data" -> Stale(last.anchor, StaleAnchor)
    [] stage = "balances" -> Stale(last.seen, StaleBalance)
    [] OTHER -> Stale(last.seen, StaleMarket)

\* Faulty variant: one stage has no case.
HaltsForMost(stage, w) ==
  CASE stage = "exchange_market_data" -> Stale(last.seen, StaleMarket)
    [] stage = "anchor_data" -> w = "refused" \/ Stale(last.anchor, StaleAnchor)
    [] stage \in {"future_state", "option_state"} -> TRUE
    [] OTHER -> FALSE

\* handleLoadError: does this failure halt now? Stage perp_state has no case.
HaltsFor(stage, w) ==
  CASE stage = "exchange_market_data" -> Stale(last.seen, StaleMarket)
    [] stage = "balances" -> Stale(last.seen, StaleBalance)
    [] stage = "anchor_data" -> w = "refused" \/ Stale(last.anchor, StaleAnchor)
    [] stage \in {"future_state", "option_state"} -> TRUE
    [] OTHER -> FALSE

Fails(stage, w) ==
  /\ why' = w
  /\ IF HaltsFor(stage, w)
     THEN Halt /\ UNCHANGED <<wait, ended>>
     ELSE EndsAs(IF stage = "perp_state" THEN "unlisted" ELSE "error") /\ UNCHANGED <<ready, halted>>
  /\ UNCHANGED <<new, last, rest, tended>>

\* Loader.Load: book, trades, balances, orders, then what this market is priced from.
Load ==
  /\ pc = "load"
  /\ \/ /\ ~calm
        /\ \E stage \in {"exchange_market_data", "balances"} : Fails(stage, "unread")
        /\ UNCHANGED caches
     \/ \E a \in AnchorReads(listing) :
          /\ listing' = a.listing /\ feed' = a.feed /\ pool' = a.pool
          /\ IF a.why # "ok" THEN Fails(a.stage, a.why)
             ELSE /\ new' = [seen |-> 0, anchor |-> a.age, price |-> a.price]
                  /\ pc' = "judge" /\ why' = "ok"
                  /\ UNCHANGED <<wait, ended, last, rest, ready, halted, tended>>
  /\ UNCHANGED <<kind, calm>>

Kept == last' = [seen |-> new.seen, anchor |-> new.anchor]

\* What risk.Evaluate finds in the snapshot's stamps.
Outdated ==
  \/ Stale(new.seen, StaleMarket) \/ Stale(new.seen, StaleBalance)
  \/ Stale(new.anchor, StaleAnchor)

\* updateReadiness, then risk.Evaluate: a stale stamp, no reference, a book far from its anchor, the
\* inventory, an order too large, a balance too low.
RiskHalts ==
  /\ pc = "judge"
  /\ Outdated \/ ~calm
  /\ Kept /\ new' = NoSnapshot
  /\ Halt
  /\ UNCHANGED <<kind, wait, caches, rest, calm, ended, why, tended>>

RiskPasses ==
  /\ pc = "judge"
  /\ ~Outdated
  /\ pc' = "sync"
  /\ ready' = TRUE
  /\ halted' = FALSE
  /\ tended' = new.seen
  /\ UNCHANGED <<kind, wait, caches, last, new, rest, calm, ended, why>>

\* The throttle, or Syncer.Sync and the save after it. An error loses the snapshot.
Synced ==
  /\ pc = "sync"
  /\ \/ Kept /\ EndsAs("ok") /\ rest' \in {rest, TRUE}
     \/ Kept /\ EndsAs("ok") /\ ~calm /\ rest' = FALSE     \* the strategy quotes nothing
     \/ ~calm /\ UNCHANGED last /\ EndsAs("error") /\ rest' \in BOOLEAN
  /\ new' = NoSnapshot
  /\ UNCHANGED <<kind, caches, ready, halted, calm, why, tended>>

\* haltForReason's cancel-all. A cancel that does not get through is tried again by the next halt.
Cancelled ==
  /\ pc = "cancel"
  /\ \/ rest' = FALSE /\ EndsAs("halted")
     \/ ~calm /\ rest' \in {rest, FALSE} /\ EndsAs("uncancelled")
  /\ tended' = 0
  /\ UNCHANGED <<kind, caches, last, new, ready, halted, calm, why>>

-----------------------------------------------------------------------------
(* The process, its operator and the clock.                                 *)

Exit ==
  /\ pc' = "down" /\ wait' = 0
  /\ last' = Zero /\ new' = NoSnapshot
  /\ feed' = NoFeed /\ pool' = NoPool
  /\ ready' = FALSE /\ halted' = FALSE

\* The process dies, or its load at boot fails and main exits. Its orders stay.
Crash ==
  /\ pc # "down" /\ ~calm
  /\ Exit
  /\ UNCHANGED <<kind, listing, rest, calm, ended, why, tended>>

\* Initialize: a new client reads /markets, the load must succeed, and orders that fit are adopted.
\* Risk is not asked until the first cycle.
Boot ==
  /\ pc = "down"
  /\ \E l \in {m \in Listings : m.has} : \E a \in AnchorReads(l) :
       /\ a.why = "ok"
       /\ listing' = l /\ feed' = a.feed /\ pool' = a.pool
       /\ last' = [seen |-> 0, anchor |-> a.age]
  /\ rest' \in {rest, FALSE}
  /\ EndsAs("ok")
  /\ ready' = TRUE /\ halted' = FALSE /\ why' = "ok" /\ tended' = 0
  /\ UNCHANGED <<kind, new, calm>>

\* Initialize under a standing kill cancels and loads nothing; the operator clears it afterwards.
BootKilled ==
  /\ pc = "down" /\ ~calm
  /\ rest' = FALSE
  /\ EndsAs("halted")
  /\ halted' = TRUE
  /\ UNCHANGED <<kind, caches, last, new, ready, calm, why, tended>>

Settle ==
  /\ ~calm /\ calm' = TRUE
  /\ UNCHANGED <<kind, pc, wait, caches, last, new, rest, ready, halted, ended, why, tended>>

\* Time passes, within what a poll and a cycle may take.
Tick ==
  /\ pc # "down" => wait < (IF pc = "idle" THEN Poll ELSE Slack)
  /\ wait' = IF pc = "down" THEN 0 ELSE wait + 1
  /\ listing' = [listing EXCEPT !.age = IF kind = "perp" THEN Older(@) ELSE Until(MarketRefresh, @)]
  /\ feed' = [feed EXCEPT !.round = Older(@), !.read = Until(OracleRefresh, @)]
  /\ pool' = [pool EXCEPT !.read = Until(PoolRefresh, @)]
  /\ last' = [last EXCEPT !.seen = Older(@), !.anchor = Older(@)]
  /\ new' = [new EXCEPT !.seen = Older(@), !.anchor = Older(@)]
  /\ tended' = Older(tended)
  /\ UNCHANGED <<kind, pc, rest, ready, halted, calm, ended, why>>

Cycle == Start \/ Load \/ RiskHalts \/ RiskPasses \/ Synced \/ Cancelled
Next == Cycle \/ Crash \/ Boot \/ BootKilled \/ Settle \/ Tick

Spec == Init /\ [][Next]_vars

\* The ticker ticks, every call returns (15 s at most), the supervisor restarts the process.
FairSpec == Spec /\ WF_vars(Cycle) /\ WF_vars(Boot) /\ WF_vars(Tick)

-----------------------------------------------------------------------------
(* Properties.                                                              *)

\* A cycle has completed since the process started, and the market is listed with what it is priced
\* from: the cases in which the code counts the grace.
Graced == pc = "idle" /\ last.seen # Unset /\ ended # "unlisted"

(* Between two cycles, quotes that rest, and a bot that says it is ready, are never left alone for  *)
(* longer than the longest timeout (or cycle) and a poll: within it a load passed the risk check,   *)
(* or a halt tried to cancel. No mix of failing reads, and no series of cycles that fail later on,  *)
(* stretches the grace.                                                                             *)
QuotesAreTended == Graced /\ (rest \/ ready) => tended <= Longest + Poll

(* What rests on an anchored market is never older, in terms of the oracle's own round, than the    *)
(* round's maximum age plus the grace of an unreadable dependency (or the longest cycle) and a      *)
(* poll, whatever the throttle serves.                                                              *)
OracleBound ==
  Graced /\ ended # "uncancelled" /\ rest /\ kind \in {"anchored", "pool"} => feed.round <= MaxAge + Longest + Poll

(* A snapshot that gets as far as the risk check has its price within the band of the round that    *)
(* the oracle holds now, both served from caches of different ages.                                 *)
BandHolds == pc \in {"judge", "sync"} /\ kind = "pool" => Distance(feed.price, new.price) <= Band

(* Where a dependency answers that there is no price, nothing rests once the cancels are through:   *)
(* no grace, and no way around the halt.                                                            *)
RefusalClearsBook == pc = "idle" /\ why = "refused" /\ ended \notin {"uncancelled", "unlisted"} => ~rest

(* Once every dependency answers, the bot is ready and not halted, and stays so: no halt outlives   *)
(* its reason.                                                                                      *)
Recovers == calm ~> [](ready /\ ~halted)
=============================================================================
