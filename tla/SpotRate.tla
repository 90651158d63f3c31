------------------------------ MODULE SpotRate ------------------------------
(***************************************************************************)
(* The price that comes from outside the venue, and how old it may be when *)
(* it is served: the rate picker with a circuit breaker per source, the    *)
(* cache of the external anchor with its guard against glitches            *)
(* (ZeroExUSDCCNGNSpotExternalAnchor.Fetch), and the second cache that the *)
(* future's oracle_carry anchor puts before it.                            *)
(*                                                                         *)
(* Time is relative: a stamp is how long ago it was, up to Cap.            *)
(***************************************************************************)
EXTENDS Integers

CONSTANTS
  Providers,  \* of "picker", "oracle" (spot's external anchor) and "carry" (oracle_carry)
  Sources,    \* rateSource by priority, the least first
  Prices,     \* what a source or the oracle may answer
  MaxDev,     \* MaxDeviationBPS between one fetch and the next; 0 is no guard
  MaxAge,     \* cfg.MaxAge
  Refresh,    \* ratePickerRefreshInterval, oracleRefreshThrottle
  Carry,      \* oracle_carry's refreshInterval
  Failures,   \* ratePickerBreakerFailures
  Cooldown    \* ratePickerBreakerCooldown

ASSUME NumbersAssumption ==
  /\ {MaxAge, Refresh, Carry, Failures, Cooldown} \subseteq Nat \ {0}
  /\ MaxDev \in Nat /\ Prices \subseteq Nat \ {0}
ASSUME SourcesAssumption ==
  /\ Sources \subseteq Nat \ {0}
  /\ Providers \subseteq {"picker", "oracle", "carry"}

VARIABLES
  provider,  \* which of the three this process runs
  market,    \* what each source would answer now; 0 when it answers nothing
  round,     \* the on-chain oracle's price (0: its answer is bad) and the age of its round
  health,    \* ratePicker.health: failures in a row, time since the circuit opened
  quote,     \* s.last: the price (0: none), its age, and the time since lastFetchWall
  carried,   \* OracleCarryAnchorSource: its price (0: none) and the age of that, time since lastFetched
  served,    \* what the last call returned: the price (0: none) and its age then
  calm       \* the market stands still from here on

vars == <<provider, market, round, health, quote, carried, served, calm>>
world == <<provider, market, round, calm>>

Cap == MaxAge + Refresh + Carry   \* no age beyond it is told from another
Older(age, cap) == IF age >= cap THEN age ELSE age + 1
Closed == Cooldown + 1            \* openedAt is zero
Nothing == [price |-> 0, age |-> Cap, wall |-> Refresh + Carry]
Distance(a, b) == IF a >= b THEN a - b ELSE b - a
Quotes == [price : Prices \cup {0}, age : 0 .. Cap, wall : 0 .. Refresh + Carry]

(* What the caches may hold. *)
TypeOK ==
  /\ provider \in Providers
  /\ market \in [Sources -> Prices \cup {0}]
  /\ round \in [price : Prices \cup {0}, age : 0 .. Cap]
  /\ health \in [Sources -> [failures : 0 .. Failures, opened : 0 .. Cooldown + 1]]
  /\ quote \in Quotes /\ carried \in Quotes
  /\ served \in [price : Prices \cup {0}, age : 0 .. Cap]
  /\ calm \in BOOLEAN

Init ==
  /\ provider \in Providers
  /\ market \in [Sources -> IF provider = "picker" THEN Prices \cup {0} ELSE {0}]
  /\ round \in [price : IF provider = "picker" THEN {0} ELSE Prices, age : {0}]
  /\ health = [s \in Sources |-> [failures |-> 0, opened |-> Closed]]
  /\ quote = Nothing /\ carried = Nothing
  /\ served = [price |-> 0, age |-> Cap]
  /\ calm = FALSE

-----------------------------------------------------------------------------
(* The rate picker.                                                         *)

\* Faulty variant: an open circuit stays open.
NeverHalfOpens(h) == h

\* circuitOpen's change of state: after the cooldown the circuit is closed and the count starts again.
HalfOpened(h) ==
  IF h.opened # Closed /\ h.opened >= Cooldown THEN [failures |-> 0, opened |-> Closed] ELSE h

\* ratePicker.record.
Recorded(h, ok) ==
  IF ok THEN [failures |-> 0, opened |-> Closed]
  ELSE [failures |-> h.failures + 1,
        opened |-> IF h.failures + 1 >= Failures THEN 0 ELSE h.opened]

Asked == {s \in Sources : HalfOpened(health[s]).opened = Closed}
Answers == {s \in Asked : market[s] # 0}

HealthAfterPick ==
  [s \in Sources |-> IF s \in Asked THEN Recorded(HalfOpened(health[s]), s \in Answers) ELSE health[s]]

\* ratePicker.Pick: the answer of highest priority among the sources asked.
Picked == IF Answers = {} THEN 0 ELSE market[CHOOSE s \in Answers : \A t \in Answers : s <= t]

-----------------------------------------------------------------------------
(* The external anchor.                                                     *)

\* Faulty variant: what could not be refreshed is served however old.
CachedAnyway(q) == q

\* cachedIfFresh.
CachedIfFresh(q) == IF q.age > MaxAge THEN Nothing ELSE q

\* The deviation guard: only a price that is still fresh is a baseline.
Rejected(q, price) ==
  /\ q.price # 0 /\ MaxDev > 0 /\ q.age <= MaxAge
  /\ Distance(price, q.price) > MaxDev

\* Fetch once upstream has answered price (0: it failed) of the given age: the cache and the result.
Fetched(q, price, age) ==
  IF price = 0 \/ age > MaxAge THEN [quote |-> q, result |-> CachedIfFresh(q)]
  ELSE IF Rejected(q, price)
  THEN LET again == [q EXCEPT !.wall = 0] IN [quote |-> again, result |-> again]
  ELSE LET fresh == [price |-> price, age |-> age, wall |-> 0] IN [quote |-> fresh, result |-> fresh]

Cached == quote.price # 0 /\ quote.wall < Refresh

\* Fetch: the cache, or upstream, which is the picker or the oracle.
Fetch ==
  CASE Cached -> [quote |-> quote, result |-> quote, health |-> health]
    [] ~Cached /\ provider = "picker" ->
         LET f == Fetched(quote, Picked, 0)
         IN  [quote |-> f.quote, result |-> f.result, health |-> HealthAfterPick]
    [] OTHER ->
         LET f == Fetched(quote, round.price, round.age)
         IN  [quote |-> f.quote, result |-> f.result, health |-> health]

Serves(q) == served' = [price |-> q.price, age |-> q.age]

\* Loader.Load on cNGN spot polls the anchor every cycle.
Poll ==
  /\ provider \in {"picker", "oracle"}
  /\ quote' = Fetch.quote /\ health' = Fetch.health
  /\ Serves(Fetch.result)
  /\ UNCHANGED <<carried, world>>

\* OracleCarryAnchorSource.spotPrice takes nothing older than its maximum age.
Usable(q) == q.price # 0 /\ q.age <= MaxAge

\* OracleCarryAnchorSource.GetAnchorPrice: its own throttle before the anchor's.
PollCarry ==
  /\ provider = "carry"
  /\ IF carried.price # 0 /\ carried.wall < Carry
     THEN Serves(carried) /\ UNCHANGED <<quote, carried>>
     ELSE /\ quote' = Fetch.quote
          /\ carried' = IF Usable(Fetch.result) THEN [Fetch.result EXCEPT !.wall = 0] ELSE carried
          /\ IF Usable(Fetch.result) THEN Serves(Fetch.result) ELSE Serves(Nothing)
  /\ UNCHANGED <<health, world>>

-----------------------------------------------------------------------------
(* The world outside.                                                       *)

Move ==
  /\ ~calm
  /\ \E p \in Prices \cup {0} :
       IF provider = "picker"
       THEN \E s \in Sources : market' = [market EXCEPT ![s] = p] /\ UNCHANGED round
       ELSE round' = [price |-> p, age |-> 0] /\ UNCHANGED market
  /\ UNCHANGED <<provider, health, quote, carried, served, calm>>

\* From here on nothing moves, and the oracle keeps publishing.
Settle ==
  /\ ~calm /\ calm' = TRUE
  /\ round' = [round EXCEPT !.age = 0]
  /\ UNCHANGED <<provider, market, health, quote, carried, served>>

Tick ==
  /\ round' = [round EXCEPT !.age = IF calm \/ provider = "picker" THEN 0 ELSE Older(@, MaxAge + 1)]
  /\ health' = [s \in Sources |->
                  [health[s] EXCEPT !.opened = IF @ = Closed THEN @ ELSE Older(@, Cooldown)]]
  /\ quote' = [quote EXCEPT !.age = Older(@, Cap), !.wall = Older(@, Refresh + Carry)]
  /\ carried' = [carried EXCEPT !.age = Older(@, Cap), !.wall = Older(@, Refresh + Carry)]
  /\ UNCHANGED <<provider, market, served, calm>>

Next == Poll \/ PollCarry \/ Move \/ Settle \/ Tick
Spec == Init /\ [][Next]_vars

\* The bot polls every cycle, and time passes.
FairSpec == Spec /\ WF_vars(Poll) /\ WF_vars(PollCarry) /\ WF_vars(Tick)

-----------------------------------------------------------------------------
(* Properties.                                                              *)

(* No price is served that is older than its maximum age and one throttle interval, whatever failed *)
(* or was rejected in between; the second throttle of the future's anchor does not add to the       *)
(* first.                                                                                           *)
ServedInAge ==
  served.price # 0 =>
    served.age < MaxAge + (IF provider = "carry" THEN Carry ELSE Refresh)

\* What a market that stands still would have served: the first source that answers, or the oracle.
Truth ==
  LET up == {s \in Sources : market[s] # 0}
  IN  IF provider # "picker" THEN round.price
      ELSE IF up = {} THEN 0 ELSE market[CHOOSE s \in up : \A t \in up : s <= t]

(* Once the market stands still, the price served becomes that of the best source that answers, or  *)
(* none when none does, and stays so: neither the guard against glitches, nor an open circuit, nor  *)
(* a cache holds an old price for ever.                                                             *)
FollowsMarket == calm ~> [](served.price = Truth)
=============================================================================
