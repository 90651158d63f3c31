--------------------------- MODULE FillAccounting ---------------------------
(***************************************************************************)
(* How RunCycle counts fills: by comparing the order list and the trade    *)
(* tape of one load with those of the load before, less the orders the bot *)
(* cancelled itself (Syncer.cancelledIDs) and those the venue says it      *)
(* cancelled. The loop reads these one after another, while the control    *)
(* API's handlers cancel through the same syncer and the venue matches.    *)
(*                                                                         *)
(* Amounts are counted in lots: a trade takes one.                         *)
(***************************************************************************)
EXTENDS Naturals, FiniteSets

CONSTANTS
  Orders,      \* order ids, none used twice
  Handlers,    \* requests that may be cancelling at the same time as the loop
  Size,        \* lots of an order when it is placed
  Faults       \* what may go wrong: see AllFaults

AllFaults == {"cancel", "late", "reasons", "venue", "reserve", "tape"}
Callers == Handlers \cup {"loop"}
NoOrder == "none"

ASSUME SizeAssumption == Size \in Nat \ {0}
ASSUME NamesAssumption == "loop" \notin Handlers /\ NoOrder \notin Orders
ASSUME FaultsAssumption == Faults \subseteq AllFaults

VARIABLES
  st, size,    \* the venue's active_orders: status and remaining lots
  tape,        \* the venue's trades: the order, and what remained of it before
  noted,       \* Syncer.cancelledIDs
  call,        \* the cancel each caller is waiting for
  late,        \* cancels whose caller gave up waiting, still to be carried out
  pc,          \* where the cycle is
  new,         \* the snapshot it is loading
  ours,        \* the set TakeCancelled gave it
  observed,    \* Bot.observed: the snapshot fills were last counted against
  counted,     \* history: fills counted for each order
  excused,     \* history: times an order left the list and nothing could tell the bot why
  prompt,      \* history: orders the loop's own cancels took off since the last comparison
  seen, asked  \* history: orders in a snapshot compared so far; orders asked to be cancelled

venueVars == <<st, size, tape>>
cancelVars == <<noted, call, late, asked>>
cycleVars == <<pc, new, ours, observed>>
countVars == <<counted, excused, prompt, seen>>
vars == <<venueVars, cancelVars, cycleVars, countVars>>

Statuses == {"unknown", "active", "matching", "filled", "cancelled by us", "cancelled by venue"}
Trades == Orders \X (1..Size)
Snapshots == [tape : SUBSET Trades, list : [Orders -> 0..Size]]

TypeOK ==
  /\ st \in [Orders -> Statuses] /\ size \in [Orders -> 0..Size]
  /\ tape \subseteq Trades
  /\ noted \subseteq Orders /\ asked \subseteq Orders /\ late \subseteq Orders
  /\ call \in [Callers -> Orders \cup {NoOrder}]
  /\ pc \in {"idle", "trades", "listed", "drained", "acting"}
  /\ new \in Snapshots /\ observed \in Snapshots
  /\ ours \subseteq Orders /\ prompt \subseteq Orders /\ seen \subseteq Orders
  /\ counted \in [Orders -> Nat] /\ excused \in [Orders -> Nat]

\* After Initialize: the adopted orders rest, and are what the first load is compared with.
Init ==
  \E adopted \in SUBSET Orders :
    LET list == [o \in Orders |-> IF o \in adopted THEN Size ELSE 0]
    IN  /\ st = [o \in Orders |-> IF o \in adopted THEN "active" ELSE "unknown"]
        /\ size = list
        /\ tape = {}
        /\ noted = {} /\ late = {} /\ asked = {}
        /\ call = [c \in Callers |-> NoOrder]
        /\ pc = "idle"
        /\ new = [tape |-> {}, list |-> list]
        /\ observed = new
        /\ ours = {}
        /\ counted = [o \in Orders |-> 0] /\ excused = [o \in Orders |-> 0]
        /\ prompt = {} /\ seen = adopted

-----------------------------------------------------------------------------
(* Loader.Load: the trades, later the orders, later whatever else the market *)
(* needs; any read may fail, and the cycle with it.                          *)

ReadTrades ==
  /\ pc = "idle" /\ call["loop"] = NoOrder
  /\ pc' = "trades"
  /\ new' = [new EXCEPT !.tape = tape]
  /\ UNCHANGED <<venueVars, cancelVars, ours, observed, countVars>>

ListOrders ==
  /\ pc = "trades"
  /\ pc' = "listed"
  /\ new' = [new EXCEPT !.list = [o \in Orders |-> IF st[o] = "active" THEN size[o] ELSE 0]]
  /\ UNCHANGED <<venueVars, cancelVars, ours, observed, countVars>>

LoadFails ==
  /\ pc \in {"trades", "listed"}
  /\ pc' = "idle"
  /\ new' = observed
  /\ UNCHANGED <<venueVars, cancelVars, ours, observed, countVars>>

TakeCancelled ==
  /\ pc = "listed"
  /\ pc' = "drained"
  /\ ours' = noted
  /\ noted' = {}
  /\ UNCHANGED <<venueVars, call, late, asked, new, observed, countVars>>

-----------------------------------------------------------------------------
(* noteVenueCancels and observeFills.                                       *)

\* Faulty variant, for the mutation runs: a cycle that fails later on does not keep the snapshot.
ObservedIfCycleSucceeds == {new, observed}

\* The snapshot becomes the one to compare with, whatever becomes of the cycle.
Observed == {new}

Left == {o \in Orders : observed.list[o] > 0 /\ new.list[o] = 0}

\* Faulty variant: every order the venue answers about counts as cancelled.
AnsweredFor == Left \ ours

\* CancelReasons: the orders that left unprompted and that the venue has as cancelled.
VenueCancelled == {o \in Left \ ours : st[o] \in {"cancelled by us", "cancelled by venue"}}

\* observeOrderStateFills. Any order gone or smaller makes the order list the truth.
OrderFills(cancelled) ==
  (Left \ cancelled) \cup {o \in Orders : 0 < new.list[o] /\ new.list[o] < observed.list[o]}
HaveTruth == \E o \in Orders : new.list[o] < observed.list[o]

\* observeTradeFills.
TapeFills(o) == Cardinality({t \in new.tape \ observed.tape : t[1] = o})

Counts(cancelled) ==
  counted' = [o \in Orders |->
    counted[o] + (IF HaveTruth THEN (IF o \in OrderFills(cancelled) THEN 1 ELSE 0)
                               ELSE TapeFills(o))]

\* With unreadable reasons the bot goes by its own cancels alone.
ObserveFills ==
  /\ pc = "drained"
  /\ \/ /\ Counts(ours \cup VenueCancelled)
        /\ UNCHANGED excused
     \/ /\ "reasons" \in Faults
        /\ Counts(ours)
        /\ excused' = [o \in Orders |->
                         excused[o] + IF o \in VenueCancelled \ prompt THEN 1 ELSE 0]
  /\ observed' \in Observed
  /\ ours' = {} /\ prompt' = {}
  /\ seen' = seen \cup {o \in Orders : new.list[o] > 0}
  /\ pc' = "acting"
  /\ UNCHANGED <<venueVars, cancelVars, new>>

-----------------------------------------------------------------------------
(* The rest of the cycle: cancels and placements, and its end. A halted     *)
(* cycle cancels before it loads anything.                                  *)

\* Syncer.cancel notes the order and then calls the venue.
Ask(c, o) ==
  /\ call[c] = NoOrder
  /\ call' = [call EXCEPT ![c] = o]
  /\ noted' = noted \cup {o}
  /\ asked' = asked \cup {o}
  /\ UNCHANGED <<venueVars, late, cycleVars, countVars>>

LoopCancels(o) ==
  /\ \/ pc \in {"idle", "acting"} /\ st[o] = "active"
     \/ pc = "acting" /\ new.list[o] > 0
  /\ Ask("loop", o)

\* CancelManaged, called by a kill, a pause or a side change.
HandlerCancels(h, o) == st[o] = "active" /\ Ask(h, o)

Leaves(o) == st' = [st EXCEPT ![o] = IF @ = "active" THEN "cancelled by us" ELSE @]

\* The answer: cancelled, or not found.
CancelReturns(c) ==
  /\ call[c] # NoOrder
  /\ Leaves(call[c])
  /\ prompt' = IF c = "loop" /\ st[call[c]] = "active" THEN prompt \cup {call[c]} ELSE prompt
  /\ call' = [call EXCEPT ![c] = NoOrder]
  /\ UNCHANGED <<size, tape, noted, late, asked, cycleVars, counted, excused, seen>>

\* An error: the cancel has no effect, or is carried out after the client gave up. One such
\* cancel at a time (bound).
CancelFails(c) ==
  /\ call[c] # NoOrder
  /\ \/ "cancel" \in Faults /\ UNCHANGED late
     \/ "late" \in Faults /\ late = {} /\ late' = {call[c]}
  /\ call' = [call EXCEPT ![c] = NoOrder]
  /\ UNCHANGED <<venueVars, noted, asked, cycleVars, countVars>>

LateCancel(o) ==
  /\ o \in late
  /\ Leaves(o)
  /\ late' = late \ {o}
  /\ UNCHANGED <<size, tape, noted, call, asked, cycleVars, countVars>>

Place(o) ==
  /\ pc = "acting" /\ call["loop"] = NoOrder /\ st[o] = "unknown"
  /\ st' = [st EXCEPT ![o] = "active"]
  /\ size' = [size EXCEPT ![o] = Size]
  /\ UNCHANGED <<tape, cancelVars, cycleVars, countVars>>

\* With an error or without one: what fills are counted against is already kept.
EndCycle ==
  /\ pc = "acting" /\ call["loop"] = NoOrder
  /\ pc' = "idle"
  /\ UNCHANGED <<venueVars, cancelVars, new, ours, observed, countVars>>

-----------------------------------------------------------------------------
(* The venue.                                                               *)

Elsewhere == UNCHANGED <<cancelVars, cycleVars>>

Fill(o) ==
  /\ size' = [size EXCEPT ![o] = @ - 1]
  /\ tape' = tape \cup {<<o, size[o]>>}
  /\ st' = [st EXCEPT ![o] = IF size[o] = 1 THEN "filled" ELSE "active"]

\* Only with "tape": a trade between the loop's read of the tape and its list of orders.
InStep == pc = "trades" => "tape" \in Faults

Trade(o) ==
  /\ st[o] = "active" /\ InStep
  /\ Fill(o)
  /\ UNCHANGED countVars
  /\ Elsewhere

VenueCancels(o) ==
  /\ "venue" \in Faults /\ st[o] = "active"
  /\ st' = [st EXCEPT ![o] = "cancelled by venue"]
  /\ UNCHANGED <<size, tape, countVars>>
  /\ Elsewhere

\* The matcher takes an order out of the list while it settles. At most once per order, and
\* one order at a time (bounds).
Reserve(o) ==
  /\ "reserve" \in Faults /\ st[o] = "active" /\ excused[o] = 0
  /\ \A p \in Orders : st[p] # "matching"
  /\ st' = [st EXCEPT ![o] = "matching"]
  /\ excused' = [excused EXCEPT ![o] = @ + 1]
  /\ UNCHANGED <<size, tape, counted, prompt, seen>>
  /\ Elsewhere

Settle(o) ==
  /\ st[o] = "matching" /\ InStep
  /\ \/ Fill(o)
     \/ st' = [st EXCEPT ![o] = "active"] /\ UNCHANGED <<size, tape>>
  /\ UNCHANGED countVars
  /\ Elsewhere

-----------------------------------------------------------------------------
CycleStep ==
  \/ ReadTrades \/ ListOrders \/ LoadFails \/ TakeCancelled \/ ObserveFills \/ EndCycle
  \/ \E o \in Orders : LoopCancels(o) \/ Place(o)

CancelStep ==
  \/ \E h \in Handlers : \E o \in Orders : HandlerCancels(h, o)
  \/ \E c \in Callers : CancelReturns(c) \/ CancelFails(c)
  \/ \E o \in Orders : LateCancel(o)

VenueStep == \E o \in Orders : Trade(o) \/ VenueCancels(o) \/ Reserve(o) \/ Settle(o)

Next == CycleStep \/ CancelStep \/ VenueStep

Spec == Init /\ [][Next]_vars

-----------------------------------------------------------------------------
(* Properties.                                                              *)

Traded(o) == Cardinality({t \in tape : t[1] = o})

\* An order is counted as filled no more often than it traded, through failed cycles, cancels of
\* the loop and of handlers at any moment, cancels that land late and cancels of the venue. An order
\* the matcher took may add one; so may one that left while the reasons could not be read, but for
\* those the loop itself had just cancelled.
NoPhantomFill == \A o \in Orders : counted[o] <= Traded(o) + excused[o]

\* An order that stood in a snapshot, was never asked to be cancelled, and filled is counted by
\* the first comparison that misses it: no failed cycle, no cancel of another order and no other
\* reason the venue gives hides it.
NoFillLost ==
  \A o \in seen \ asked : st[o] = "filled" /\ observed.list[o] = 0 => counted[o] > 0

\* "Every real fill leaves one of two marks: it changes one of our resting orders, or it appears
\* on the venue's tape" (observeFills): so none is counted by both.
FillsCountOnce == \A o \in Orders : counted[o] <= Traded(o)
=============================================================================
