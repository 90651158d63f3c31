---------------------------- MODULE QuotingLoop ----------------------------
(***************************************************************************)
(* The quoting loop against the operator and the venue: what              *)
(* execution.Bot.RunCycle and Initialize, the Syncer, the control API's    *)
(* handlers, control.Controller and the order book do to one another when  *)
(* their steps interleave. One process quotes one market (one bot) or the  *)
(* strikes of an option series (one bot each, cycles run side by side      *)
(* under one controller).                                                  *)
(*                                                                         *)
(* Every request to the venue is a step of its own, so anything may happen *)
(* between two of them. Prices and sizes are left out: whether a resting   *)
(* order is kept or replaced, whether a side is quoted at all, and whether *)
(* risk halts are choices of the environment. The state file is the        *)
(* register that module ControlStore implements.                           *)
(***************************************************************************)
EXTENDS Naturals, FiniteSets

CONSTANTS
  Bots,         \* the bots of the process
  Handlers,     \* HTTP requests that may be in progress at the same time
  Levels,       \* QuoteLevels: targets per quoted side
  MaxLive,      \* bound: orders of one bot and side that the model can tell apart
  Stops,        \* the stops an operator may set: "kill", "pause", or a side taken off
  Releases,     \* what an operator may undo or change: see Release below
  Faults,       \* what may go wrong, or change, outside the program: see Faulty below
  SharedFile    \* the loop writes the controller's state file (FALSE: the options process)

Sides == {"buy", "sell"}
AllStops == {"kill", "pause"} \cup Sides
AllReleases == {"resume", "clear", "adjust"} \cup Sides
AllFaults == {"risk", "load", "cancel", "place", "timeout", "refuse", "suppress", "replace", "expiring",
              "fee", "disk", "depart", "reserve", "crash", "kill_file"}

ASSUME LevelsAssumption == Levels \in Nat \ {0}
ASSUME MaxLiveAssumption == MaxLive \in Nat \ {0}
ASSUME OperatorAssumption == Stops \subseteq AllStops /\ Releases \subseteq AllReleases
ASSUME FaultsAssumption == Faults \subseteq AllFaults
ASSUME SharedFileAssumption == SharedFile \in BOOLEAN

Orders == [bot : Bots, side : Sides, n : 1..MaxLive]
NoOrder == [bot |-> "none", side |-> "none", n |-> 0]

VARIABLES
  \* control.Controller, its state file, and the kill-switch file
  killed, paused, enabled, dirty, wake, disk, killFile,
  \* the venue: an order is unknown, on its way, resting, or reserved by the matcher
  st,
  \* each bot: where it is, the orders it still has to look at, the sides it quotes, the side
  \* and the targets left in this pass, why it cancels everything, whether a cancel failed,
  \* whether this pass changed the book, its request in flight, and whether its last quote
  \* update is younger than the refresh interval
  pc, left, targets, at, need, why, failed, changed, req, recent,
  \* each handler: where it is, the stop it applies, the bots whose orders it has not listed,
  \* the orders it has listed and not cancelled, and whether all went well so far, its stop
  \* not lifted by a release meanwhile
  hpc, hstop, hbots, hleft, hok,
  \* no operator, fault or fill from here on
  calm,
  \* history: orders accepted under a stop; orders out of its reach (reserved or given back by
  \* the matcher, or sent by a process that died or by a call that timed out); stops answered
  \* with a clean result;
  \* changes not yet in the book of a bot, by whether they arrived while a cycle ran ("mid")
  \* or between two cycles ("idle"), and whether the bot has built quotes with them since
  since, strays, answered, owed

ctlVars == <<killed, paused, enabled>>
signalVars == <<dirty, wake>>
bookVars == <<st, strays>>
fileVars == <<disk, killFile>>
passVars == <<targets, at, need, changed>>
cancelVars == <<why, failed>>
botVars == <<pc, left, passVars, cancelVars, req, recent>>
handlerVars == <<hpc, hstop, hbots, hleft, hok>>
historyVars == <<since, strays, answered, owed>>
vars == <<ctlVars, signalVars, fileVars, st, botVars, handlerVars, calm, historyVars>>

-----------------------------------------------------------------------------
(* Stops.                                                                   *)

On(g) == CASE g = "kill" -> killed
           [] g = "pause" -> paused
           [] OTHER -> g \notin enabled

Covers(g) == IF g \in Sides THEN {g} ELSE Sides

\* Faulty variant, for the mutation runs: the kill flag is not asked before a placement.
AllowPlaceUnlessPaused(side) == ~paused /\ side \in enabled

\* Controller.AllowPlace.
AllowPlace(side) == ~killed /\ ~paused /\ side \in enabled

\* An environment step of this kind may happen.
Faulty(f) == f \in Faults /\ ~calm

-----------------------------------------------------------------------------
(* Orders.                                                                  *)

OfBot(b) == {o \in Orders : o.bot = b}
OnSide(os, side) == {o \in os : o.side = side}

\* ListOpenOrders: what rests. An order the matcher has reserved is not in the answer.
Resting(b) == {o \in OfBot(b) : st[o] = "active"}

\* An order nobody knows of, so that its identity can stand for a new one.
Unused(o) ==
  /\ st[o] = "none"
  /\ \A b \in Bots : o \notin left[b] /\ o # req[b]
  /\ \A h \in Handlers : o \notin hleft[h]
  /\ \A g \in AllStops : o \notin since[g]

Fresh(b, side) == {o \in OnSide(OfBot(b), side) : Unused(o)}
NextFresh(b, side) == {o \in Fresh(b, side) : \A p \in Fresh(b, side) : o.n <= p.n}

\* CancelOrder at the venue: an active order leaves the book, any other is "not found".
CancelLands(o) ==
  IF st[o] = "active"
    THEN st' = [st EXCEPT ![o] = "none"] /\ strays' = strays \ {o}
    ELSE UNCHANGED bookVars

-----------------------------------------------------------------------------
PcValues == {"down", "boot", "wait", "check", "observe", "decide", "sync", "gate", "post",
             "finish", "list", "cancel"}
WhyValues == {"none", "halt", "fee", "boot_halt", "reconcile"}

ControlTypes ==
  /\ killed \in BOOLEAN /\ paused \in BOOLEAN /\ enabled \subseteq Sides
  /\ dirty \in BOOLEAN /\ wake \in BOOLEAN
  /\ disk \in [killed : BOOLEAN, paused : BOOLEAN] /\ killFile \in BOOLEAN

BookTypes ==
  /\ st \in [Orders -> {"none", "sent", "active", "matching"}]
  /\ strays \subseteq Orders

BotTypes ==
  /\ pc \in [Bots -> PcValues]
  /\ left \in [Bots -> SUBSET Orders]
  /\ targets \in [Bots -> SUBSET Sides]
  /\ at \in [Bots -> Sides]
  /\ need \in [Bots -> 0..Levels]
  /\ why \in [Bots -> WhyValues]
  /\ failed \in [Bots -> BOOLEAN] /\ changed \in [Bots -> BOOLEAN]
  /\ req \in [Bots -> Orders \cup {NoOrder}]
  /\ recent \in [Bots -> BOOLEAN]

HandlerTypes ==
  /\ hpc \in [Handlers -> {"idle", "persist", "cancel"}]
  /\ hstop \in [Handlers -> AllStops \cup {"none"}]
  /\ hbots \in [Handlers -> SUBSET Bots]
  /\ hleft \in [Handlers -> SUBSET Orders]
  /\ hok \in [Handlers -> BOOLEAN]

HistoryTypes ==
  /\ calm \in BOOLEAN
  /\ since \in [AllStops -> SUBSET Orders]
  /\ answered \subseteq AllStops
  /\ owed \in [Bots -> {"no", "mid", "mid_built", "idle", "idle_built"}]

TypeOK == ControlTypes /\ BookTypes /\ BotTypes /\ HandlerTypes /\ HistoryTypes

\* The supervisor starts the process: any state file, and whatever an earlier process left.
Init ==
  /\ killed = FALSE /\ paused = FALSE /\ enabled = Sides
  /\ dirty = FALSE /\ wake = FALSE
  /\ disk \in [killed : BOOLEAN, paused : BOOLEAN] /\ killFile = FALSE
  /\ st \in [Orders -> {"none", "active"}]
  /\ pc = [b \in Bots |-> "down"]
  /\ left = [b \in Bots |-> {}]
  /\ targets = [b \in Bots |-> {}]
  /\ at = [b \in Bots |-> "buy"]
  /\ need = [b \in Bots |-> 0]
  /\ why = [b \in Bots |-> "none"]
  /\ failed = [b \in Bots |-> FALSE] /\ changed = [b \in Bots |-> FALSE]
  /\ req = [b \in Bots |-> NoOrder]
  /\ recent = [b \in Bots |-> FALSE]
  /\ hpc = [h \in Handlers |-> "idle"]
  /\ hstop = [h \in Handlers |-> "none"]
  /\ hbots = [h \in Handlers |-> {}]
  /\ hleft = [h \in Handlers |-> {}]
  /\ hok = [h \in Handlers |-> TRUE]
  /\ calm = FALSE
  /\ since = [g \in AllStops |-> {}]
  /\ strays = {}
  /\ answered = {}
  /\ owed = [b \in Bots |-> "no"]

-----------------------------------------------------------------------------
(* One cycle of one bot. StartPass, EndPass: the locals of RunCycle.        *)

EndPass(b) ==
  /\ left' = [left EXCEPT ![b] = {}]
  /\ targets' = [targets EXCEPT ![b] = {}]
  /\ at' = [at EXCEPT ![b] = "buy"]
  /\ need' = [need EXCEPT ![b] = 0]
  /\ changed' = [changed EXCEPT ![b] = FALSE]
  /\ why' = [why EXCEPT ![b] = "none"]
  /\ failed' = [failed EXCEPT ![b] = FALSE]
  /\ req' = [req EXCEPT ![b] = NoOrder]

\* A cycle is over, with or without an error: the loop only logs it.
EndCycle(b) == pc' = [pc EXCEPT ![b] = "wait"] /\ EndPass(b)

Go(b, where) == pc' = [pc EXCEPT ![b] = where]

\* savePersistent: the overlay writes the controller's flags with the bot's own state.
Save == disk' = IF SharedFile THEN [killed |-> killed, paused |-> paused] ELSE disk

Quiet == UNCHANGED <<ctlVars, handlerVars, calm, since, answered>>

\* The poll ticker or the wake channel starts the cycles of all bots; the next select waits
\* for all of them.
AllWait == \A b \in Bots : pc[b] = "wait"

StartCycles ==
  /\ AllWait
  /\ pc' = [b \in Bots |-> "check"]
  /\ UNCHANGED <<left, passVars, cancelVars, req, recent, dirty, fileVars, bookVars, owed>>
  /\ Quiet

Poll == StartCycles /\ UNCHANGED wake
Woken == wake /\ wake' = FALSE /\ StartCycles

\* The kill-switch file, the kill flag, and a raised taker fee, whose cancel-all comes first.
CheckStops(b) ==
  /\ pc[b] = "check"
  /\ \/ /\ killFile \/ killed
        /\ Go(b, "list") /\ why' = [why EXCEPT ![b] = "halt"]
     \/ /\ ~killFile /\ ~killed
        /\ Go(b, "observe") /\ UNCHANGED why
     \/ /\ ~killFile /\ ~killed /\ Faulty("fee")
        /\ Go(b, "list") /\ why' = [why EXCEPT ![b] = "fee"]
  /\ UNCHANGED <<left, passVars, failed, req, recent, signalVars, fileVars, bookVars, owed>>
  /\ Quiet

\* Loader.Load and BuildQuotesWithOverrides: the resting orders, and the sides to quote, of
\* which the strategy may leave any out for want of capacity.
Observe(b) ==
  /\ pc[b] = "observe"
  /\ left' = [left EXCEPT ![b] = Resting(b)]
  /\ \E quoted \in SUBSET enabled :
       /\ quoted # enabled => Faulty("suppress")
       /\ targets' = [targets EXCEPT ![b] = quoted]
  /\ owed' = [owed EXCEPT ![b] = CASE @ = "mid" -> "mid_built"
                                   [] @ = "idle" -> "idle_built"
                                   [] OTHER -> @]
  /\ Go(b, "decide")
  /\ UNCHANGED <<at, need, changed, cancelVars, req, recent, signalVars, fileVars, bookVars>>
  /\ Quiet

\* handleLoadError: the cycle ends in an error, or the data is too old and the bot halts.
LoadFails(b) ==
  /\ pc[b] = "observe" /\ Faulty("load")
  /\ \/ EndCycle(b)
     \/ /\ Go(b, "list") /\ why' = [why EXCEPT ![b] = "halt"]
        /\ UNCHANGED <<left, passVars, failed, req>>
  /\ UNCHANGED <<recent, signalVars, fileVars, bookVars, owed>>
  /\ Quiet

Halt(b) ==
  /\ Go(b, "list") /\ why' = [why EXCEPT ![b] = "halt"]
  /\ left' = [left EXCEPT ![b] = {}]
  /\ targets' = [targets EXCEPT ![b] = {}]
  /\ UNCHANGED <<at, need, changed, failed, req, recent, signalVars, fileVars, bookVars, owed>>
  /\ Quiet

RiskHalts(b) == pc[b] = "decide" /\ Faulty("risk") /\ Halt(b)

\* Faulty variant: a paused cycle returns without touching the book.
PauseIdles(b) ==
  /\ pc[b] = "decide" /\ paused
  /\ EndCycle(b)
  /\ UNCHANGED <<recent, signalVars, fileVars, bookVars, owed>>
  /\ Quiet

PauseHalts(b) == pc[b] = "decide" /\ paused /\ Halt(b)

\* Faulty variant: the throttle holds whatever the operator changed.
ThrottleRegardless(b) == recent[b] /\ left[b] # {}

\* The refresh throttle, and TakeDirty before it: the pass ends without touching the book.
ThrottleHolds(b) == ~dirty /\ recent[b] /\ left[b] # {}

Throttled(b) ==
  /\ pc[b] = "decide" /\ ~paused
  /\ ThrottleHolds(b)
  /\ Save
  /\ EndCycle(b)
  /\ UNCHANGED <<recent, signalVars, killFile, bookVars, owed>>
  /\ Quiet

NeedOn(b, side, quoted) == IF side \in quoted THEN Levels ELSE 0

\* allocateIdentities saves before the first order is signed.
StartSync(b) ==
  /\ pc[b] = "decide" /\ ~paused
  /\ ~ThrottleHolds(b) \/ Faulty("expiring")
  /\ dirty' = FALSE
  /\ Save
  /\ at' = [at EXCEPT ![b] = "buy"]
  /\ need' = [need EXCEPT ![b] = NeedOn(b, "buy", targets[b])]
  /\ Go(b, "sync")
  /\ owed' = [owed EXCEPT ![b] = IF @ \in {"mid_built", "idle_built"} THEN "no" ELSE @]
  /\ UNCHANGED <<left, targets, changed, cancelVars, req, recent, wake, killFile, bookVars>>
  /\ Quiet

-----------------------------------------------------------------------------
(* Syncer.Sync: buys, then sells. pairByPrice gives every target an order   *)
(* while there are any, and leaves the rest over; the slots of the targets  *)
(* come first.                                                              *)

Here(b) == OnSide(left[b], at[b])

SlotKept(b) ==
  /\ pc[b] = "sync" /\ need[b] > 0
  /\ \E o \in Here(b) : left' = [left EXCEPT ![b] = @ \ {o}]
  /\ need' = [need EXCEPT ![b] = @ - 1]
  /\ UNCHANGED <<pc, targets, at, changed, cancelVars, req, recent, signalVars, fileVars, bookVars, owed>>
  /\ Quiet

\* A paired order to be replaced, or an order no target claims, is cancelled. Not found counts
\* as cancelled; the target it was paired with is placed in the same pass.
SlotCancelled(b) ==
  /\ pc[b] = "sync"
  /\ need[b] > 0 => Faulty("replace")
  /\ \E o \in Here(b) :
       /\ CancelLands(o)
       /\ left' = [left EXCEPT ![b] = @ \ {o}]
  /\ changed' = [changed EXCEPT ![b] = TRUE]
  /\ Go(b, IF need[b] > 0 THEN "gate" ELSE "sync")
  /\ UNCHANGED <<targets, at, need, cancelVars, req, recent, signalVars, fileVars, owed>>
  /\ Quiet

\* Any other cancel error ends the cycle, whether or not the venue had taken the order off.
SlotCancelFails(b) ==
  /\ pc[b] = "sync" /\ Faulty("cancel")
  /\ \E o \in Here(b) : CancelLands(o) \/ UNCHANGED bookVars
  /\ EndCycle(b)
  /\ UNCHANGED <<recent, signalVars, fileVars, owed>>
  /\ Quiet

\* Faulty variant: one target too many.
SlotEmptyTooMany(b) ==
  /\ pc[b] = "sync" /\ Cardinality(Here(b)) <= need[b]
  /\ Go(b, "gate")
  /\ UNCHANGED <<left, passVars, cancelVars, req, recent, signalVars, fileVars, bookVars, owed>>
  /\ Quiet

\* A target no order is left for: it may come before the targets that have one.
SlotEmpty(b) ==
  /\ pc[b] = "sync" /\ need[b] > 0 /\ Cardinality(Here(b)) < need[b]
  /\ Go(b, "gate")
  /\ UNCHANGED <<left, passVars, cancelVars, req, recent, signalVars, fileVars, bookVars, owed>>
  /\ Quiet

SideDone(b) ==
  /\ pc[b] = "sync" /\ need[b] = 0 /\ Here(b) = {}
  /\ IF at[b] = "buy"
       THEN /\ at' = [at EXCEPT ![b] = "sell"]
            /\ need' = [need EXCEPT ![b] = NeedOn(b, "sell", targets[b])]
            /\ UNCHANGED pc
       ELSE Go(b, "finish") /\ UNCHANGED <<at, need>>
  /\ UNCHANGED <<left, targets, changed, cancelVars, req, recent, signalVars, fileVars, bookVars, owed>>
  /\ Quiet

\* AllowPlace refuses: the level is skipped. So is one the model has no name left for, as if
\* the venue had refused it (bound: MaxLive).
Blocked(b) ==
  /\ pc[b] = "gate"
  /\ ~AllowPlace(at[b]) \/ Fresh(b, at[b]) = {}
  /\ need' = [need EXCEPT ![b] = @ - 1]
  /\ Go(b, "sync")
  /\ UNCHANGED <<left, targets, at, changed, cancelVars, req, recent, signalVars, fileVars, bookVars, owed>>
  /\ Quiet

\* AllowPlace lets the placement through: from here on the order is under way.
Place(b) ==
  /\ pc[b] = "gate" /\ AllowPlace(at[b])
  /\ \E o \in NextFresh(b, at[b]) :
       /\ req' = [req EXCEPT ![b] = o]
       /\ st' = [st EXCEPT ![o] = "sent"]
  /\ UNCHANGED strays
  /\ Go(b, "post")
  /\ UNCHANGED <<left, passVars, cancelVars, recent, signalVars, fileVars, owed>>
  /\ Quiet

\* The answer arrives: accepted, or refused as post-only, which is no error.
PlaceReturns(b) ==
  /\ pc[b] = "post" /\ st[req[b]] # "sent"
  /\ req' = [req EXCEPT ![b] = NoOrder]
  /\ changed' = [changed EXCEPT ![b] = TRUE]
  /\ need' = [need EXCEPT ![b] = @ - 1]
  /\ Go(b, "sync")
  /\ UNCHANGED <<left, targets, at, cancelVars, recent, signalVars, fileVars, bookVars, owed>>
  /\ Quiet

\* Another error, the client's timeout among them: the cycle ends, be the order on the book,
\* off it, or still on its way with nobody waiting for the answer.
PlaceFails(b) ==
  /\ pc[b] = "post"
  /\ \/ st[req[b]] # "sent" /\ Faulty("place") /\ UNCHANGED strays
     \/ st[req[b]] = "sent" /\ Faulty("timeout") /\ strays' = strays \cup {req[b]}
  /\ EndCycle(b)
  /\ UNCHANGED <<recent, signalVars, fileVars, st, owed>>
  /\ Quiet

FinishCycle(b) ==
  /\ pc[b] = "finish"
  /\ recent' = [recent EXCEPT ![b] = @ \/ changed[b]]
  /\ Save
  /\ EndCycle(b)
  /\ UNCHANGED <<signalVars, killFile, bookVars, owed>>
  /\ Quiet

-----------------------------------------------------------------------------
(* Syncer.cancelAll, for a halt, a raised fee and a boot that finds a stop; *)
(* and the cancels of ReconcileStartup. It goes on past orders it cannot    *)
(* cancel, and reports them at the end.                                     *)

Booting(b) == why[b] \in {"boot_halt", "reconcile"}

ListAll(b) ==
  /\ pc[b] = "list"
  /\ left' = [left EXCEPT ![b] = Resting(b)]
  /\ Go(b, "cancel")
  /\ UNCHANGED <<passVars, cancelVars, req, recent, signalVars, fileVars, bookVars, owed>>
  /\ Quiet

ListFails(b) ==
  /\ pc[b] = "list" /\ ~Booting(b) /\ Faulty("load")
  /\ EndCycle(b)
  /\ UNCHANGED <<recent, signalVars, fileVars, bookVars, owed>>
  /\ Quiet

\* One order: cancelled or not found; or an error, with the order gone or not.
CancelOne(b) ==
  /\ pc[b] = "cancel"
  /\ \E o \in left[b] :
       /\ left' = [left EXCEPT ![b] = @ \ {o}]
       /\ \/ CancelLands(o) /\ UNCHANGED failed
          \/ /\ Faulty("cancel") /\ ~Booting(b)
             /\ CancelLands(o) \/ UNCHANGED bookVars
             /\ failed' = [failed EXCEPT ![b] = TRUE]
  /\ UNCHANGED <<pc, passVars, why, req, recent, signalVars, fileVars, owed>>
  /\ Quiet

\* A halt is saved unless a cancel failed; after a raised fee the cycle goes on unless one did.
CancelDone(b) ==
  /\ pc[b] = "cancel" /\ left[b] = {}
  /\ IF why[b] = "fee" /\ ~failed[b] THEN Go(b, "observe") ELSE Go(b, "wait")
  /\ IF why[b] = "fee" \/ failed[b] THEN UNCHANGED disk ELSE Save
  /\ EndPass(b)
  /\ UNCHANGED <<recent, signalVars, killFile, bookVars, owed>>
  /\ Quiet

-----------------------------------------------------------------------------
(* The process dies, in the middle of anything, and starts again.           *)
(* Its orders stay; a request on its way may still reach the venue.         *)

NoBots == [b \in Bots |-> FALSE]

Down(wherever) ==
  /\ pc' = [b \in Bots |-> wherever]
  /\ left' = [b \in Bots |-> {}] /\ targets' = [b \in Bots |-> {}]
  /\ at' = [b \in Bots |-> "buy"] /\ need' = [b \in Bots |-> 0]
  /\ why' = [b \in Bots |-> "none"]
  /\ failed' = NoBots /\ changed' = NoBots /\ recent' = NoBots
  /\ req' = [b \in Bots |-> NoOrder]
  /\ hpc' = [h \in Handlers |-> "idle"] /\ hstop' = [h \in Handlers |-> "none"]
  /\ hbots' = [h \in Handlers |-> {}] /\ hleft' = [h \in Handlers |-> {}]
  /\ hok' = [h \in Handlers |-> TRUE]
  /\ since' = [g \in AllStops |-> {}]
  /\ answered' = {}
  /\ owed' = [b \in Bots |-> "no"]

Crash ==
  /\ Faulty("crash") /\ \E b \in Bots : pc[b] # "down"
  /\ strays' = strays \cup {o \in Orders : st[o] = "sent" /\ req[o.bot] = o}
  /\ Down("down")
  /\ UNCHANGED <<ctlVars, signalVars, fileVars, st, calm>>

\* NewController: the kill and the pause come from the file, everything else is as configured.
Boot ==
  /\ \A b \in Bots : pc[b] = "down"
  /\ pc' = [b \in Bots |-> "boot"]
  /\ killed' = disk.killed /\ paused' = disk.paused /\ enabled' = Sides
  /\ dirty' = FALSE /\ wake' = FALSE
  /\ UNCHANGED <<left, passVars, cancelVars, req, recent, fileVars, st, handlerVars, calm,
                 historyVars>>

\* Bots initialize one after another.
MyTurn(b) == pc[b] = "boot" /\ \A c \in Bots : pc[c] \in {"boot", "wait"}

\* A stop in force at startup: cancel everything, then idle.
BootStopped(b) ==
  /\ MyTurn(b) /\ (killFile \/ killed \/ paused)
  /\ Go(b, "list") /\ why' = [why EXCEPT ![b] = "boot_halt"]
  /\ UNCHANGED <<left, passVars, failed, req, recent, signalVars, fileVars, bookVars, owed>>
  /\ Quiet

\* ReconcileStartup adopts the order of a quoted side when no other qualifies, and cancels the
\* rest. Signed terms, price and size may disqualify any order.
Sole(o, os) == o.side \in enabled /\ OnSide(os, o.side) = {o}

Reconcile(b) ==
  /\ MyTurn(b) /\ ~(killFile \/ killed \/ paused)
  /\ \E qualified \in SUBSET Resting(b) :
       /\ qualified # Resting(b) => Faulty("replace")
       /\ left' = [left EXCEPT ![b] = {o \in Resting(b) : ~Sole(o, qualified)}]
  /\ Go(b, "cancel") /\ why' = [why EXCEPT ![b] = "reconcile"]
  /\ UNCHANGED <<passVars, failed, req, recent, signalVars, fileVars, bookVars, owed>>
  /\ Quiet

\* Any error in Initialize, an order that is already gone among them, ends the process.
BootFails(b) ==
  /\ \/ MyTurn(b) /\ Faulty("load")
     \/ pc[b] = "list" /\ Booting(b) /\ Faulty("load")
     \/ pc[b] = "cancel" /\ Booting(b) /\ left[b] # {} /\ Faulty("cancel")
  /\ Down("down")
  /\ UNCHANGED <<ctlVars, signalVars, fileVars, st, calm, strays>>

\* ReconcileStartup cancels through the client, where "not found" is an error too.
ReconcileFindsNothing(b) ==
  /\ pc[b] = "cancel" /\ why[b] = "reconcile"
  /\ \E o \in left[b] : st[o] # "active"
  /\ Down("down")
  /\ UNCHANGED <<ctlVars, signalVars, fileVars, st, calm, strays>>

-----------------------------------------------------------------------------
(* The venue.                                                               *)

NothingButOrders == UNCHANGED <<ctlVars, signalVars, fileVars, botVars, handlerVars, calm,
                                answered, owed>>

\* An order on its way is accepted, under whatever stops are now in force.
Accept(o) ==
  /\ st[o] = "sent"
  /\ st' = [st EXCEPT ![o] = "active"]
  /\ since' = IF req[o.bot] = o
                THEN [g \in AllStops |-> IF On(g) /\ o.side \in Covers(g)
                                           THEN since[g] \cup {o} ELSE since[g]]
                ELSE since
  /\ UNCHANGED strays
  /\ NothingButOrders

\* Post-only would cross, or any other refusal.
Refuse(o) ==
  /\ st[o] = "sent" /\ (Faulty("refuse") \/ req[o.bot] # o)
  /\ st' = [st EXCEPT ![o] = "none"]
  /\ strays' = strays \ {o}
  /\ UNCHANGED since
  /\ NothingButOrders

\* An order leaves the book: filled, expired, or cancelled by the venue.
Depart(o) ==
  /\ Faulty("depart") /\ st[o] = "active"
  /\ st' = [st EXCEPT ![o] = "none"]
  /\ strays' = strays \ {o}
  /\ UNCHANGED since
  /\ NothingButOrders

\* The matcher reserves an order while it settles, and settles it or gives it back. One at a
\* time (bound).
Reserve(o) ==
  /\ Faulty("reserve") /\ st[o] = "active"
  /\ \A p \in Orders : st[p] # "matching"
  /\ st' = [st EXCEPT ![o] = "matching"]
  /\ strays' = strays \cup {o}
  /\ UNCHANGED since
  /\ NothingButOrders

GiveBack(o) ==
  /\ st[o] = "matching"
  /\ \/ st' = [st EXCEPT ![o] = "active"] /\ UNCHANGED strays
     \/ st' = [st EXCEPT ![o] = "none"] /\ strays' = strays \ {o}
  /\ UNCHANGED since
  /\ NothingButOrders

-----------------------------------------------------------------------------
(* The control API. A handler raises the stop first, saves it, and then     *)
(* lists and cancels bot by bot; its answer reports what went wrong.        *)

Signal == dirty' = TRUE /\ wake' = TRUE
BotsAlone == UNCHANGED <<botVars, calm>>

\* The process answers HTTP from before the first bot initializes.
Serving == \E b \in Bots : pc[b] # "down"
Asked(h) == ~calm /\ Serving /\ hpc[h] = "idle"

SetStop(g) ==
  /\ killed' = (killed \/ g = "kill")
  /\ paused' = (paused \/ g = "pause")
  /\ enabled' = enabled \ {g}
  /\ since' = IF On(g) THEN since ELSE [since EXCEPT ![g] = {}]
  /\ answered' = IF On(g) THEN answered ELSE answered \ {g}

\* handleKill, handlePause, and handleSide with enabled = false, which saves nothing.
StopAsked(h, g) ==
  /\ Asked(h)
  /\ SetStop(g)
  /\ Signal
  /\ hpc' = [hpc EXCEPT ![h] = IF g \in Sides THEN "cancel" ELSE "persist"]
  /\ hstop' = [hstop EXCEPT ![h] = g]
  /\ hbots' = [hbots EXCEPT ![h] = Bots]
  /\ hok' = [hok EXCEPT ![h] = TRUE]
  /\ UNCHANGED <<hleft, fileVars, bookVars, owed>>
  /\ BotsAlone

\* What a release undoes. A resume always lifts the pause, and a kill only with clear_kill.
Lifts(r) == CASE r = "resume" -> {"pause"}
              [] r = "clear" -> {"kill", "pause"}
              [] r = "adjust" -> {}
              [] OTHER -> {r}

\* handleResume, handleSide with enabled = true, and handleAdjust. A killed process refuses
\* a plain resume, and the kill-switch file refuses both.
ReleaseAsked(h, r) ==
  /\ Asked(h)
  /\ r \in {"resume", "clear"} => ~killFile
  /\ r = "resume" => ~killed
  /\ killed' = (killed /\ "kill" \notin Lifts(r))
  /\ paused' = (paused /\ "pause" \notin Lifts(r))
  /\ enabled' = enabled \cup (Lifts(r) \cap Sides)
  /\ Signal
  /\ since' = [g \in AllStops |-> IF g \in Lifts(r) THEN {} ELSE since[g]]
  /\ answered' = answered \ Lifts(r)
  /\ hok' = [k \in Handlers |-> hok[k] /\ hstop[k] \notin Lifts(r)]
  /\ hpc' = [hpc EXCEPT ![h] = IF r \in {"resume", "clear"} THEN "persist" ELSE "idle"]
  /\ owed' = [b \in Bots |-> IF AllWait THEN "idle" ELSE "mid"]
  /\ UNCHANGED <<hstop, hbots, hleft, fileVars, bookVars>>
  /\ BotsAlone

\* Controller.persist. A failure is reported; the cancels go ahead all the same.
Persist(h) ==
  /\ hpc[h] = "persist"
  /\ \/ disk' = [killed |-> killed, paused |-> paused]
     \/ Faulty("disk") /\ UNCHANGED disk
  /\ hpc' = [hpc EXCEPT ![h] = IF hstop[h] = "none" THEN "idle" ELSE "cancel"]
  /\ UNCHANGED <<ctlVars, signalVars, killFile, bookVars, hstop, hbots, hleft, hok,
                 since, answered, owed>>
  /\ BotsAlone

\* CancelManaged, one bot after the other: list its book, then cancel.
ListBook(h) ==
  /\ hpc[h] = "cancel" /\ hleft[h] = {}
  /\ \E b \in hbots[h] :
       /\ hbots' = [hbots EXCEPT ![h] = @ \ {b}]
       /\ \/ /\ hleft' = [hleft EXCEPT ![h] = {o \in Resting(b) : o.side \in Covers(hstop[h])}]
             /\ UNCHANGED hok
          \/ /\ Faulty("load")
             /\ hok' = [hok EXCEPT ![h] = FALSE]
             /\ UNCHANGED hleft
  /\ UNCHANGED <<ctlVars, signalVars, fileVars, bookVars, hpc, hstop, since, answered, owed>>
  /\ BotsAlone

\* Faulty variant: an order that could not be cancelled is reported like one not found.
CancelListedAnyErrorIsGone(h) ==
  /\ hpc[h] = "cancel"
  /\ \E o \in hleft[h] :
       /\ hleft' = [hleft EXCEPT ![h] = @ \ {o}]
       /\ CancelLands(o) \/ (Faulty("cancel") /\ UNCHANGED bookVars)
  /\ UNCHANGED <<ctlVars, signalVars, fileVars, hpc, hstop, hbots, hok, since, answered, owed>>
  /\ BotsAlone

CancelListed(h) ==
  /\ hpc[h] = "cancel"
  /\ \E o \in hleft[h] :
       /\ hleft' = [hleft EXCEPT ![h] = @ \ {o}]
       /\ \/ CancelLands(o) /\ UNCHANGED hok
          \/ /\ Faulty("cancel")
             /\ CancelLands(o) \/ UNCHANGED bookVars
             /\ hok' = [hok EXCEPT ![h] = FALSE]
  /\ UNCHANGED <<ctlVars, signalVars, fileVars, hpc, hstop, hbots, since, answered, owed>>
  /\ BotsAlone

Respond(h) ==
  /\ hpc[h] = "cancel" /\ hleft[h] = {} /\ hbots[h] = {}
  /\ answered' = IF hok[h] THEN answered \cup {hstop[h]} ELSE answered
  /\ hpc' = [hpc EXCEPT ![h] = "idle"]
  /\ hstop' = [hstop EXCEPT ![h] = "none"]
  /\ hok' = [hok EXCEPT ![h] = TRUE]
  /\ UNCHANGED <<ctlVars, signalVars, fileVars, bookVars, hbots, hleft, since, owed>>
  /\ BotsAlone

-----------------------------------------------------------------------------
(* The rest of the environment.                                             *)

ToggleKillFile ==
  /\ Faulty("kill_file")
  /\ killFile' = ~killFile
  /\ UNCHANGED <<ctlVars, signalVars, disk, st, botVars, handlerVars, calm, historyVars>>

\* MM_QUOTE_REFRESH_INTERVAL_MS has passed since the last quote update.
RefreshDue(b) ==
  /\ recent[b]
  /\ recent' = [recent EXCEPT ![b] = FALSE]
  /\ UNCHANGED <<ctlVars, signalVars, fileVars, st, pc, left, passVars, cancelVars, req,
                 handlerVars, calm, historyVars>>

Settle ==
  /\ ~calm
  /\ calm' = TRUE
  /\ UNCHANGED <<ctlVars, signalVars, fileVars, st, botVars, handlerVars, historyVars>>

-----------------------------------------------------------------------------
CycleStep(b) ==
  \/ CheckStops(b) \/ Observe(b) \/ LoadFails(b)
  \/ RiskHalts(b) \/ PauseHalts(b) \/ Throttled(b) \/ StartSync(b)
  \/ SlotKept(b) \/ SlotCancelled(b) \/ SlotCancelFails(b) \/ SlotEmpty(b) \/ SideDone(b)
  \/ Blocked(b) \/ Place(b) \/ PlaceReturns(b) \/ PlaceFails(b) \/ FinishCycle(b)
  \/ ListAll(b) \/ ListFails(b) \/ CancelOne(b) \/ CancelDone(b)

BootStep(b) == BootStopped(b) \/ Reconcile(b) \/ BootFails(b) \/ ReconcileFindsNothing(b)

OrderStep(o) == Accept(o) \/ Refuse(o) \/ Depart(o) \/ Reserve(o) \/ GiveBack(o)

RequestStep(h) == Persist(h) \/ ListBook(h) \/ CancelListed(h) \/ Respond(h)

OperatorStep(h) ==
  \/ \E g \in Stops : StopAsked(h, g)
  \/ \E r \in Releases : ReleaseAsked(h, r)

Steps ==
  \/ Poll \/ Woken
  \/ \E b \in Bots : CycleStep(b) \/ BootStep(b) \/ RefreshDue(b)
  \/ \E o \in Orders : OrderStep(o)
  \/ \E h \in Handlers : OperatorStep(h) \/ RequestStep(h)
  \/ Crash \/ Boot \/ ToggleKillFile

Next == Steps \/ Settle

Spec == Init /\ [][Next]_vars

\* Never calm: all that Spec can do to the state, as a calm process only does less.
BusySpec == Init /\ [][Steps]_vars

(* The ticker keeps ticking, goroutines keep running, the venue answers     *)
(* every request and lets go of what it reserved, and time passes. Nothing  *)
(* is assumed of the operator, of crashes, or of faults ending.             *)
Fairness ==
  /\ WF_vars(Poll)
  /\ \A b \in Bots : WF_vars(CycleStep(b)) /\ WF_vars(BootStep(b)) /\ WF_vars(RefreshDue(b))
  /\ \A o \in Orders : WF_vars(Accept(o) \/ Refuse(o)) /\ WF_vars(GiveBack(o))
  /\ \A h \in Handlers : WF_vars(RequestStep(h))
  /\ WF_vars(Boot)

FairSpec == Spec /\ Fairness

-----------------------------------------------------------------------------
(* Properties.                                                              *)

\* "Closes all but the one request already in flight" (Controller.AllowPlace): from the moment
\* a stop is set until it is lifted, at most one order of each bot reaches the book under it,
\* wherever the cycle was in its ladder and however the stops overlap.
OneLatePlacement ==
  \A g \in AllStops : \A o, p \in since[g] : On(g) /\ o.bot = p.bot => o = p

\* A kill, pause or side change answered without an error tells the truth while it stands: of
\* the orders it covers nothing rests but what was in flight, or with the matcher, when it came.
CleanAnswerHolds ==
  \A g \in answered : \A o \in Orders :
    st[o] = "active" /\ o.side \in Covers(g) => o \in since[g] \cup strays

\* The sides the operator wants quoted, and the book that goes with them.
Wanted == IF killed \/ paused \/ killFile THEN {} ELSE enabled

BookIsAsWanted ==
  \A b \in Bots : \A side \in Sides :
    LET out == {o \in OnSide(OfBot(b), side) : st[o] # "none"}
    IN  /\ \A o \in out : st[o] = "active"
        /\ Cardinality(out) = IF side \in Wanted THEN Levels ELSE 0

\* Once operators, faults and fills leave the process alone, the book comes to what they last
\* asked for and stays there: full ladders on the wanted sides, nothing at all when stopped,
\* whatever was in flight, half cancelled, duplicated or booting.
BookSettles == calm ~> []BookIsAsWanted

\* "An operator change (adjust, a restored side, a resume) should reach the book on the cycle
\* it woke, not a refresh interval later" (RunCycle): when it arrives between two cycles, the
\* loop's one dirty flag still holds when the throttle asks.
IdleChangeIsNotThrottled ==
  [][\A b \in Bots : Throttled(b) => owed[b] # "idle_built"]_vars
=============================================================================
