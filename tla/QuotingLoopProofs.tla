------------------------- MODULE QuotingLoopProofs --------------------------
(***************************************************************************)
(* Proofs about QuotingLoop, for any number of bots, requests and levels:  *)
(* its variables keep their types, and a stop lets at most one order of    *)
(* each bot through. The argument for the second: AllowPlace is asked with *)
(* the flags as they are, so while a stop is on no request under it can    *)
(* start; a bot has one request at a time; and once the one that was under *)
(* way is on the book, none is left. Third, a clean answer to a stop stays *)
(* true while the stop stands: see SeenKept. Fourth, a change that finds   *)
(* the loop of one market idle is not throttled: see IdleKept.             *)
(***************************************************************************)
EXTENDS QuotingLoop, TLAPS

\* A bot that is about to place an order, or placing one, has a target left for it.
GateKept == \A b \in Bots : pc[b] \in {"gate", "post"} => need[b] > 0

\* A bot that waits for an answer has a request out, for an order of its own; no other bot has.
RequestKept ==
  \A b \in Bots : IF pc[b] = "post" THEN req[b] \in OfBot(b) ELSE req[b] = NoOrder

\* A handler that lists or cancels has a stop to apply, an idle one has none.
HandlerKept ==
  \A h \in Handlers : /\ hpc[h] = "idle" => hstop[h] = "none"
                      /\ hpc[h] = "cancel" => hstop[h] \in AllStops

\* A bot with an order accepted under a standing stop has no other on its way under it.
SinceKept ==
  \A g \in AllStops : \A o \in since[g] :
    /\ pc[o.bot] # "down"
    /\ On(g) => \A p \in Orders : req[o.bot] = p /\ st[p] = "sent" => p.side \notin Covers(g)

IInv == TypeOK /\ GateKept /\ RequestKept /\ HandlerKept /\ SinceKept /\ OneLatePlacement

-----------------------------------------------------------------------------
LEMMA OrderFacts ==
  /\ NoOrder \notin Orders
  /\ \A o \in Orders : o.bot \in Bots /\ o.side \in Sides
  /\ \A b \in Bots : OfBot(b) \subseteq Orders /\ Resting(b) \subseteq Orders
  /\ 0 \in 0..Levels /\ Levels \in 0..Levels
BY LevelsAssumption DEF Orders, NoOrder, OfBot, Resting

THEOREM InitHolds == Init => IInv
<1> SUFFICES ASSUME Init PROVE IInv
  OBVIOUS
<1>1. TypeOK
  BY OrderFacts DEF Init, TypeOK, ControlTypes, BookTypes, BotTypes, HandlerTypes,
                    HistoryTypes, PcValues, WhyValues, Sides, AllStops
<1>2. GateKept /\ RequestKept /\ HandlerKept
  BY DEF Init, GateKept, RequestKept, HandlerKept
<1>3. SinceKept /\ OneLatePlacement
  BY DEF Init, SinceKept, OneLatePlacement
<1> QED
  BY <1>1, <1>2, <1>3 DEF IInv

-----------------------------------------------------------------------------
(* Types.                                                                   *)

LEMMA PassTypes ==
  ASSUME TypeOK, NEW b \in Bots, EndPass(b)
  PROVE  /\ left' \in [Bots -> SUBSET Orders]
         /\ targets' \in [Bots -> SUBSET Sides]
         /\ at' \in [Bots -> Sides]
         /\ need' \in [Bots -> 0..Levels]
         /\ why' \in [Bots -> WhyValues]
         /\ failed' \in [Bots -> BOOLEAN] /\ changed' \in [Bots -> BOOLEAN]
         /\ req' \in [Bots -> Orders \cup {NoOrder}]
BY OrderFacts DEF TypeOK, BotTypes, EndPass, Sides, WhyValues

LEMMA CancelTypes ==
  ASSUME TypeOK, NEW o \in Orders, CancelLands(o) \/ UNCHANGED bookVars
  PROVE  /\ st' \in [Orders -> {"none", "sent", "active", "matching"}]
         /\ strays' \subseteq Orders
         /\ \A p \in Orders : st'[p] = "sent" => st[p] = "sent"
BY DEF TypeOK, BookTypes, CancelLands, bookVars

LEMMA OneTargetLess ==
  ASSUME TypeOK, NEW b \in Bots, need[b] > 0
  PROVE  [need EXCEPT ![b] = @ - 1] \in [Bots -> 0..Levels]
<1>1. need[b] - 1 \in 0..Levels
  BY LevelsAssumption DEF TypeOK, BotTypes
<1> QED
  BY <1>1 DEF TypeOK, BotTypes

LEMMA CycleTypes ==
  ASSUME TypeOK, GateKept, RequestKept, NEW b \in Bots,
         CycleStep(b) \/ BootStopped(b) \/ Reconcile(b) \/ RefreshDue(b)
  PROVE  TypeOK'
<1>1. CASE CheckStops(b)
  <2>1. BotTypes'
    BY <1>1
    DEF CheckStops, Go, WhyValues, PcValues, TypeOK, BotTypes, passVars, cancelVars
  <2> QED
    BY <1>1, <2>1
    DEF CheckStops, Quiet, TypeOK, ControlTypes, BookTypes, HandlerTypes, HistoryTypes,
        ctlVars, signalVars, fileVars, bookVars, handlerVars
<1>2. CASE Observe(b)
  <2>1. BotTypes'
    <3>1. PICK quoted \in SUBSET enabled : targets' = [targets EXCEPT ![b] = quoted]
      BY <1>2 DEF Observe
    <3> QED
      BY <1>2, <3>1, OrderFacts
      DEF Observe, Go, PcValues, TypeOK, ControlTypes, BotTypes, cancelVars
  <2>2. HistoryTypes'
    BY <1>2
    DEF Observe, TypeOK, BotTypes, HistoryTypes, Quiet
  <2> QED
    BY <1>2, <2>1, <2>2
    DEF Observe, Quiet, TypeOK, ControlTypes, BookTypes, HandlerTypes, ctlVars, signalVars,
        fileVars, bookVars, handlerVars
<1>3. CASE LoadFails(b)
  <2>1. BotTypes'
    BY <1>3, PassTypes
    DEF LoadFails, Go, EndCycle, WhyValues, PcValues, TypeOK, BotTypes, passVars, cancelVars
  <2> QED
    BY <1>3, <2>1
    DEF LoadFails, Quiet, TypeOK, ControlTypes, BookTypes, HandlerTypes, HistoryTypes, ctlVars,
        signalVars, fileVars, bookVars, handlerVars
<1>4. CASE RiskHalts(b)
  <2>1. BotTypes'
    BY <1>4
    DEF RiskHalts, Halt, Go, WhyValues, PcValues, TypeOK, BotTypes, passVars, cancelVars
  <2> QED
    BY <1>4, <2>1
    DEF RiskHalts, Quiet, TypeOK, ControlTypes, BookTypes, HandlerTypes, HistoryTypes, Halt,
        ctlVars, signalVars, fileVars, bookVars, handlerVars
<1>5. CASE PauseHalts(b)
  <2>1. BotTypes'
    BY <1>5
    DEF PauseHalts, Halt, Go, WhyValues, PcValues, TypeOK, BotTypes, passVars, cancelVars
  <2> QED
    BY <1>5, <2>1
    DEF PauseHalts, Quiet, TypeOK, ControlTypes, BookTypes, HandlerTypes, HistoryTypes, Halt,
        ctlVars, signalVars, fileVars, bookVars, handlerVars
<1>6. CASE Throttled(b)
  <2>1. ControlTypes'
    BY <1>6
    DEF Throttled, Save, TypeOK, BotTypes, ControlTypes, ctlVars, signalVars, fileVars, Quiet
  <2>2. BotTypes'
    BY <1>6, PassTypes
    DEF Throttled, EndCycle, PcValues, TypeOK, BotTypes, passVars, cancelVars
  <2> QED
    BY <1>6, <2>1, <2>2
    DEF Throttled, Quiet, TypeOK, BookTypes, HandlerTypes, HistoryTypes, bookVars, handlerVars
<1>7. CASE StartSync(b)
  <2>1. ControlTypes'
    BY <1>7
    DEF StartSync, Save, TypeOK, BotTypes, ControlTypes, ctlVars, signalVars, fileVars, Quiet
  <2>2. BotTypes'
    BY <1>7, OrderFacts
    DEF StartSync, NeedOn, Go, PcValues, Sides, TypeOK, BotTypes, passVars, cancelVars
  <2> QED
    BY <1>7, <2>1, <2>2
    DEF StartSync, Quiet, TypeOK, BookTypes, HandlerTypes, HistoryTypes, bookVars, handlerVars
<1>8. CASE SlotKept(b)
  <2>1. BotTypes'
    BY <1>8, OneTargetLess
    DEF SlotKept, TypeOK, BotTypes, passVars, cancelVars
  <2> QED
    BY <1>8, <2>1
    DEF SlotKept, Quiet, TypeOK, ControlTypes, BookTypes, HandlerTypes, HistoryTypes, ctlVars,
        signalVars, fileVars, bookVars, handlerVars
<1>9. CASE SlotCancelled(b)
  <2>1. BookTypes'
    BY <1>9, CancelTypes
    DEF SlotCancelled, Here, OnSide, TypeOK, BotTypes, BookTypes, bookVars
  <2>2. BotTypes'
    BY <1>9
    DEF SlotCancelled, Go, PcValues, TypeOK, BotTypes, passVars, cancelVars
  <2> QED
    BY <1>9, <2>1, <2>2
    DEF SlotCancelled, Quiet, TypeOK, ControlTypes, HandlerTypes, HistoryTypes, ctlVars,
        signalVars, fileVars, handlerVars
<1>10. CASE SlotCancelFails(b)
  <2>1. BookTypes'
    BY <1>10, CancelTypes
    DEF SlotCancelFails, Here, OnSide, TypeOK, BotTypes, BookTypes, bookVars
  <2>2. BotTypes'
    BY <1>10, PassTypes
    DEF SlotCancelFails, EndCycle, PcValues, TypeOK, BotTypes, passVars, cancelVars
  <2> QED
    BY <1>10, <2>1, <2>2
    DEF SlotCancelFails, Quiet, TypeOK, ControlTypes, HandlerTypes, HistoryTypes, ctlVars,
        signalVars, fileVars, handlerVars
<1>11. CASE SlotEmpty(b)
  <2>1. BotTypes'
    BY <1>11
    DEF SlotEmpty, Go, PcValues, TypeOK, BotTypes, passVars, cancelVars
  <2> QED
    BY <1>11, <2>1
    DEF SlotEmpty, Quiet, TypeOK, ControlTypes, BookTypes, HandlerTypes, HistoryTypes, ctlVars,
        signalVars, fileVars, bookVars, handlerVars
<1>12. CASE SideDone(b)
  <2>1. BotTypes'
    BY <1>12, OrderFacts
    DEF SideDone, NeedOn, Go, PcValues, Sides, TypeOK, BotTypes, passVars, cancelVars
  <2> QED
    BY <1>12, <2>1
    DEF SideDone, Quiet, TypeOK, ControlTypes, BookTypes, HandlerTypes, HistoryTypes, ctlVars,
        signalVars, fileVars, bookVars, handlerVars
<1>13. CASE Blocked(b)
  <2>1. BotTypes'
    BY <1>13, OneTargetLess
    DEF Blocked, GateKept, Go, PcValues, TypeOK, BotTypes, passVars, cancelVars
  <2> QED
    BY <1>13, <2>1
    DEF Blocked, Quiet, TypeOK, ControlTypes, BookTypes, HandlerTypes, HistoryTypes, ctlVars,
        signalVars, fileVars, bookVars, handlerVars
<1>14. CASE Place(b)
  <2>1. BookTypes'
    BY <1>14, OrderFacts
    DEF Place, NextFresh, Fresh, OnSide, TypeOK, BotTypes, BookTypes, bookVars
  <2>2. BotTypes'
    BY <1>14, OrderFacts
    DEF Place, NextFresh, Fresh, OnSide, Go, PcValues, TypeOK, BotTypes, passVars, cancelVars
  <2> QED
    BY <1>14, <2>1, <2>2
    DEF Place, Quiet, TypeOK, ControlTypes, HandlerTypes, HistoryTypes, ctlVars, signalVars,
        fileVars, handlerVars
<1>15. CASE PlaceReturns(b)
  <2>1. BotTypes'
    BY <1>15, OneTargetLess
    DEF PlaceReturns, GateKept, Go, PcValues, TypeOK, BotTypes, passVars, cancelVars
  <2> QED
    BY <1>15, <2>1
    DEF PlaceReturns, Quiet, TypeOK, ControlTypes, BookTypes, HandlerTypes, HistoryTypes,
        ctlVars, signalVars, fileVars, bookVars, handlerVars
<1>16. CASE PlaceFails(b)
  <2>1. BookTypes'
    BY <1>16, OrderFacts
    DEF PlaceFails, RequestKept, TypeOK, BotTypes, BookTypes, bookVars
  <2>2. BotTypes'
    BY <1>16, PassTypes
    DEF PlaceFails, EndCycle, PcValues, TypeOK, BotTypes, passVars, cancelVars
  <2> QED
    BY <1>16, <2>1, <2>2
    DEF PlaceFails, Quiet, TypeOK, ControlTypes, HandlerTypes, HistoryTypes, ctlVars,
        signalVars, fileVars, handlerVars
<1>17. CASE FinishCycle(b)
  <2>1. ControlTypes'
    BY <1>17
    DEF FinishCycle, Save, TypeOK, BotTypes, ControlTypes, ctlVars, signalVars, fileVars, Quiet
  <2>2. BotTypes'
    BY <1>17, PassTypes
    DEF FinishCycle, EndCycle, PcValues, TypeOK, BotTypes, passVars, cancelVars
  <2>3. HistoryTypes'
    BY <1>17
    DEF FinishCycle, TypeOK, BotTypes, HistoryTypes, Quiet
  <2> QED
    BY <1>17, <2>1, <2>2, <2>3
    DEF FinishCycle, Quiet, TypeOK, BookTypes, HandlerTypes, bookVars, handlerVars
<1>18. CASE ListAll(b)
  <2>1. BotTypes'
    BY <1>18, OrderFacts
    DEF ListAll, Go, PcValues, TypeOK, BotTypes, passVars, cancelVars
  <2> QED
    BY <1>18, <2>1
    DEF ListAll, Quiet, TypeOK, ControlTypes, BookTypes, HandlerTypes, HistoryTypes, ctlVars,
        signalVars, fileVars, bookVars, handlerVars
<1>19. CASE ListFails(b)
  <2>1. BotTypes'
    BY <1>19, PassTypes
    DEF ListFails, EndCycle, PcValues, TypeOK, BotTypes, passVars, cancelVars
  <2> QED
    BY <1>19, <2>1
    DEF ListFails, Quiet, TypeOK, ControlTypes, BookTypes, HandlerTypes, HistoryTypes, ctlVars,
        signalVars, fileVars, bookVars, handlerVars
<1>20. CASE CancelOne(b)
  <2>1. BookTypes'
    BY <1>20, CancelTypes
    DEF CancelOne, TypeOK, BotTypes, BookTypes, bookVars
  <2>2. BotTypes'
    BY <1>20
    DEF CancelOne, TypeOK, BotTypes, passVars, cancelVars
  <2> QED
    BY <1>20, <2>1, <2>2
    DEF CancelOne, Quiet, TypeOK, ControlTypes, HandlerTypes, HistoryTypes, ctlVars,
        signalVars, fileVars, handlerVars
<1>21. CASE CancelDone(b)
  <2>1. ControlTypes'
    BY <1>21
    DEF CancelDone, Save, TypeOK, BotTypes, ControlTypes, ctlVars, signalVars, fileVars, Quiet
  <2>2. BotTypes'
    BY <1>21, PassTypes
    DEF CancelDone, Go, PcValues, TypeOK, BotTypes, passVars, cancelVars
  <2> QED
    BY <1>21, <2>1, <2>2
    DEF CancelDone, Quiet, TypeOK, BookTypes, HandlerTypes, HistoryTypes, bookVars, handlerVars
<1>22. CASE BootStopped(b)
  <2>1. BotTypes'
    BY <1>22
    DEF BootStopped, Go, WhyValues, PcValues, TypeOK, BotTypes, passVars, cancelVars
  <2> QED
    BY <1>22, <2>1
    DEF BootStopped, Quiet, TypeOK, ControlTypes, BookTypes, HandlerTypes, HistoryTypes,
        ctlVars, signalVars, fileVars, bookVars, handlerVars
<1>23. CASE Reconcile(b)
  <2>1. BotTypes'
    <3>1. PICK os \in SUBSET Resting(b) : left' = [left EXCEPT ![b] = os]
      BY <1>23 DEF Reconcile
    <3> QED
      BY <1>23, <3>1, OrderFacts
      DEF Reconcile, Go, WhyValues, PcValues, TypeOK, BotTypes, passVars
  <2> QED
    BY <1>23, <2>1
    DEF Reconcile, Quiet, TypeOK, ControlTypes, BookTypes, HandlerTypes, HistoryTypes, ctlVars,
        signalVars, fileVars, bookVars, handlerVars
<1>24. CASE RefreshDue(b)
  <2>1. BotTypes'
    BY <1>24
    DEF RefreshDue, TypeOK, BotTypes, passVars, cancelVars
  <2> QED
    BY <1>24, <2>1
    DEF RefreshDue, Quiet, TypeOK, ControlTypes, BookTypes, HandlerTypes, HistoryTypes,
        ctlVars, signalVars, fileVars, bookVars, handlerVars, historyVars
<1> QED
  BY <1>1, <1>2, <1>3, <1>4, <1>5, <1>6, <1>7, <1>8, <1>9, <1>10, <1>11, <1>12, <1>13, <1>14,
     <1>15, <1>16, <1>17, <1>18, <1>19, <1>20, <1>21, <1>22, <1>23, <1>24 DEF CycleStep

LEMMA DownTypes ==
  ASSUME TypeOK, Down("down"), UNCHANGED <<ctlVars, signalVars, fileVars, calm, st>>,
         strays' \subseteq Orders
  PROVE  TypeOK'
<1>1. BotTypes'
  BY OrderFacts DEF Down, NoBots, BotTypes, PcValues, WhyValues, Sides
<1>2. HandlerTypes' /\ HistoryTypes'
  BY DEF Down, HandlerTypes, HistoryTypes, TypeOK
<1> QED
  BY <1>1, <1>2 DEF TypeOK, ControlTypes, BookTypes, ctlVars, signalVars, fileVars

LEMMA ProcessTypes ==
  ASSUME TypeOK,
         Poll \/ Woken \/ Crash \/ Boot \/ ToggleKillFile \/ Settle
           \/ \E b \in Bots : BootFails(b) \/ ReconcileFindsNothing(b)
  PROVE  TypeOK'
<1>1. CASE Poll \/ Woken
  <2>1. StartCycles /\ wake' \in BOOLEAN
    BY <1>1 DEF Poll, Woken, TypeOK, ControlTypes
  <2>2. BotTypes'
    BY <2>1 DEF StartCycles, TypeOK, BotTypes, PcValues, passVars, cancelVars
  <2> QED
    BY <2>1, <2>2
    DEF StartCycles, Quiet, TypeOK, ControlTypes, BookTypes, HandlerTypes, HistoryTypes,
        ctlVars, fileVars, bookVars, handlerVars
<1>2. CASE Crash
  BY <1>2, DownTypes DEF Crash, TypeOK, BookTypes
<1>3. CASE Boot
  BY <1>3
  DEF Boot, TypeOK, ControlTypes, BookTypes, BotTypes, HandlerTypes, HistoryTypes, PcValues,
      passVars, cancelVars, fileVars, handlerVars, historyVars
<1>4. CASE ToggleKillFile \/ Settle
  BY <1>4
  DEF ToggleKillFile, Settle, TypeOK, ControlTypes, BookTypes, BotTypes, HandlerTypes,
      HistoryTypes, ctlVars, signalVars, fileVars, botVars, passVars, cancelVars, handlerVars,
      historyVars
<1>5. CASE \E b \in Bots : BootFails(b) \/ ReconcileFindsNothing(b)
  BY <1>5, DownTypes DEF BootFails, ReconcileFindsNothing, TypeOK, BookTypes
<1> QED
  BY <1>1, <1>2, <1>3, <1>4, <1>5

LEMMA VenueTypes ==
  ASSUME TypeOK, NEW o \in Orders, OrderStep(o)
  PROVE  TypeOK'
<1>1. BookTypes'
  BY DEF OrderStep, Accept, Refuse, Depart, Reserve, GiveBack, TypeOK, BookTypes
<1>2. since' \in [AllStops -> SUBSET Orders]
  <2>1. CASE Accept(o)
    BY <2>1 DEF Accept, TypeOK, HistoryTypes
  <2>2. CASE ~Accept(o)
    BY <2>2 DEF OrderStep, Refuse, Depart, Reserve, GiveBack, TypeOK, HistoryTypes
  <2> QED
    BY <2>1, <2>2
<1>3. NothingButOrders
  BY DEF OrderStep, Accept, Refuse, Depart, Reserve, GiveBack
<1> QED
  BY <1>1, <1>2, <1>3
  DEF NothingButOrders, TypeOK, ControlTypes, BotTypes, HandlerTypes, HistoryTypes, ctlVars,
      signalVars, fileVars, botVars, passVars, cancelVars, handlerVars

LEMMA RequestTypes ==
  ASSUME TypeOK, HandlerKept, NEW h \in Handlers, OperatorStep(h) \/ RequestStep(h)
  PROVE  TypeOK'
<1>1. ASSUME NEW g \in AllStops, StopAsked(h, g)
      PROVE  TypeOK'
  <2>1. ControlTypes' /\ HistoryTypes'
    BY <1>1 DEF StopAsked, SetStop, Signal, BotsAlone, fileVars, TypeOK, ControlTypes, HistoryTypes
  <2>2. HandlerTypes'
    BY <1>1 DEF StopAsked, TypeOK, HandlerTypes
  <2> QED
    BY <1>1, <2>1, <2>2
    DEF StopAsked, BotsAlone, TypeOK, BookTypes, BotTypes, bookVars, botVars, passVars, cancelVars
<1>2. ASSUME NEW r, ReleaseAsked(h, r)
      PROVE  TypeOK'
  <2>1. ControlTypes' /\ HistoryTypes'
    BY <1>2
    DEF ReleaseAsked, Signal, BotsAlone, fileVars, TypeOK, ControlTypes, HistoryTypes
  <2>2. HandlerTypes'
    BY <1>2 DEF ReleaseAsked, TypeOK, HandlerTypes
  <2> QED
    BY <1>2, <2>1, <2>2
    DEF ReleaseAsked, BotsAlone, TypeOK, BookTypes, BotTypes, bookVars, botVars, passVars, cancelVars
<1>3. CASE Persist(h)
  <2>1. ControlTypes'
    BY <1>3 DEF Persist, TypeOK, ControlTypes, ctlVars, signalVars
  <2>2. HandlerTypes'
    BY <1>3 DEF Persist, TypeOK, HandlerTypes
  <2> QED
    BY <1>3, <2>1, <2>2
    DEF Persist, BotsAlone, TypeOK, BookTypes, BotTypes, HistoryTypes, bookVars, botVars,
        passVars, cancelVars
<1>4. CASE ListBook(h)
  <2>1. HandlerTypes'
    <3>1. PICK b \in hbots[h] :
            /\ hbots' = [hbots EXCEPT ![h] = @ \ {b}]
            /\ \/ /\ \E os \in SUBSET Resting(b) : hleft' = [hleft EXCEPT ![h] = os]
                  /\ UNCHANGED hok
               \/ /\ hok' = [hok EXCEPT ![h] = FALSE]
                  /\ UNCHANGED hleft
      BY <1>4 DEF ListBook
    <3>2. b \in Bots
      BY DEF TypeOK, HandlerTypes
    <3>3. hleft' \in [Handlers -> SUBSET Orders]
      BY <3>1, <3>2, OrderFacts DEF TypeOK, HandlerTypes
    <3>4. hok' \in [Handlers -> BOOLEAN]
      BY <3>1 DEF TypeOK, HandlerTypes
    <3>5. hbots' \in [Handlers -> SUBSET Bots]
      BY <3>1 DEF TypeOK, HandlerTypes
    <3> QED
      BY <1>4, <3>3, <3>4, <3>5 DEF ListBook, TypeOK, HandlerTypes
  <2> QED
    BY <1>4, <2>1
    DEF ListBook, BotsAlone, TypeOK, ControlTypes, BookTypes, BotTypes, HistoryTypes, ctlVars,
        signalVars, fileVars, bookVars, botVars, passVars, cancelVars
<1>5. CASE CancelListed(h)
  <2>1. PICK o \in hleft[h] : /\ hleft' = [hleft EXCEPT ![h] = @ \ {o}]
                              /\ CancelLands(o) \/ UNCHANGED bookVars
    BY <1>5 DEF CancelListed
  <2>2. BookTypes'
    BY <2>1, CancelTypes DEF TypeOK, BookTypes, HandlerTypes
  <2>3. hok' \in [Handlers -> BOOLEAN]
    BY <1>5 DEF CancelListed, TypeOK, HandlerTypes
  <2>4. HandlerTypes'
    BY <1>5, <2>1, <2>3 DEF CancelListed, TypeOK, HandlerTypes
  <2> QED
    BY <1>5, <2>2, <2>4
    DEF CancelListed, BotsAlone, TypeOK, ControlTypes, BotTypes, HistoryTypes, ctlVars,
        signalVars, fileVars, botVars, passVars, cancelVars
<1>6. CASE Respond(h)
  <2>1. HandlerTypes'
    BY <1>6 DEF Respond, TypeOK, HandlerTypes
  <2>2. answered' \subseteq AllStops
    BY <1>6 DEF Respond, TypeOK, HistoryTypes, HandlerKept
  <2>3. HistoryTypes'
    BY <1>6, <2>2 DEF Respond, BotsAlone, TypeOK, HistoryTypes
  <2> QED
    BY <1>6, <2>1, <2>3
    DEF Respond, BotsAlone, TypeOK, ControlTypes, BookTypes, BotTypes, ctlVars,
        signalVars, fileVars, bookVars, botVars, passVars, cancelVars
<1> QED
  BY <1>1, <1>2, <1>3, <1>4, <1>5, <1>6, OperatorAssumption DEF OperatorStep, RequestStep

-----------------------------------------------------------------------------
(* One request under a stop.                                                *)

\* A step that sends nothing: no request starts, none becomes "sent", nobody goes down.
SendsNothing ==
  /\ UNCHANGED <<ctlVars, since>>
  /\ \A c \in Bots : req'[c] = req[c] \/ req'[c] = NoOrder
  /\ \A c \in Bots : pc'[c] = "down" => pc[c] = "down"
  /\ \A o \in Orders : st'[o] = "sent" => st[o] = "sent"

LEMMA SendsNothingKeeps ==
  ASSUME TypeOK, SinceKept, OneLatePlacement, SendsNothing
  PROVE  SinceKept' /\ OneLatePlacement'
<1>1. \A g \in AllStops : On(g)' <=> On(g)
  BY DEF SendsNothing, ctlVars, On
<1>2. OneLatePlacement'
  BY <1>1 DEF SendsNothing, OneLatePlacement
<1>3. ASSUME NEW g \in AllStops, NEW o \in since'[g]
      PROVE  /\ pc'[o.bot] # "down"
             /\ On(g)' => \A p \in Orders : req'[o.bot] = p /\ st'[p] = "sent" => p.side \notin Covers(g)
  <2>1. o \in since[g] /\ o \in Orders /\ o.bot \in Bots
    BY OrderFacts DEF SendsNothing, TypeOK, HistoryTypes
  <2> QED
    BY <1>1, <2>1, OrderFacts DEF SendsNothing, SinceKept
<1> QED
  BY <1>2, <1>3 DEF SinceKept

\* The steps of a cycle or a boot that leave the orders alone.
LEMMA QuietSteps ==
  ASSUME TypeOK, GateKept, RequestKept, NEW b \in Bots,
         \/ CheckStops(b) \/ Observe(b) \/ RiskHalts(b) \/ PauseHalts(b) \/ StartSync(b)
         \/ SlotKept(b) \/ SlotEmpty(b) \/ SideDone(b) \/ Blocked(b) \/ ListAll(b)
         \/ BootStopped(b) \/ Reconcile(b) \/ RefreshDue(b)
  PROVE  SendsNothing /\ GateKept' /\ RequestKept'
<1>1. UNCHANGED <<ctlVars, since, req, st>>
  BY DEF CheckStops, Observe, RiskHalts, PauseHalts, Halt, StartSync, SlotKept, SlotEmpty, SideDone,
         Blocked, ListAll, BootStopped, Reconcile, RefreshDue, Quiet, bookVars, historyVars
<1>2. /\ \A c \in Bots \ {b} : pc'[c] = pc[c]
      /\ pc'[b] = pc[b] \/ (pc[b] # "post" /\ pc'[b] \notin {"down", "post"})
      /\ pc'[b] = "gate" => need' = need /\ need[b] > 0
  <2>1. CASE CheckStops(b) \/ Observe(b) \/ RiskHalts(b) \/ PauseHalts(b) \/ StartSync(b)
    BY <2>1 DEF CheckStops, Observe, RiskHalts, PauseHalts, Halt, StartSync, Go, TypeOK, BotTypes
  <2>2. CASE SlotKept(b) \/ SlotEmpty(b) \/ SideDone(b) \/ Blocked(b)
    BY <2>2 DEF SlotKept, SlotEmpty, SideDone, Blocked, Go, passVars, TypeOK, BotTypes
  <2>3. CASE ListAll(b) \/ BootStopped(b) \/ Reconcile(b)
    BY <2>3 DEF ListAll, BootStopped, Reconcile, MyTurn, Go, TypeOK, BotTypes
  <2>4. CASE RefreshDue(b)
    BY <2>4 DEF RefreshDue, passVars, GateKept
  <2> QED
    BY <2>1, <2>2, <2>3, <2>4
<1>3. need' = need \/ (pc'[b] \notin {"gate", "post"} /\ \A c \in Bots \ {b} : need'[c] = need[c])
  BY DEF CheckStops, Observe, RiskHalts, PauseHalts, Halt, StartSync, SlotKept, SlotEmpty, SideDone,
         Blocked, ListAll, BootStopped, Reconcile, RefreshDue, Go, TypeOK, BotTypes, passVars
<1>4. SendsNothing
  BY <1>1, <1>2 DEF SendsNothing, TypeOK, BotTypes
<1>5. GateKept'
  BY <1>2, <1>3 DEF GateKept, TypeOK, BotTypes
<1>6. RequestKept'
  BY <1>1, <1>2 DEF RequestKept, OfBot, TypeOK, BotTypes
<1> QED
  BY <1>4, <1>5, <1>6

\* The steps that end a pass or take an order off the book, and the answer to a request.
LEMMA EndingSteps ==
  ASSUME TypeOK, GateKept, RequestKept, NEW b \in Bots,
         \/ LoadFails(b) \/ Throttled(b) \/ SlotCancelFails(b) \/ PlaceFails(b) \/ FinishCycle(b)
         \/ ListFails(b) \/ CancelDone(b) \/ SlotCancelled(b) \/ CancelOne(b) \/ PlaceReturns(b)
  PROVE  SendsNothing /\ GateKept' /\ RequestKept'
<1>1. UNCHANGED <<ctlVars, since>>
  BY DEF LoadFails, Throttled, SlotCancelFails, PlaceFails, FinishCycle, ListFails, CancelDone,
         SlotCancelled, CancelOne, PlaceReturns, Quiet
<1>2. \A o \in Orders : st'[o] = "sent" => st[o] = "sent"
  BY DEF LoadFails, Throttled, SlotCancelFails, PlaceFails, FinishCycle, ListFails, CancelDone,
         SlotCancelled, CancelOne, PlaceReturns, CancelLands, Here, OnSide, TypeOK, BookTypes,
         BotTypes, bookVars
<1>3. CASE \/ LoadFails(b) \/ Throttled(b) \/ SlotCancelFails(b) \/ PlaceFails(b)
           \/ FinishCycle(b) \/ ListFails(b) \/ CancelDone(b)
  <2>1. /\ \A c \in Bots \ {b} : pc'[c] = pc[c] /\ req'[c] = req[c] /\ need'[c] = need[c]
        /\ pc'[b] \in {"wait", "observe", "list"}
        /\ req'[b] = NoOrder \/ (pc[b] = "observe" /\ req' = req)
    <3>1. CASE LoadFails(b)
      BY <3>1 DEF LoadFails, EndCycle, EndPass, Go, TypeOK, BotTypes, passVars
    <3>2. CASE CancelDone(b)
      BY <3>2 DEF CancelDone, EndPass, Go, TypeOK, BotTypes
    <3>3. CASE EndCycle(b)
      BY <3>3 DEF EndCycle, EndPass, TypeOK, BotTypes
    <3> QED
      BY <1>3, <3>1, <3>2, <3>3 DEF Throttled, SlotCancelFails, PlaceFails, FinishCycle, ListFails
  <2> QED
    BY <1>1, <1>2, <2>1 DEF SendsNothing, GateKept, RequestKept, OfBot
<1>4. CASE SlotCancelled(b) \/ CancelOne(b) \/ PlaceReturns(b)
  <2>1. /\ \A c \in Bots \ {b} : pc'[c] = pc[c] /\ req'[c] = req[c] /\ need'[c] = need[c]
        /\ \/ pc'[b] \in {"sync", "cancel"}
           \/ pc'[b] = "gate" /\ need' = need /\ need[b] > 0
        /\ req'[b] = NoOrder
    BY <1>4 DEF SlotCancelled, CancelOne, PlaceReturns, RequestKept, Go, TypeOK, BotTypes, passVars
  <2> QED
    BY <1>1, <1>2, <2>1 DEF SendsNothing, GateKept, RequestKept, OfBot
<1> QED
  BY <1>3, <1>4

\* A placement starts only where no standing stop covers its side.
LEMMA PlaceKeeps ==
  ASSUME IInv, NEW b \in Bots, Place(b)
  PROVE  GateKept' /\ RequestKept' /\ SinceKept' /\ OneLatePlacement'
<1>1. PICK o \in NextFresh(b, at[b]) : /\ req' = [req EXCEPT ![b] = o]
                                       /\ st' = [st EXCEPT ![o] = "sent"]
  BY DEF Place
<1>2. o \in OfBot(b) /\ o \in Orders /\ o.bot = b /\ o.side = at[b]
  BY <1>1 DEF NextFresh, Fresh, OnSide, OfBot
<1>3. GateKept' /\ RequestKept'
  BY <1>1, <1>2
  DEF Place, IInv, Go, GateKept, RequestKept, OfBot, TypeOK, BotTypes, passVars
<1>4. \A g \in AllStops : since'[g] = since[g] /\ (On(g)' <=> On(g))
  BY DEF Place, Quiet, ctlVars, On
<1>5. \A g \in AllStops : On(g) => o.side \notin Covers(g)
  BY <1>2 DEF Place, AllowPlace, On, Covers, AllStops, Sides
<1>6. OneLatePlacement'
  BY <1>4 DEF IInv, OneLatePlacement
<1>7. ASSUME NEW g \in AllStops, NEW q \in since[g]
      PROVE  /\ pc'[q.bot] # "down"
             /\ On(g) => \A p \in Orders : req'[q.bot] = p /\ st'[p] = "sent" => p.side \notin Covers(g)
  <2>1. q \in Orders /\ q.bot \in Bots
    BY OrderFacts DEF IInv, TypeOK, HistoryTypes
  <2>2. pc'[q.bot] # "down"
    BY <2>1 DEF Place, Go, IInv, SinceKept, TypeOK, BotTypes
  <2>3. ASSUME On(g), NEW p \in Orders, req'[q.bot] = p, st'[p] = "sent"
        PROVE  p.side \notin Covers(g)
    <3>1. CASE q.bot = b
      BY <1>1, <1>5, <2>1, <2>3, <3>1 DEF IInv, TypeOK, BotTypes
    <3>2. CASE q.bot # b
      <4>1. p = req[q.bot] /\ p # o
        BY <1>1, <1>2, <2>1, <2>3, <3>2 DEF IInv, TypeOK, BotTypes, RequestKept, OfBot, Place, NoOrder, Orders
      <4> QED
        BY <1>1, <2>1, <2>3, <4>1 DEF IInv, SinceKept, TypeOK, BookTypes
    <3> QED
      BY <3>1, <3>2
  <2> QED
    BY <2>2, <2>3
<1>8. SinceKept'
  BY <1>4, <1>7 DEF SinceKept
<1> QED
  BY <1>3, <1>6, <1>8

LEMMA CycleKeeps ==
  ASSUME IInv, NEW b \in Bots, CycleStep(b) \/ BootStopped(b) \/ Reconcile(b) \/ RefreshDue(b)
  PROVE  IInv'
<1>1. TypeOK'
  BY CycleTypes DEF IInv
<1>2. HandlerKept'
  <2>1. UNCHANGED handlerVars
    <3>1. CASE RefreshDue(b)
      BY <3>1 DEF RefreshDue
    <3>2. CASE ~RefreshDue(b)
      BY <3>2
      DEF CycleStep, CheckStops, Observe, LoadFails, RiskHalts, PauseHalts, Halt, Throttled, StartSync,
          SlotKept, SlotCancelled, SlotCancelFails, SlotEmpty, SideDone, Blocked, Place, PlaceReturns,
          PlaceFails, FinishCycle, ListAll, ListFails, CancelOne, CancelDone, BootStopped, Reconcile,
          Quiet
    <3> QED
      BY <3>1, <3>2
  <2> QED
    BY <2>1 DEF IInv, HandlerKept, handlerVars
<1>3. CASE Place(b)
  BY <1>1, <1>2, <1>3, PlaceKeeps DEF IInv
<1>4. CASE ~Place(b)
  <2>1. SendsNothing /\ GateKept' /\ RequestKept'
    BY <1>4, QuietSteps, EndingSteps DEF CycleStep, IInv
  <2> QED
    BY <1>1, <1>2, <2>1, SendsNothingKeeps DEF IInv
<1> QED
  BY <1>3, <1>4

LEMMA DownKeeps ==
  ASSUME IInv, TypeOK', Down("down")
  PROVE  IInv'
<1>1. GateKept' /\ RequestKept' /\ HandlerKept'
  BY DEF Down, GateKept, RequestKept, HandlerKept
<1>2. SinceKept' /\ OneLatePlacement'
  BY DEF Down, SinceKept, OneLatePlacement
<1> QED
  BY <1>1, <1>2 DEF IInv

\* A boot takes its flags from the file, when no order has been accepted under any stop yet.
LEMMA BootKeeps ==
  ASSUME IInv, TypeOK', Boot
  PROVE  IInv'
<1>1. GateKept' /\ RequestKept' /\ HandlerKept'
  BY DEF Boot, IInv, TypeOK, BotTypes, GateKept, RequestKept, HandlerKept, passVars, handlerVars
<1>2. \A g \in AllStops : since'[g] = {}
  BY OrderFacts DEF Boot, IInv, SinceKept, TypeOK, HistoryTypes, historyVars
<1>3. SinceKept' /\ OneLatePlacement'
  BY <1>2 DEF SinceKept, OneLatePlacement
<1> QED
  BY <1>1, <1>3 DEF IInv

LEMMA ProcessKeeps ==
  ASSUME IInv,
         Poll \/ Woken \/ Crash \/ Boot \/ ToggleKillFile \/ Settle
           \/ \E b \in Bots : BootFails(b) \/ ReconcileFindsNothing(b)
  PROVE  IInv'
<1>1. TypeOK'
  BY ProcessTypes DEF IInv
<1>2. CASE Poll \/ Woken
  <2>1. StartCycles
    BY <1>2 DEF Poll, Woken
  <2>2. GateKept' /\ RequestKept' /\ HandlerKept' /\ SendsNothing
    BY <2>1
    DEF StartCycles, AllWait, Quiet, IInv, TypeOK, BotTypes, GateKept, RequestKept, HandlerKept,
        SendsNothing, OfBot, passVars, bookVars, handlerVars
  <2> QED
    BY <1>1, <2>2, SendsNothingKeeps DEF IInv
<1>3. CASE Crash \/ \E b \in Bots : BootFails(b) \/ ReconcileFindsNothing(b)
  BY <1>1, <1>3, DownKeeps DEF Crash, BootFails, ReconcileFindsNothing
<1>4. CASE Boot
  BY <1>1, <1>4, BootKeeps
<1>5. CASE ToggleKillFile \/ Settle
  <2>1. UNCHANGED <<ctlVars, st, botVars, handlerVars, since>>
    BY <1>5 DEF ToggleKillFile, Settle, historyVars
  <2> QED
    BY <1>1, <2>1, SendsNothingKeeps
    DEF IInv, GateKept, RequestKept, HandlerKept, SendsNothing, OfBot, ctlVars, botVars, passVars,
        handlerVars
<1> QED
  BY <1>2, <1>3, <1>4, <1>5

\* The accepted order was the only request of its bot, and is no longer on its way.
LEMMA VenueKeeps ==
  ASSUME IInv, NEW o \in Orders, OrderStep(o)
  PROVE  IInv'
<1>1. TypeOK'
  BY VenueTypes DEF IInv
<1>2. NothingButOrders
  BY DEF OrderStep, Accept, Refuse, Depart, Reserve, GiveBack
<1>3. GateKept' /\ RequestKept' /\ HandlerKept'
  BY <1>2
  DEF NothingButOrders, IInv, GateKept, RequestKept, HandlerKept, OfBot, botVars, passVars, handlerVars
<1>4. \A p \in Orders : st'[p] = "sent" => st[p] = "sent" /\ p # o
  BY DEF OrderStep, Accept, Refuse, Depart, Reserve, GiveBack, IInv, TypeOK, BookTypes
<1>5. CASE since' = since
  BY <1>1, <1>2, <1>3, <1>4, <1>5, SendsNothingKeeps
  DEF SendsNothing, NothingButOrders, botVars, IInv
<1>6. CASE Accept(o) /\ req[o.bot] = o
  <2>1. \A g \in AllStops : /\ On(g)' <=> On(g)
                            /\ since'[g] = IF On(g) /\ o.side \in Covers(g)
                                             THEN since[g] \cup {o} ELSE since[g]
    BY <1>2, <1>6 DEF Accept, NothingButOrders, ctlVars, On
  <2>2. o.bot \in Bots /\ pc[o.bot] = "post"
    BY <1>6, OrderFacts DEF IInv, RequestKept
  <2>3. ASSUME NEW g \in AllStops, NEW p \in since'[g]
        PROVE  /\ pc'[p.bot] # "down"
               /\ On(g)' => \A q \in Orders : req'[p.bot] = q /\ st'[q] = "sent" => q.side \notin Covers(g)
    <3>1. CASE p \in since[g]
      BY <1>2, <1>4, <2>1, <3>1 DEF NothingButOrders, botVars, IInv, SinceKept
    <3>2. CASE p = o
      BY <1>2, <1>4, <1>6, <2>2, <3>2 DEF NothingButOrders, botVars
    <3> QED
      BY <2>1, <3>1, <3>2
  <2>4. ASSUME NEW g \in AllStops, NEW p \in since'[g], NEW q \in since'[g], On(g)', p.bot = q.bot
        PROVE  p = q
    <3>1. CASE p \in since[g] /\ q \in since[g]
      BY <2>1, <2>4, <3>1 DEF IInv, OneLatePlacement
    <3>2. CASE p \notin since[g] /\ q \in since[g]
      BY <1>6, <2>1, <2>4, <3>2 DEF Accept, IInv, SinceKept
    <3>3. CASE p \in since[g] /\ q \notin since[g]
      BY <1>6, <2>1, <2>4, <3>3 DEF Accept, IInv, SinceKept
    <3>4. CASE p \notin since[g] /\ q \notin since[g]
      <4>1. since'[g] \subseteq since[g] \cup {o}
        BY <2>1
      <4> QED
        BY <3>4, <4>1
    <3> QED
      BY <3>1, <3>2, <3>3, <3>4
  <2>5. SinceKept' /\ OneLatePlacement'
    BY <2>3, <2>4 DEF SinceKept, OneLatePlacement
  <2> QED
    BY <1>1, <1>3, <2>5 DEF IInv
<1> QED
  BY <1>5, <1>6 DEF OrderStep, Accept, Refuse, Depart, Reserve, GiveBack

\* A stop that is set, or lifted, starts from no order accepted under it; the others are as
\* they were.
LEMMA RequestKeeps ==
  ASSUME IInv, NEW h \in Handlers, OperatorStep(h) \/ RequestStep(h)
  PROVE  IInv'
<1>1. TypeOK'
  BY RequestTypes DEF IInv
<1>2. UNCHANGED botVars /\ \A o \in Orders : st'[o] = "sent" => st[o] = "sent"
  BY DEF OperatorStep, RequestStep, StopAsked, ReleaseAsked, Persist, ListBook, CancelListed,
         Respond, BotsAlone, CancelLands, bookVars, IInv, TypeOK, BookTypes, HandlerTypes
<1>3. GateKept' /\ RequestKept'
  BY <1>2 DEF IInv, GateKept, RequestKept, OfBot, botVars, passVars
<1>4. HandlerKept'
  <2>1. ASSUME NEW g \in AllStops, StopAsked(h, g)
        PROVE  HandlerKept'
    BY <2>1 DEF StopAsked, IInv, HandlerKept, TypeOK, HandlerTypes
  <2>2. ASSUME NEW r, ReleaseAsked(h, r)
        PROVE  HandlerKept'
    BY <2>2 DEF ReleaseAsked, Asked, IInv, HandlerKept, TypeOK, HandlerTypes
  <2>3. CASE Persist(h)
    BY <2>3 DEF Persist, IInv, HandlerKept, TypeOK, HandlerTypes
  <2>4. CASE ListBook(h) \/ CancelListed(h) \/ Respond(h)
    BY <2>4 DEF ListBook, CancelListed, Respond, IInv, HandlerKept, TypeOK, HandlerTypes
  <2> QED
    BY <2>1, <2>2, <2>3, <2>4, OperatorAssumption DEF OperatorStep, RequestStep
<1>5. \A g \in AllStops : since'[g] = {} \/ (since'[g] = since[g] /\ (On(g)' => On(g)))
  <2>1. ASSUME NEW g \in AllStops, StopAsked(h, g)
        PROVE  \A k \in AllStops : since'[k] = {} \/ (since'[k] = since[k] /\ (On(k)' => On(k)))
    BY <2>1 DEF StopAsked, SetStop, On, IInv, TypeOK, ControlTypes, HistoryTypes, AllStops, Sides
  <2>2. ASSUME NEW r, ReleaseAsked(h, r)
        PROVE  \A k \in AllStops : since'[k] = {} \/ (since'[k] = since[k] /\ (On(k)' => On(k)))
    BY <2>2 DEF ReleaseAsked, On, AllStops, Sides
  <2>3. CASE RequestStep(h)
    BY <2>3 DEF RequestStep, Persist, ListBook, CancelListed, Respond, ctlVars, On
  <2> QED
    BY <2>1, <2>2, <2>3, OperatorAssumption DEF OperatorStep
<1>6. SinceKept' /\ OneLatePlacement'
  <2>1. OneLatePlacement'
    BY <1>5 DEF IInv, OneLatePlacement
  <2>2. ASSUME NEW g \in AllStops, NEW o \in since'[g]
        PROVE  /\ pc'[o.bot] # "down"
               /\ On(g)' => \A p \in Orders : req'[o.bot] = p /\ st'[p] = "sent" => p.side \notin Covers(g)
    BY <1>2, <1>5 DEF IInv, SinceKept, botVars
  <2> QED
    BY <2>1, <2>2 DEF SinceKept
<1> QED
  BY <1>1, <1>3, <1>4, <1>6 DEF IInv

THEOREM StepKeeps == IInv /\ [Next]_vars => IInv'
<1> SUFFICES ASSUME IInv, [Next]_vars PROVE IInv'
  OBVIOUS
<1>1. CASE UNCHANGED vars
  BY <1>1
  DEF vars, ctlVars, signalVars, fileVars, botVars, passVars, cancelVars, handlerVars, historyVars,
      IInv, TypeOK, ControlTypes, BookTypes, BotTypes, HandlerTypes, HistoryTypes, GateKept,
      RequestKept, HandlerKept, SinceKept, OneLatePlacement, On
<1>2. CASE Next
  BY <1>2, CycleKeeps, ProcessKeeps, VenueKeeps, RequestKeeps DEF Next, Steps, BootStep
<1> QED
  BY <1>1, <1>2

\* IInv is inductive.
THEOREM Invariant == Spec => []IInv
BY InitHolds, StepKeeps, PTL DEF Spec

\* Every variable keeps its type.
THEOREM TypeCorrect == Spec => []TypeOK
<1>1. IInv => TypeOK
  BY DEF IInv
<1> QED
  BY <1>1, Invariant, PTL

\* From the moment a kill, a pause or a side change is set until it is lifted, at most one order
\* of each bot reaches the book under it.
THEOREM AtMostOneLatePlacement == Spec => []OneLatePlacement
<1>1. IInv => OneLatePlacement
  BY DEF IInv
<1> QED
  BY <1>1, Invariant, PTL

-----------------------------------------------------------------------------
(* A clean answer. What a handler has not listed yet, or listed and not     *)
(* cancelled, is all that may rest under its stop; what reaches the book    *)
(* later was in flight, sent by a call nobody waits for, or with the        *)
(* matcher.                                                                 *)

\* An order on its way is its bot's request, or nobody waits for it; one that the matcher has is
\* out of a stop's reach.
SentKept ==
  \A o \in Orders : /\ st[o] = "sent" => req[o.bot] = o \/ o \in strays
                    /\ st[o] = "matching" => o \in strays

\* While a bot initializes, no other runs a cycle.
BootAlone ==
  /\ \A b \in Bots : Booting(b) => pc[b] \in {"list", "cancel"}
  /\ \A b, c \in Bots : pc[b] = "boot" \/ Booting(b) => pc[c] \in {"boot", "wait"} \/ Booting(c)

\* A process that is down has no request, and nothing it has answered.
DownKept == (\A b \in Bots : pc[b] = "down") => answered = {} /\ \A h \in Handlers : hpc[h] = "idle"

\* A request whose work went well so far has its stop in force, and has still to list or to cancel
\* whatever rests under it.
SeenKept ==
  \A h \in Handlers, g \in AllStops : hok[h] /\ hstop[h] = g =>
    /\ On(g)
    /\ \A o \in Orders : st[o] = "active" /\ o.side \in Covers(g) =>
         o \in since[g] \cup strays \/ o.bot \in hbots[h] \/ o \in hleft[h]

AnsweredOn == \A g \in answered : On(g)

AnswerInv == SentKept /\ BootAlone /\ DownKept /\ SeenKept /\ AnsweredOn /\ CleanAnswerHolds

\* Whatever comes to rest in this step is out of the reach of the stops in force, or in flight
\* when they came; what was out of reach remains so.
NothingNewRests ==
  \A o \in Orders : st'[o] = "active" =>
    \/ o \in strays'
    \/ st[o] = "active" /\ o \notin strays
    \/ \A g \in AllStops : On(g) /\ o.side \in Covers(g) => o \in since'[g]

LEMMA BookKeepsAnswers ==
  ASSUME TypeOK, HandlerKept, AnswerInv, UNCHANGED <<ctlVars, handlerVars, answered>>,
         \A g \in AllStops : since[g] \subseteq since'[g], NothingNewRests
  PROVE  SeenKept' /\ AnsweredOn' /\ CleanAnswerHolds'
<1>1. \A g \in AllStops : On(g)' <=> On(g)
  BY DEF ctlVars, On
<1>2. answered \subseteq AllStops
  BY DEF TypeOK, HistoryTypes
<1>3. AnsweredOn'
  BY <1>1, <1>2 DEF AnswerInv, AnsweredOn
<1>4. ASSUME NEW g \in answered', NEW o \in Orders, st'[o] = "active", o.side \in Covers(g)
      PROVE  o \in since'[g] \cup strays'
  BY <1>2, <1>4 DEF NothingNewRests, AnswerInv, AnsweredOn, CleanAnswerHolds
<1>5. ASSUME NEW h \in Handlers, NEW g \in AllStops, hok'[h], hstop'[h] = g
      PROVE  /\ On(g)'
             /\ \A o \in Orders : st'[o] = "active" /\ o.side \in Covers(g) =>
                  o \in since'[g] \cup strays' \/ o.bot \in hbots'[h] \/ o \in hleft'[h]
  <2>1. hstop' = hstop /\ hok' = hok /\ hbots' = hbots /\ hleft' = hleft
    BY DEF handlerVars
  <2>2. On(g)
    BY <1>5, <2>1 DEF AnswerInv, SeenKept
  <2>3. ASSUME NEW o \in Orders, st'[o] = "active", o.side \in Covers(g)
        PROVE  o \in since'[g] \cup strays' \/ o.bot \in hbots[h] \/ o \in hleft[h]
    BY <1>5, <2>1, <2>2, <2>3 DEF NothingNewRests, AnswerInv, SeenKept
  <2> QED
    BY <1>1, <2>1, <2>2, <2>3
<1> QED
  BY <1>3, <1>4, <1>5 DEF SeenKept, CleanAnswerHolds

\* What a step of bot b does to its own place among the bots that initialize.
Proceeds(b) ==
  /\ \A c \in Bots \ {b} : pc'[c] = pc[c] /\ why'[c] = why[c]
  /\ \/ pc'[b] = pc[b] /\ why'[b] = why[b]
     \/ /\ pc[b] \notin {"boot", "wait"} /\ ~Booting(b)
        /\ pc'[b] \notin {"boot", "down"} /\ ~Booting(b)'
     \/ pc[b] = "boot" /\ pc'[b] \in {"list", "cancel"} /\ Booting(b)'
     \/ Booting(b) /\ pc'[b] \in {"list", "cancel"} /\ Booting(b)'
     \/ Booting(b) /\ pc'[b] = "wait" /\ ~Booting(b)'

LEMMA ProceedsKeeps ==
  ASSUME BootAlone, NEW b \in Bots, Proceeds(b)
  PROVE  BootAlone'
<1>1. \A c \in Bots \ {b} : Booting(c)' <=> Booting(c)
  BY DEF Proceeds, Booting
<1>2. CASE pc'[b] = pc[b] /\ why'[b] = why[b]
  BY <1>1, <1>2 DEF Proceeds, BootAlone, Booting
<1>3. CASE /\ pc[b] \notin {"boot", "wait"} /\ ~Booting(b)
           /\ pc'[b] \notin {"boot", "down"} /\ ~Booting(b)'
  BY <1>1, <1>3 DEF Proceeds, BootAlone
<1>4. CASE pc[b] = "boot" /\ pc'[b] \in {"list", "cancel"} /\ Booting(b)'
  BY <1>1, <1>4 DEF Proceeds, BootAlone
<1>5. CASE Booting(b) /\ pc'[b] \in {"list", "cancel"} /\ Booting(b)'
  BY <1>1, <1>5 DEF Proceeds, BootAlone
<1>6. CASE Booting(b) /\ pc'[b] = "wait" /\ ~Booting(b)'
  BY <1>1, <1>6 DEF Proceeds, BootAlone
<1> QED
  BY <1>2, <1>3, <1>4, <1>5, <1>6 DEF Proceeds

\* A step of one bot: the orders stay as they are but for those cancelled and the one placed, and
\* an order whose answer is no longer waited for is known to be out of reach.
Carries ==
  /\ UNCHANGED <<ctlVars, handlerVars, since, answered>>
  /\ \A o \in Orders : st'[o] # "none" =>
       /\ st'[o] = st[o] \/ (st'[o] = "sent" /\ req'[o.bot] = o)
       /\ o \in strays => o \in strays'
  /\ \A o \in Orders : st[o] = "sent" /\ req[o.bot] = o => req'[o.bot] = o \/ o \in strays'

LEMMA CancelFacts ==
  ASSUME TypeOK, NEW o \in Orders, CancelLands(o) \/ UNCHANGED bookVars
  PROVE  \A p \in Orders : st'[p] # "none" => st'[p] = st[p] /\ (p \in strays => p \in strays')
BY DEF TypeOK, BookTypes, CancelLands, bookVars

LEMMA NotPosting ==
  ASSUME RequestKept, NEW b \in Bots, pc[b] # "post", \A c \in Bots \ {b} : req'[c] = req[c],
         req'[b] \in {NoOrder, req[b]}
  PROVE  \A o \in Orders : req[o.bot] = o => req'[o.bot] = o
BY OrderFacts DEF RequestKept

LEMMA CycleCarries ==
  ASSUME IInv, NEW b \in Bots,
         CycleStep(b) \/ BootStopped(b) \/ Reconcile(b) \/ RefreshDue(b)
  PROVE  Carries
<1>1. TypeOK /\ RequestKept
  BY DEF IInv
<1>2. UNCHANGED <<ctlVars, handlerVars, since, answered>>
  BY DEF CycleStep, CheckStops, Observe, LoadFails, RiskHalts, PauseHalts, Halt, Throttled, StartSync,
         SlotKept, SlotCancelled, SlotCancelFails, SlotEmpty, SideDone, Blocked, Place, PlaceReturns,
         PlaceFails, FinishCycle, ListAll, ListFails, CancelOne, CancelDone, BootStopped, Reconcile,
         RefreshDue, historyVars, Quiet
<1>3. CASE \/ CheckStops(b) \/ Observe(b) \/ RiskHalts(b) \/ PauseHalts(b) \/ StartSync(b)
           \/ SlotKept(b) \/ SlotEmpty(b) \/ SideDone(b) \/ Blocked(b) \/ ListAll(b)
           \/ BootStopped(b) \/ Reconcile(b) \/ RefreshDue(b)
  <2>1. UNCHANGED <<req, st, strays>>
    BY <1>3 DEF CheckStops, Observe, RiskHalts, PauseHalts, Halt, StartSync, SlotKept, SlotEmpty,
                SideDone, Blocked, ListAll, BootStopped, Reconcile, RefreshDue, bookVars, historyVars
  <2> QED
    BY <1>2, <2>1 DEF Carries
<1>4. CASE LoadFails(b) \/ Throttled(b) \/ FinishCycle(b) \/ ListFails(b) \/ CancelDone(b)
  <2>1. UNCHANGED <<st, strays>> /\ pc[b] # "post" /\ (EndPass(b) \/ req' = req)
    BY <1>4 DEF LoadFails, Throttled, FinishCycle, ListFails, CancelDone, EndCycle, bookVars
  <2>2. /\ \A c \in Bots \ {b} : req'[c] = req[c]
        /\ req'[b] \in {NoOrder, req[b]}
    BY <1>1, <2>1 DEF EndPass, TypeOK, BotTypes
  <2> QED
    BY <1>1, <1>2, <2>1, <2>2, NotPosting DEF Carries
<1>5. CASE SlotCancelled(b) \/ SlotCancelFails(b) \/ CancelOne(b)
  <2>1. /\ pc[b] # "post"
        /\ \E o \in left[b] : CancelLands(o) \/ UNCHANGED bookVars
        /\ EndPass(b) \/ req' = req
    BY <1>5 DEF SlotCancelled, SlotCancelFails, CancelOne, EndCycle, Here, OnSide
  <2>2. \A p \in Orders : st'[p] # "none" => st'[p] = st[p] /\ (p \in strays => p \in strays')
    BY <1>1, <2>1, CancelFacts DEF TypeOK, BotTypes
  <2>3. /\ \A c \in Bots \ {b} : req'[c] = req[c]
        /\ req'[b] \in {NoOrder, req[b]}
    BY <1>1, <2>1 DEF EndPass, TypeOK, BotTypes
  <2> QED
    BY <1>1, <1>2, <2>1, <2>2, <2>3, NotPosting DEF Carries
<1>6. CASE Place(b)
  <2>1. PICK o \in NextFresh(b, at[b]) : /\ req' = [req EXCEPT ![b] = o]
                                         /\ st' = [st EXCEPT ![o] = "sent"]
    BY <1>6 DEF Place
  <2>2. o \in Orders /\ o.bot = b /\ strays' = strays /\ req[b] = NoOrder
    BY <1>1, <1>6, <2>1 DEF Place, NextFresh, Fresh, OnSide, OfBot, RequestKept
  <2> QED
    BY <1>1, <1>2, <2>1, <2>2, OrderFacts DEF Carries, TypeOK, BotTypes, BookTypes
<1>7. CASE PlaceReturns(b)
  BY <1>1, <1>2, <1>7, OrderFacts DEF PlaceReturns, Carries, TypeOK, BotTypes, BookTypes, bookVars
<1>8. CASE PlaceFails(b)
  <2>1. /\ st' = st /\ strays \subseteq strays' /\ (st[req[b]] = "sent" => req[b] \in strays')
        /\ EndPass(b)
    BY <1>8 DEF PlaceFails, EndCycle
  <2> QED
    BY <1>1, <1>2, <2>1, OrderFacts DEF EndPass, Carries, TypeOK, BotTypes, BookTypes
<1> QED
  BY <1>3, <1>4, <1>5, <1>6, <1>7, <1>8 DEF CycleStep

LEMMA CycleProceeds ==
  ASSUME IInv, BootAlone, NEW b \in Bots,
         CycleStep(b) \/ BootStopped(b) \/ Reconcile(b) \/ RefreshDue(b)
  PROVE  Proceeds(b)
<1>1. TypeOK
  BY DEF IInv
<1>2. pc[b] \notin {"list", "cancel"} => ~Booting(b)
  BY DEF BootAlone
<1>3. CASE CheckStops(b) \/ RiskHalts(b) \/ PauseHalts(b)
  <2>1. /\ pc[b] \in {"check", "decide"} /\ pc'[b] \in {"list", "observe"}
        /\ why'[b] \in {"halt", "fee", why[b]}
        /\ \A c \in Bots \ {b} : pc'[c] = pc[c] /\ why'[c] = why[c]
    BY <1>1, <1>3 DEF CheckStops, RiskHalts, PauseHalts, Halt, Go, TypeOK, BotTypes
  <2> QED
    BY <1>2, <2>1 DEF Proceeds, Booting
<1>4. CASE \/ Observe(b) \/ StartSync(b) \/ SlotKept(b) \/ SlotEmpty(b) \/ SideDone(b) \/ Blocked(b)
           \/ SlotCancelled(b) \/ Place(b) \/ PlaceReturns(b)
  <2>1. /\ pc[b] \in {"observe", "decide", "sync", "gate", "post"}
        /\ pc'[b] \in {"decide", "sync", "gate", "post", "finish"}
        /\ why' = why
        /\ \A c \in Bots \ {b} : pc'[c] = pc[c]
    BY <1>1, <1>4 DEF Observe, StartSync, SlotKept, SlotEmpty, SideDone, Blocked, SlotCancelled, Place,
                      PlaceReturns, Go, cancelVars, TypeOK, BotTypes
  <2> QED
    BY <1>2, <2>1 DEF Proceeds, Booting
<1>5. CASE \/ LoadFails(b) \/ Throttled(b) \/ SlotCancelFails(b) \/ PlaceFails(b) \/ FinishCycle(b)
           \/ ListFails(b)
  <2>1. /\ pc[b] \notin {"boot", "wait", "cancel", "down"} /\ ~Booting(b)
        /\ pc'[b] \in {"wait", "list"}
        /\ why'[b] \in {"none", "halt"}
        /\ \A c \in Bots \ {b} : pc'[c] = pc[c] /\ why'[c] = why[c]
    BY <1>1, <1>2, <1>5 DEF LoadFails, Throttled, SlotCancelFails, PlaceFails, FinishCycle, ListFails,
                            EndCycle, EndPass, Go, TypeOK, BotTypes
  <2> QED
    BY <2>1 DEF Proceeds, Booting
<1>6. CASE ListAll(b) \/ CancelOne(b)
  <2>1. /\ pc[b] \in {"list", "cancel"} /\ pc'[b] \in {"list", "cancel"} /\ why' = why
        /\ \A c \in Bots \ {b} : pc'[c] = pc[c]
    BY <1>1, <1>6 DEF ListAll, CancelOne, Go, cancelVars, TypeOK, BotTypes
  <2> QED
    BY <2>1 DEF Proceeds, Booting
<1>7. CASE CancelDone(b)
  <2>1. /\ pc[b] = "cancel" /\ pc'[b] \in {"wait", "observe"} /\ why'[b] = "none"
        /\ pc'[b] = "observe" => why[b] = "fee"
        /\ \A c \in Bots \ {b} : pc'[c] = pc[c] /\ why'[c] = why[c]
    BY <1>1, <1>7 DEF CancelDone, EndPass, Go, TypeOK, BotTypes
  <2> QED
    BY <2>1 DEF Proceeds, Booting
<1>8. CASE BootStopped(b) \/ Reconcile(b)
  <2>1. /\ pc[b] = "boot" /\ pc'[b] \in {"list", "cancel"}
        /\ why'[b] \in {"boot_halt", "reconcile"}
        /\ \A c \in Bots \ {b} : pc'[c] = pc[c] /\ why'[c] = why[c]
    BY <1>1, <1>8 DEF BootStopped, Reconcile, MyTurn, Go, TypeOK, BotTypes
  <2> QED
    BY <2>1 DEF Proceeds, Booting
<1>9. CASE RefreshDue(b)
  BY <1>9 DEF RefreshDue, cancelVars, Proceeds
<1> QED
  BY <1>3, <1>4, <1>5, <1>6, <1>7, <1>8, <1>9 DEF CycleStep

LEMMA CycleAnswers ==
  ASSUME IInv, AnswerInv, NEW b \in Bots,
         CycleStep(b) \/ BootStopped(b) \/ Reconcile(b) \/ RefreshDue(b)
  PROVE  AnswerInv'
<1>1. Carries /\ Proceeds(b)
  BY CycleCarries, CycleProceeds DEF AnswerInv
<1>2. BootAlone'
  BY <1>1, ProceedsKeeps DEF AnswerInv
<1>3. SentKept'
  BY <1>1 DEF Carries, AnswerInv, SentKept
<1>4. DownKept'
  BY <1>1 DEF Carries, Proceeds, handlerVars, AnswerInv, DownKept
<1>5. NothingNewRests
  BY <1>1 DEF Carries, NothingNewRests
<1>6. SeenKept' /\ AnsweredOn' /\ CleanAnswerHolds'
  BY <1>1, <1>5, BookKeepsAnswers DEF Carries, IInv
<1> QED
  BY <1>2, <1>3, <1>4, <1>6 DEF AnswerInv

\* A process that goes down forgets what it answered; the orders it had on their way are strays.
LEMMA DownAnswers ==
  ASSUME TypeOK, SentKept, Down("down"), UNCHANGED st,
         strays \subseteq strays', \A o \in Orders : st[o] = "sent" => o \in strays'
  PROVE  AnswerInv'
<1>1. SentKept' /\ DownKept'
  BY DEF Down, SentKept, DownKept
<1>2. BootAlone'
  BY DEF Down, BootAlone, Booting
<1>3. SeenKept' /\ AnsweredOn' /\ CleanAnswerHolds'
  BY DEF Down, SeenKept, AnsweredOn, CleanAnswerHolds, AllStops, Sides
<1> QED
  BY <1>1, <1>2, <1>3 DEF AnswerInv

LEMMA ProcessAnswers ==
  ASSUME IInv, AnswerInv,
         Poll \/ Woken \/ Crash \/ Boot \/ ToggleKillFile \/ Settle
           \/ \E b \in Bots : BootFails(b) \/ ReconcileFindsNothing(b)
  PROVE  AnswerInv'
<1>1. TypeOK /\ RequestKept /\ HandlerKept /\ SentKept /\ BootAlone
  BY DEF IInv, AnswerInv
<1>2. CASE Poll \/ Woken
  <2>1. StartCycles
    BY <1>2 DEF Poll, Woken
  <2>2. UNCHANGED <<ctlVars, handlerVars, since, answered, st, strays, req, why>>
    BY <2>1 DEF StartCycles, Quiet, cancelVars, bookVars
  <2>3. SeenKept' /\ AnsweredOn' /\ CleanAnswerHolds'
    BY <1>1, <2>2, BookKeepsAnswers DEF NothingNewRests
  <2>4. SentKept'
    BY <1>1, <2>2 DEF SentKept
  <2>5. BootAlone'
    BY <1>1, <2>1, <2>2 DEF StartCycles, AllWait, BootAlone, Booting
  <2>6. DownKept'
    BY <2>1, <2>2 DEF StartCycles, AllWait, AnswerInv, DownKept, handlerVars
  <2> QED
    BY <2>3, <2>4, <2>5, <2>6 DEF AnswerInv
<1>3. CASE Crash
  BY <1>1, <1>3, DownAnswers DEF Crash, SentKept
<1>4. ASSUME NEW b \in Bots, BootFails(b) \/ ReconcileFindsNothing(b)
      PROVE  AnswerInv'
  <2>1. pc[b] = "boot" \/ Booting(b)
    BY <1>4 DEF BootFails, ReconcileFindsNothing, MyTurn, Booting
  <2>2. \A c \in Bots : pc[c] # "post" /\ req[c] = NoOrder
    BY <1>1, <2>1 DEF BootAlone, RequestKept
  <2>3. \A o \in Orders : st[o] = "sent" => o \in strays
    BY <1>1, <2>2, OrderFacts DEF SentKept
  <2> QED
    BY <1>1, <1>4, <2>3, DownAnswers DEF BootFails, ReconcileFindsNothing
<1>5. CASE Boot
  <2>1. /\ \A b \in Bots : pc[b] = "down" /\ pc'[b] = "boot" /\ why'[b] = why[b]
        /\ answered = {} /\ \A h \in Handlers : hpc[h] = "idle" /\ hstop[h] = "none"
        /\ UNCHANGED <<handlerVars, answered, st, strays, req>>
    BY <1>1, <1>5 DEF Boot, AnswerInv, DownKept, HandlerKept, cancelVars, historyVars
  <2>2. SentKept' /\ DownKept'
    BY <1>1, <2>1 DEF SentKept, DownKept, handlerVars
  <2>3. BootAlone'
    BY <1>1, <2>1 DEF BootAlone, Booting
  <2>4. SeenKept' /\ AnsweredOn' /\ CleanAnswerHolds'
    BY <2>1 DEF SeenKept, AnsweredOn, CleanAnswerHolds, AllStops, Sides, handlerVars
  <2> QED
    BY <2>2, <2>3, <2>4 DEF AnswerInv
<1>6. CASE ToggleKillFile \/ Settle
  <2>1. UNCHANGED <<ctlVars, handlerVars, since, answered, st, strays, req, why, pc>>
    BY <1>6 DEF ToggleKillFile, Settle, botVars, cancelVars, historyVars
  <2>2. SeenKept' /\ AnsweredOn' /\ CleanAnswerHolds'
    BY <1>1, <2>1, BookKeepsAnswers DEF NothingNewRests
  <2> QED
    BY <1>1, <2>1, <2>2 DEF AnswerInv, SentKept, BootAlone, Booting, DownKept, handlerVars
<1> QED
  BY <1>2, <1>3, <1>4, <1>5, <1>6

\* An order that comes to rest was its bot's request, and counts as in flight under the stops in
\* force, or is a stray.
LEMMA VenueAnswers ==
  ASSUME IInv, AnswerInv, NEW o \in Orders, OrderStep(o)
  PROVE  AnswerInv'
<1>1. TypeOK /\ HandlerKept /\ SentKept
  BY DEF IInv, AnswerInv
<1>2. UNCHANGED <<ctlVars, handlerVars, answered, req, why, pc>>
  BY DEF OrderStep, Accept, Refuse, Depart, Reserve, GiveBack, NothingButOrders, botVars, cancelVars
<1>3. \A p \in Orders \ {o} : st'[p] = st[p] /\ (p \in strays' <=> p \in strays)
  BY <1>1 DEF OrderStep, Accept, Refuse, Depart, Reserve, GiveBack, TypeOK, BookTypes
<1>4. /\ st'[o] # "sent"
      /\ st'[o] = "matching" => o \in strays'
      /\ st'[o] = "active" => (st[o] = "sent" /\ Accept(o)) \/ (st[o] = "matching" /\ strays' = strays)
  BY <1>1 DEF OrderStep, Accept, Refuse, Depart, Reserve, GiveBack, TypeOK, BookTypes
<1>5. SentKept'
  BY <1>1, <1>2, <1>3, <1>4 DEF SentKept
<1>6. \A g \in AllStops : since[g] \subseteq since'[g]
  BY DEF OrderStep, Accept, Refuse, Depart, Reserve, GiveBack
<1>7. NothingNewRests
  <2>1. ASSUME st'[o] = "active"
        PROVE  o \in strays' \/ \A g \in AllStops : On(g) /\ o.side \in Covers(g) => o \in since'[g]
    BY <1>1, <1>4, <2>1 DEF Accept, SentKept
  <2> QED
    BY <1>3, <2>1 DEF NothingNewRests
<1>8. SeenKept' /\ AnsweredOn' /\ CleanAnswerHolds'
  BY <1>1, <1>2, <1>6, <1>7, BookKeepsAnswers
<1>9. BootAlone' /\ DownKept'
  BY <1>2 DEF AnswerInv, BootAlone, Booting, DownKept, handlerVars
<1> QED
  BY <1>5, <1>8, <1>9 DEF AnswerInv

\* A stop that is set anew has every order still to list; the answers and requests of a stop that
\* is lifted no longer count.
LEMMA OperatorAnswers ==
  ASSUME IInv, AnswerInv, NEW h \in Handlers, OperatorStep(h)
  PROVE  AnswerInv'
<1>1. TypeOK /\ HandlerKept
  BY DEF IInv
<1>2. UNCHANGED <<st, strays, req, why, pc>> /\ Asked(h)
  BY DEF OperatorStep, StopAsked, ReleaseAsked, BotsAlone, botVars, cancelVars, bookVars
<1>3. SentKept' /\ BootAlone'
  BY <1>2 DEF AnswerInv, SentKept, BootAlone, Booting
<1>4. DownKept'
  BY <1>2 DEF Asked, Serving, DownKept
<1>5. ASSUME NEW g \in AllStops, StopAsked(h, g)
      PROVE  SeenKept' /\ AnsweredOn' /\ CleanAnswerHolds'
  <2>1. \A k \in AllStops : /\ On(k) => On(k)'
                            /\ k # g => since'[k] = since[k]
                            /\ On(k) => since'[k] = since[k]
    BY <1>1, <1>5 DEF StopAsked, SetStop, On, TypeOK, HistoryTypes, AllStops, Sides
  <2>2. On(g)'
    BY <1>5 DEF StopAsked, SetStop, On, AllStops, Sides
  <2>3. answered' \subseteq answered /\ (g \in answered' => On(g))
    BY <1>5 DEF StopAsked, SetStop
  <2>4. answered \subseteq AllStops
    BY <1>1 DEF TypeOK, HistoryTypes
  <2>5. AnsweredOn' /\ CleanAnswerHolds'
    BY <1>2, <2>1, <2>2, <2>3, <2>4 DEF AnswerInv, AnsweredOn, CleanAnswerHolds
  <2>6. /\ hstop'[h] = g /\ hbots'[h] = Bots
        /\ hleft' = hleft
        /\ \A j \in Handlers \ {h} : hstop'[j] = hstop[j] /\ hok'[j] = hok[j] /\ hbots'[j] = hbots[j]
    BY <1>1, <1>5 DEF StopAsked, TypeOK, HandlerTypes
  <2>7. ASSUME NEW j \in Handlers, NEW k \in AllStops, hok'[j], hstop'[j] = k
        PROVE  /\ On(k)'
               /\ \A o \in Orders : st'[o] = "active" /\ o.side \in Covers(k) =>
                    o \in since'[k] \cup strays' \/ o.bot \in hbots'[j] \/ o \in hleft'[j]
    <3>1. CASE j = h
      BY <2>2, <2>6, <2>7, <3>1, OrderFacts
    <3>2. CASE j # h
      BY <1>2, <2>1, <2>6, <2>7, <3>2 DEF AnswerInv, SeenKept
    <3> QED
      BY <3>1, <3>2
  <2> QED
    BY <2>5, <2>7 DEF SeenKept
<1>6. ASSUME NEW r, ReleaseAsked(h, r)
      PROVE  SeenKept' /\ AnsweredOn' /\ CleanAnswerHolds'
  <2>1. \A k \in AllStops \ Lifts(r) : (On(k) => On(k)') /\ since'[k] = since[k]
    BY <1>6 DEF ReleaseAsked, On, AllStops, Sides
  <2>2. answered' = answered \ Lifts(r) /\ answered \subseteq AllStops
    BY <1>1, <1>6 DEF ReleaseAsked, TypeOK, HistoryTypes
  <2>3. AnsweredOn' /\ CleanAnswerHolds'
    BY <1>2, <2>1, <2>2 DEF AnswerInv, AnsweredOn, CleanAnswerHolds
  <2>4. /\ UNCHANGED <<hstop, hbots, hleft>>
        /\ \A j \in Handlers : hok'[j] => hok[j] /\ hstop[j] \notin Lifts(r)
    BY <1>6 DEF ReleaseAsked
  <2>5. ASSUME NEW j \in Handlers, NEW k \in AllStops, hok'[j], hstop'[j] = k
        PROVE  /\ On(k)'
               /\ \A o \in Orders : st'[o] = "active" /\ o.side \in Covers(k) =>
                    o \in since'[k] \cup strays' \/ o.bot \in hbots'[j] \/ o \in hleft'[j]
    BY <1>2, <2>1, <2>4, <2>5 DEF AnswerInv, SeenKept
  <2> QED
    BY <2>3, <2>5 DEF SeenKept
<1> QED
  BY <1>3, <1>4, <1>5, <1>6, OperatorAssumption DEF OperatorStep, AnswerInv

\* What a request lists it has still to cancel; an order that it cancels, or that is not found,
\* does not rest.
LEMMA RequestAnswers ==
  ASSUME IInv, AnswerInv, NEW h \in Handlers, RequestStep(h)
  PROVE  AnswerInv'
<1>1. TypeOK /\ HandlerKept
  BY DEF IInv
<1>2. UNCHANGED <<ctlVars, since, req, why, pc>>
  BY DEF RequestStep, Persist, ListBook, CancelListed, Respond, BotsAlone, botVars, cancelVars
<1>3. \A g \in AllStops : On(g)' <=> On(g)
  BY <1>2 DEF On, ctlVars
<1>4. \A p \in Orders : st'[p] # "none" => st'[p] = st[p] /\ (p \in strays => p \in strays')
  <2>1. CASE CancelListed(h)
    BY <1>1, <2>1, CancelFacts DEF CancelListed, TypeOK, HandlerTypes
  <2>2. CASE ~CancelListed(h)
    BY <2>2 DEF RequestStep, Persist, ListBook, Respond, bookVars
  <2> QED
    BY <2>1, <2>2
<1>5. SentKept' /\ BootAlone'
  BY <1>2, <1>4 DEF AnswerInv, SentKept, BootAlone, Booting
<1>6. DownKept'
  BY <1>2 DEF RequestStep, Persist, ListBook, CancelListed, Respond, AnswerInv, DownKept
<1>7. answered \subseteq AllStops
  BY <1>1 DEF TypeOK, HistoryTypes
<1>8. CASE Persist(h)
  <2>1. UNCHANGED <<st, strays, hstop, hbots, hleft, hok, since, answered>>
    BY <1>8 DEF Persist, bookVars
  <2>2. SeenKept' /\ AnsweredOn' /\ CleanAnswerHolds'
    BY <1>3, <1>7, <2>1 DEF AnswerInv, SeenKept, AnsweredOn, CleanAnswerHolds
  <2> QED
    BY <1>5, <1>6, <2>2 DEF AnswerInv
<1>9. CASE ListBook(h)
  <2>1. PICK b \in hbots[h] :
          /\ hbots' = [hbots EXCEPT ![h] = @ \ {b}]
          /\ \/ /\ hleft' = [hleft EXCEPT ![h] = {o \in Resting(b) : o.side \in Covers(hstop[h])}]
                /\ UNCHANGED hok
             \/ hok' = [hok EXCEPT ![h] = FALSE] /\ UNCHANGED hleft
    BY <1>9 DEF ListBook
  <2>2. UNCHANGED <<st, strays, hstop, since, answered>> /\ hleft[h] = {}
    BY <1>9 DEF ListBook, bookVars
  <2>3. AnsweredOn' /\ CleanAnswerHolds'
    BY <1>3, <1>7, <2>2 DEF AnswerInv, AnsweredOn, CleanAnswerHolds
  <2>4. ASSUME NEW j \in Handlers, NEW g \in AllStops, hok'[j], hstop'[j] = g,
               NEW o \in Orders, st'[o] = "active", o.side \in Covers(g)
        PROVE  o \in since'[g] \cup strays' \/ o.bot \in hbots'[j] \/ o \in hleft'[j]
    <3>1. hok[j] /\ (j = h => hleft'[h] = {p \in Resting(b) : p.side \in Covers(hstop[h])})
      BY <1>1, <2>1, <2>4 DEF TypeOK, HandlerTypes
    <3>2. o \in since[g] \cup strays \/ o.bot \in hbots[j] \/ o \in hleft[j]
      BY <2>2, <2>4, <3>1 DEF AnswerInv, SeenKept
    <3>3. CASE j = h
      <4>1. o.bot = b => o \in hleft'[h]
        BY <2>2, <2>4, <3>1, <3>3 DEF Resting, OfBot
      <4>2. o.bot \in hbots[h] /\ o.bot # b => o.bot \in hbots'[h]
        BY <1>1, <2>1 DEF TypeOK, HandlerTypes
      <4> QED
        BY <2>2, <3>2, <3>3, <4>1, <4>2
    <3>4. CASE j # h
      BY <1>1, <2>1, <2>2, <3>2, <3>4 DEF TypeOK, HandlerTypes
    <3> QED
      BY <3>3, <3>4
  <2>5. \A j \in Handlers, g \in AllStops : hok'[j] /\ hstop'[j] = g => On(g)'
    BY <1>1, <1>3, <2>1, <2>2 DEF AnswerInv, SeenKept, TypeOK, HandlerTypes
  <2>6. SeenKept'
    BY <2>4, <2>5 DEF SeenKept
  <2> QED
    BY <1>5, <1>6, <2>3, <2>6 DEF AnswerInv
<1>10. CASE CancelListed(h)
  <2>1. UNCHANGED <<hstop, hbots, since, answered>>
    BY <1>10 DEF CancelListed
  <2>2. PICK o \in hleft[h] :
          /\ hleft' = [hleft EXCEPT ![h] = @ \ {o}]
          /\ \/ CancelLands(o) /\ UNCHANGED hok
             \/ hok' = [hok EXCEPT ![h] = FALSE]
    BY <1>10 DEF CancelListed
  <2>3. o \in Orders
    BY <1>1 DEF TypeOK, HandlerTypes
  <2>4. hok'[h] => st'[o] # "active"
    BY <1>1, <2>2, <2>3 DEF CancelLands, TypeOK, BookTypes, HandlerTypes, bookVars
  <2>5. /\ hleft'[h] = hleft[h] \ {o}
        /\ \A j \in Handlers : (j # h => hleft'[j] = hleft[j]) /\ (hok'[j] => hok[j])
    BY <1>1, <2>2 DEF TypeOK, HandlerTypes
  <2>6. AnsweredOn' /\ CleanAnswerHolds'
    BY <1>3, <1>4, <1>7, <2>1 DEF AnswerInv, AnsweredOn, CleanAnswerHolds
  <2>7. SeenKept'
    BY <1>3, <1>4, <2>1, <2>4, <2>5 DEF AnswerInv, SeenKept
  <2> QED
    BY <1>5, <1>6, <2>6, <2>7 DEF AnswerInv
<1>11. CASE Respond(h)
  <2>1. /\ UNCHANGED <<st, strays, hbots, hleft, since>>
        /\ hleft[h] = {} /\ hbots[h] = {} /\ hstop[h] \in AllStops
        /\ hstop'[h] = "none" /\ "none" \notin AllStops
        /\ \A j \in Handlers \ {h} : hstop'[j] = hstop[j] /\ hok'[j] = hok[j]
        /\ answered' \subseteq answered \cup {hstop[h]}
        /\ ~hok[h] => answered' = answered
    BY <1>1, <1>11 DEF Respond, HandlerKept, TypeOK, HandlerTypes, bookVars, AllStops, Sides
  <2>2. SeenKept'
    BY <1>3, <2>1 DEF AnswerInv, SeenKept
  <2>3. hok[h] => /\ On(hstop[h])
                  /\ \A o \in Orders : st[o] = "active" /\ o.side \in Covers(hstop[h]) =>
                       o \in since[hstop[h]] \cup strays
    BY <2>1 DEF AnswerInv, SeenKept
  <2>4. ASSUME NEW g \in answered'
        PROVE  /\ g \in AllStops /\ On(g)
               /\ \A o \in Orders : st[o] = "active" /\ o.side \in Covers(g) => o \in since[g] \cup strays
    <3>1. CASE g \in answered
      BY <1>7, <3>1 DEF AnswerInv, AnsweredOn, CleanAnswerHolds
    <3>2. CASE g \notin answered
      BY <2>1, <2>3, <3>2
    <3> QED
      BY <3>1, <3>2
  <2>5. AnsweredOn' /\ CleanAnswerHolds'
    BY <1>3, <2>1, <2>4 DEF AnsweredOn, CleanAnswerHolds
  <2> QED
    BY <1>5, <1>6, <2>2, <2>5 DEF AnswerInv
<1> QED
  BY <1>8, <1>9, <1>10, <1>11 DEF RequestStep

LEMMA AnswerStep == IInv /\ AnswerInv /\ [Next]_vars => AnswerInv'
<1> SUFFICES ASSUME IInv, AnswerInv, [Next]_vars PROVE AnswerInv'
  OBVIOUS
<1>1. CASE UNCHANGED vars
  <2>1. UNCHANGED <<ctlVars, handlerVars, since, answered, st, strays, req, why, pc>>
    BY <1>1 DEF vars, botVars, cancelVars, historyVars
  <2>2. SeenKept' /\ AnsweredOn' /\ CleanAnswerHolds'
    BY <2>1, BookKeepsAnswers DEF NothingNewRests, IInv
  <2> QED
    BY <2>1, <2>2 DEF AnswerInv, SentKept, BootAlone, Booting, DownKept, handlerVars
<1>2. CASE Next
  BY <1>2, CycleAnswers, ProcessAnswers, VenueAnswers, OperatorAnswers, RequestAnswers
  DEF Next, Steps, BootStep
<1> QED
  BY <1>1, <1>2

\* A kill, a pause or a side change that was answered without an error is true for as long as it
\* stands: whatever the loop, other requests, crashes and the venue did meanwhile, nothing rests
\* under it but what was in flight when it came, or out of its reach (handleKill, CancelManaged).
THEOREM CleanAnswersHold == Spec => []CleanAnswerHolds
<1>1. Init => AnswerInv
  <2> SUFFICES ASSUME Init PROVE AnswerInv
    OBVIOUS
  <2>1. SentKept /\ BootAlone /\ DownKept
    BY DEF Init, SentKept, BootAlone, Booting, DownKept
  <2>2. SeenKept /\ AnsweredOn /\ CleanAnswerHolds
    BY DEF Init, SeenKept, AnsweredOn, CleanAnswerHolds, AllStops, Sides
  <2> QED
    BY <2>1, <2>2 DEF AnswerInv
<1>2. AnswerInv => CleanAnswerHolds
  BY DEF AnswerInv
<1> QED
  BY <1>1, <1>2, AnswerStep, Invariant, PTL DEF Spec

-----------------------------------------------------------------------------
(* A change that finds the loop idle. One bot: the strikes of an options    *)
(* process share the dirty flag, which the first of them takes.             *)

OneBot == \A b, c \in Bots : b = c

\* From such a change until quotes built with it go to the book, the dirty flag is up.
IdleKept ==
  \A b \in Bots : /\ owed[b] \in {"idle", "idle_built"} => dirty
                  /\ owed[b] = "idle" => pc[b] # "decide"
                  /\ pc[b] = "down" => owed[b] = "no"

LEMMA CycleIdle ==
  ASSUME OneBot, TypeOK, IdleKept, NEW b \in Bots,
         CycleStep(b) \/ BootStopped(b) \/ Reconcile(b) \/ RefreshDue(b)
  PROVE  IdleKept'
<1>1. CASE Observe(b)
  <2>1. /\ dirty' = dirty /\ pc'[b] = "decide" /\ pc[b] = "observe"
        /\ owed'[b] = CASE owed[b] = "mid" -> "mid_built"
                        [] owed[b] = "idle" -> "idle_built"
                        [] OTHER -> owed[b]
    BY <1>1 DEF Observe, Go, signalVars, TypeOK, BotTypes, HistoryTypes
  <2> QED
    BY <2>1 DEF OneBot, IdleKept
<1>2. CASE StartSync(b)
  <2>1. /\ pc'[b] = "sync" /\ pc[b] = "decide"
        /\ owed'[b] = IF owed[b] \in {"mid_built", "idle_built"} THEN "no" ELSE owed[b]
    BY <1>2 DEF StartSync, Go, TypeOK, BotTypes, HistoryTypes
  <2> QED
    BY <2>1 DEF OneBot, IdleKept
<1>3. CASE ~Observe(b) /\ ~StartSync(b)
  <2>1. UNCHANGED <<dirty, owed>>
    BY <1>3
    DEF CycleStep, CheckStops, LoadFails, RiskHalts, PauseHalts, Halt, Throttled, SlotKept, SlotCancelled,
        SlotCancelFails, SlotEmpty, SideDone, Blocked, Place, PlaceReturns, PlaceFails, FinishCycle,
        ListAll, ListFails, CancelOne, CancelDone, BootStopped, Reconcile, RefreshDue, signalVars,
        historyVars
  <2>2. pc'[b] \in {"decide", "down"} => pc'[b] = pc[b]
    BY <1>3
    DEF CycleStep, CheckStops, LoadFails, RiskHalts, PauseHalts, Halt, Throttled, SlotKept, SlotCancelled,
        SlotCancelFails, SlotEmpty, SideDone, Blocked, Place, PlaceReturns, PlaceFails, FinishCycle,
        ListAll, ListFails, CancelOne, CancelDone, BootStopped, Reconcile, RefreshDue, EndCycle, Go,
        TypeOK, BotTypes
  <2> QED
    BY <2>1, <2>2 DEF OneBot, IdleKept
<1> QED
  BY <1>1, <1>2, <1>3

LEMMA IdleStep ==
  ASSUME OneBot, TypeOK, IdleKept, [Next]_vars
  PROVE  IdleKept'
<1>1. ASSUME NEW b \in Bots, CycleStep(b) \/ BootStopped(b) \/ Reconcile(b) \/ RefreshDue(b)
      PROVE  IdleKept'
  BY <1>1, CycleIdle
<1>2. CASE Crash \/ \E b \in Bots : BootFails(b) \/ ReconcileFindsNothing(b)
  BY <1>2 DEF Crash, BootFails, ReconcileFindsNothing, Down, IdleKept
<1>3. CASE Poll \/ Woken
  BY <1>3 DEF Poll, Woken, StartCycles, IdleKept
<1>4. CASE Boot
  BY <1>4 DEF Boot, historyVars, IdleKept
<1>5. CASE UNCHANGED vars \/ ToggleKillFile \/ Settle
  BY <1>5 DEF vars, ToggleKillFile, Settle, signalVars, botVars, historyVars, IdleKept
<1>6. ASSUME NEW o \in Orders, OrderStep(o)
      PROVE  IdleKept'
  BY <1>6 DEF OrderStep, Accept, Refuse, Depart, Reserve, GiveBack, NothingButOrders, signalVars, botVars,
              IdleKept
<1>7. ASSUME NEW h \in Handlers, RequestStep(h)
      PROVE  IdleKept'
  BY <1>7 DEF RequestStep, Persist, ListBook, CancelListed, Respond, BotsAlone, signalVars, botVars,
              IdleKept
<1>8. ASSUME NEW h \in Handlers, NEW g, StopAsked(h, g)
      PROVE  IdleKept'
  BY <1>8 DEF StopAsked, Signal, BotsAlone, botVars, IdleKept
<1>9. ASSUME NEW h \in Handlers, NEW r, ReleaseAsked(h, r)
      PROVE  IdleKept'
  <2>1. dirty' /\ pc' = pc /\ \A b \in Bots : pc[b] # "down" /\ owed'[b] = IF AllWait THEN "idle" ELSE "mid"
    BY <1>9 DEF ReleaseAsked, Signal, BotsAlone, botVars, Asked, Serving, OneBot
  <2> QED
    BY <2>1 DEF AllWait, IdleKept
<1> QED
  BY <1>1, <1>2, <1>3, <1>4, <1>5, <1>6, <1>7, <1>8, <1>9
  DEF Next, Steps, BootStep, OperatorStep

\* The cycle that an operator's change wakes is not held by the refresh throttle, where the process
\* quotes one market (RunCycle, Controller.TakeDirty).
THEOREM IdleChangesAreNotHeld == ASSUME OneBot PROVE Spec => IdleChangeIsNotThrottled
<1>1. Init => IdleKept
  BY DEF Init, IdleKept
<1>2. IInv => TypeOK
  BY DEF IInv
<1>3. TypeOK /\ IdleKept /\ [Next]_vars => IdleKept'
  BY IdleStep
<1>4. IdleKept => [\A b \in Bots : Throttled(b) => owed[b] # "idle_built"]_vars
  BY DEF IdleKept, Throttled, ThrottleHolds
<1> QED
  BY <1>1, <1>2, <1>3, <1>4, Invariant, PTL DEF Spec, IdleChangeIsNotThrottled

=============================================================================
