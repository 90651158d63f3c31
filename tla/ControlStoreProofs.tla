------------------------- MODULE ControlStoreProofs -------------------------
(***************************************************************************)
(* Proofs about ControlStore for any number of handlers, any nonce width   *)
(* and any bound on the nonces, and about Nonces for any strikes, any even *)
(* width and any bound: the nonces of the one-market process and those of  *)
(* the options process. The inductive invariants are ControlStore!IInv and *)
(* Nonces!StrikesIInv; each step lemma has one step per action.            *)
(***************************************************************************)
EXTENDS ControlStore, Nonces, TLAPS

LEMMA ConstantFacts ==
  /\ Writers = Handlers \cup {"loop"}
  /\ "loop" \notin Handlers /\ "none" \notin Writers
  /\ Width \in Nat /\ Width > 0
BY HandlersAssumption, WidthAssumption DEF Writers

LEMMA InitHolds == Init => IInv
BY ConstantFacts
DEF Init, IInv, TypeOK, OneWriter, StandingStops, FileCarriesStops, NoncesKept, Writing,
    FlagValues, FileStates, Steps, NoFlags, NoValue, Flags, Writers

(* Every step keeps the inductive invariant.                               *)
LEMMA StepKeeps == IInv /\ [Next]_vars => IInv'
<1> SUFFICES ASSUME IInv, [Next]_vars PROVE IInv'
  OBVIOUS
<1> USE ConstantFacts
<1>1. ASSUME NEW h \in Handlers, NEW f \in Flags, Stop(h, f) PROVE IInv'
  BY <1>1
  DEF Stop, IInv, TypeOK, OneWriter, StandingStops, FileCarriesStops, NoncesKept, Writing,
      FlagValues, FileStates, Steps, NoFlags, Flags, storeVars, nonceVars
<1>2. ASSUME NEW h \in Handlers, NEW clearKill \in BOOLEAN, Resume(h, clearKill) PROVE IInv'
  BY <1>2
  DEF Resume, Cleared, IInv, TypeOK, OneWriter, StandingStops, FileCarriesStops, NoncesKept,
      Writing, FlagValues, FileStates, Steps, NoFlags, Flags, storeVars, nonceVars
<1>3. ASSUME NEW h \in Handlers, LoadFails(h) PROVE IInv'
  BY <1>3
  DEF LoadFails, IInv, TypeOK, OneWriter, StandingStops, FileCarriesStops, NoncesKept,
      Writing, FlagValues, FileStates, Steps, NoFlags, Flags, storeVars, nonceVars
<1>4. CASE LoopSave
  BY <1>4
  DEF LoopSave, IInv, TypeOK, OneWriter, StandingStops, FileCarriesStops, NoncesKept,
      Writing, FlagValues, FileStates, Steps, NoFlags, Flags, storeVars, nonceVars
<1>5. ASSUME NEW now \in 0..MaxNonce, Allocate(now) PROVE IInv'
  BY <1>5
  DEF Allocate, IInv, TypeOK, OneWriter, StandingStops, FileCarriesStops, NoncesKept,
      Writing, FlagValues, FileStates, Steps, NoFlags, Flags, storeVars
<1>6. CASE Sign
  BY <1>6
  DEF Sign, IInv, TypeOK, OneWriter, StandingStops, FileCarriesStops, NoncesKept,
      Writing, FlagValues, FileStates, Steps, NoFlags, Flags, storeVars
<1>7. ASSUME NEW w \in Writers, Make(w) PROVE IInv'
  BY <1>7
  DEF Make, NonceOf, Overlay, IInv, TypeOK, OneWriter, StandingStops, FileCarriesStops,
      NoncesKept, Writing, FlagValues, FileStates, Steps, NoFlags, Flags, nonceVars, askVars
<1>8. ASSUME NEW w \in Writers, Truncate(w) PROVE IInv'
  BY <1>8
  DEF Truncate, IInv, TypeOK, OneWriter, StandingStops, FileCarriesStops, NoncesKept,
      Writing, FlagValues, FileStates, Steps, NoFlags, Flags, nonceVars, askVars
<1>9. ASSUME NEW w \in Writers, Written(w) PROVE IInv'
  <2> USE <1>9 DEF Written, Answer, Writing
  <2>1. TypeOK'
    <3>1. acked' \in FlagValues /\ standing' \in [Handlers -> BOOLEAN]
      <4>1. CASE w = "loop"
        BY <4>1 DEF IInv, TypeOK
      <4>2. CASE w # "loop"
        <5>1. acked' \in FlagValues
          BY <4>2, Zenon DEF FlagValues
        <5>2. standing' \in [Handlers -> BOOLEAN]
          BY <4>2 DEF IInv, TypeOK
        <5>3. QED
          BY <5>1, <5>2
      <4>3. QED
        BY <4>1, <4>2
    <3>2. file' \in [state : FileStates, flags : FlagValues, nonce : Nat]
      BY DEF IInv, TypeOK, FileStates
    <3>3. wpc' \in [Writers -> Steps]
      BY DEF IInv, TypeOK, Steps
    <3>4. buf' \in [flags : FlagValues, nonce : Nat]
      BY DEF FlagValues, NoFlags, NoValue
    <3>5. QED
      BY <3>1, <3>2, <3>3, <3>4 DEF IInv, TypeOK, nonceVars
  <2>2. OneWriter' /\ holder = w /\ holder' = "none"
    BY DEF IInv, TypeOK, OneWriter, Steps
  <2>3. StandingStops'
    <3> SUFFICES ASSUME NEW h \in Handlers, NEW f \in Flags, standing'[h], want'[h] = f
                 PROVE  mem'[f] /\ wpc'[h] = "saving"
      BY DEF StandingStops
    <3>1. h # w /\ standing[h]
      BY DEF IInv, TypeOK
    <3>2. wpc'[h] = wpc[h] /\ ~Writing(h)
      BY <2>2, <3>1 DEF IInv, TypeOK, OneWriter
    <3>3. QED
      BY <3>1, <3>2 DEF IInv, StandingStops
  <2>4. ASSUME NEW f \in Flags, acked'[f] PROVE mem'[f] /\ buf.flags[f]
    <3>1. acked[f] \/ (w \in Handlers /\ want[w] = f /\ standing[w])
      BY <2>4 DEF IInv, TypeOK, FlagValues, Flags
    <3>2. CASE acked[f]
      BY <2>2, <3>2 DEF IInv, TypeOK
    <3>3. CASE w \in Handlers /\ want[w] = f /\ standing[w]
      BY <3>3 DEF IInv, StandingStops
    <3>4. QED
      BY <3>1, <3>2, <3>3
  <2>5. FileCarriesStops'
    BY <2>4 DEF FileCarriesStops
  <2>6. NoncesKept'
    <3>1. CASE w = "loop"
      BY <2>2, <3>1 DEF IInv, TypeOK, NoncesKept, Steps, nonceVars
    <3>2. CASE w \in Handlers
      <4>1. wpc'["loop"] = wpc["loop"]
        BY <3>2 DEF IInv, TypeOK
      <4>2. QED
        BY <2>2, <3>2, <4>1 DEF IInv, TypeOK, NoncesKept, nonceVars
    <3>3. QED
      BY <3>1, <3>2
  <2>7. QED
    BY <2>1, <2>2, <2>3, <2>4, <2>5, <2>6 DEF IInv, TypeOK, Steps, nonceVars
<1>10. ASSUME NEW w \in Writers, WriteFails(w) PROVE IInv'
  <2> USE <1>10 DEF WriteFails, Writing
  <2>1. TypeOK'
    BY DEF IInv, TypeOK, FlagValues, Steps, NoFlags, NoValue, nonceVars
  <2>2. OneWriter' /\ holder = w /\ holder' = "none"
    BY DEF IInv, TypeOK, OneWriter, Steps
  <2>3. StandingStops' /\ FileCarriesStops'
    BY <2>2 DEF IInv, TypeOK, OneWriter, StandingStops, FileCarriesStops
  <2>4. NoncesKept'
    BY <2>2 DEF IInv, TypeOK, NoncesKept, nonceVars
  <2>5. QED
    BY <2>1, <2>2, <2>3, <2>4 DEF IInv, TypeOK, nonceVars
<1>11. CASE Crash
  <2> USE <1>11 DEF Crash, Writing
  <2>1. TypeOK'
    BY DEF IInv, TypeOK, FlagValues, FileStates, Steps, NoFlags, NoValue, Flags, nonceVars
  <2>2. OneWriter' /\ StandingStops' /\ FileCarriesStops'
    BY DEF IInv, OneWriter, StandingStops, FileCarriesStops
  <2>3. NoncesKept'
    BY DEF IInv, TypeOK, NoncesKept, nonceVars
  <2>4. QED
    BY <2>1, <2>2, <2>3 DEF IInv, TypeOK, nonceVars
<1>12. CASE Boot
  BY <1>12
  DEF Boot, IInv, TypeOK, OneWriter, StandingStops, FileCarriesStops, NoncesKept,
      Writing, FlagValues, FileStates, Steps, NoFlags, Flags, storeVars, askVars
<1>13. CASE ReplaceTask
  BY <1>13
  DEF ReplaceTask, IInv, TypeOK, OneWriter, StandingStops, FileCarriesStops, NoncesKept,
      Writing, FlagValues, FileStates, Steps, NoFlags, Flags
<1>14. CASE UNCHANGED vars
  BY <1>14
  DEF vars, IInv, TypeOK, OneWriter, StandingStops, FileCarriesStops, NoncesKept, Writing,
      FlagValues, FileStates, Steps, Flags, storeVars, nonceVars, askVars
<1>15. QED
  BY <1>1, <1>2, <1>3, <1>4, <1>5, <1>6, <1>7, <1>8, <1>9, <1>10, <1>11, <1>12, <1>13, <1>14
  DEF Next, HandlerStep, LoopStep, WriterStep

(* TypeOK, and the invariant that makes it and the rest inductive, hold in  *)
(* every reachable state.                                                   *)
THEOREM Invariant == Spec => []IInv
<1>1. QED
  BY InitHolds, StepKeeps, PTL DEF Spec

(* Type correctness of controller, store and file.                          *)
THEOREM TypeCorrect == Spec => []TypeOK
<1>1. IInv => TypeOK
  BY DEF IInv
<1>2. QED
  BY Invariant, <1>1, PTL

(* No nonce is signed twice, whatever crashes, restarts, failed writes and  *)
(* backward clock steps happen (bot.go allocateIdentities, state.Store).    *)
THEOREM NonceReuseImpossible == Spec => []NoncesAreFresh
<1>1. IInv => NoncesAreFresh
  BY DEF IInv, NoncesAreFresh
<1>2. QED
  BY Invariant, <1>1, PTL

(* An acknowledged kill or pause is in whatever file a restart can read.    *)
THEOREM StopsAreSaved == Spec => []FileCarriesStops
<1>1. IInv => FileCarriesStops
  BY DEF IInv
<1>2. QED
  BY Invariant, <1>1, PTL

-----------------------------------------------------------------------------
(* Refinement: for each stop, the steps of ControlStore are steps of a      *)
(* DurableStop or leave it alone.                                           *)

\* What a step may do to one stop: DurableStop!RegNext or a stutter, with the mapping expanded.
StopStep(f) ==
  \/ Acting(f) = "free" /\ Acting(f)' = "stopped" /\ acked'[f] = acked[f]
  \/ Acting(f) = "stopped" /\ Acting(f)' = "stopped" /\ acked'[f] = TRUE
  \/ Acting(f) = "stopped" /\ Acting(f)' = "free" /\ acked'[f] = FALSE
  \/ Acting(f)' = "down" /\ acked'[f] = acked[f]
  \/ Acting(f) = "down" /\ Acting(f)' = "down" /\ acked'[f] = FALSE
  \/ /\ Acting(f) = "down"
     /\ Acting(f)' \in (IF acked[f] THEN {"stopped"} ELSE {"free", "stopped"})
     /\ acked'[f] = acked[f]
  \/ Acting(f)' = Acting(f) /\ acked'[f] = acked[f]

LEMMA EveryStepIsAStopStep ==
  ASSUME NEW f \in Flags, IInv, [Next]_vars
  PROVE  StopStep(f)
<1> USE DEF Acting
<1>0. /\ up \in BOOLEAN /\ mem[f] \in BOOLEAN /\ acked[f] \in BOOLEAN
      /\ (up /\ acked[f] => mem[f])
  BY DEF IInv, TypeOK, FlagValues
<1>1. ASSUME NEW h \in Handlers, NEW g \in Flags, Stop(h, g) PROVE StopStep(f)
  <2>1. up' = up /\ acked' = acked /\ (mem'[f] = mem[f] \/ mem'[f] = TRUE)
    BY <1>1 DEF Stop, IInv, TypeOK, FlagValues, storeVars, nonceVars
  <2>2. QED
    BY <1>0, <1>1, <2>1 DEF StopStep, Stop
<1>2. ASSUME NEW h \in Handlers, NEW clearKill \in BOOLEAN, Resume(h, clearKill)
      PROVE  StopStep(f)
  <2>1. up' = up /\ mem'[f] = (mem[f] /\ f \notin Cleared(clearKill))
    BY <1>2 DEF Resume
  <2>2. acked'[f] = (acked[f] /\ f \notin Cleared(clearKill))
    BY <1>2 DEF Resume
  <2>3. QED
    BY <1>0, <1>2, <2>1, <2>2 DEF StopStep, Resume
<1>3. ASSUME up' = up, mem' = mem, acked' = acked PROVE StopStep(f)
  BY <1>0, <1>3 DEF StopStep
<1>4. ASSUME NEW w \in Writers, Written(w) PROVE StopStep(f)
  <2>1. up' = up /\ mem' = mem
    BY <1>4 DEF Written
  <2>2. acked'[f] = acked[f] \/ (acked'[f] = TRUE /\ mem[f])
    <3>1. CASE w = "loop"
      BY <1>4, <3>1 DEF Written, Answer
    <3>2. CASE w # "loop"
      <4>1. w \in Handlers
        BY <3>2 DEF Writers
      <4>2. acked'[f] = (acked[f] \/ (want[w] = f /\ standing[w]))
        BY <1>4, <3>2 DEF Written, Answer
      <4>3. standing[w] \in BOOLEAN /\ (want[w] = f /\ standing[w] => mem[f])
        BY <4>1 DEF IInv, TypeOK, StandingStops
      <4>4. QED
        BY <1>0, <4>2, <4>3
    <3>3. QED
      BY <3>1, <3>2
  <2>3. QED
    BY <1>0, <1>4, <2>1, <2>2 DEF StopStep, Written
<1>5. CASE Crash
  BY <1>0, <1>5 DEF StopStep, Crash
<1>6. CASE Boot
  <2>1. acked[f] => mem'[f]
    BY <1>6 DEF Boot, IInv, FileCarriesStops, TypeOK, FileStates
  <2>2. mem'[f] \in BOOLEAN
    BY <1>6 DEF Boot, IInv, TypeOK, FlagValues, NoFlags
  <2>3. QED
    BY <1>0, <1>6, <2>1, <2>2 DEF StopStep, Boot, askVars
<1>7. CASE ReplaceTask
  BY <1>0, <1>7 DEF StopStep, ReplaceTask, NoFlags
<1>8. QED
  <2>1. ASSUME NEW h \in Handlers, LoadFails(h) PROVE StopStep(f)
    BY <1>3, <2>1 DEF LoadFails
  <2>2. CASE LoopStep
    BY <1>3, <2>2 DEF LoopStep, LoopSave, Allocate, Sign
  <2>3. ASSUME NEW w \in Writers, Make(w) \/ Truncate(w) \/ WriteFails(w) PROVE StopStep(f)
    BY <1>3, <2>3 DEF Make, Truncate, WriteFails, askVars
  <2>4. CASE UNCHANGED vars
    BY <1>3, <2>4 DEF vars
  <2>5. QED
    BY <1>1, <1>2, <1>4, <1>5, <1>6, <1>7, <2>1, <2>2, <2>3, <2>4
    DEF Next, HandlerStep, WriterStep

(* A kill is a durable stop: no process comes up free of a kill that was    *)
(* acknowledged and not released (state.ControlState, NewController).       *)
THEOREM KillRefines == Spec => KillIsDurable
<1>1. Init => Kill!RegInit
  BY DEF Init, Kill!RegInit, Acting, NoFlags, Flags
<1>2. IInv /\ [Next]_vars => [Kill!RegNext]_(Kill!regVars)
  <2> SUFFICES ASSUME IInv, [Next]_vars PROVE [Kill!RegNext]_(Kill!regVars)
    OBVIOUS
  <2>1. StopStep("kill")
    BY EveryStepIsAStopStep DEF Flags
  <2>2. QED
    BY <2>1
    DEF Acting, StopStep, Kill!RegNext, Kill!Ask, Kill!Promise, Kill!Release, Kill!Die, Kill!LoseTask,
        Kill!Rise, Kill!regVars
<1>3. QED
  BY <1>1, <1>2, Invariant, PTL DEF Spec, KillIsDurable, Kill!RegSpec

(* The same of a pause.                                                     *)
THEOREM PauseRefines == Spec => PauseIsDurable
<1>1. Init => Pause!RegInit
  BY DEF Init, Pause!RegInit, Acting, NoFlags, Flags
<1>2. IInv /\ [Next]_vars => [Pause!RegNext]_(Pause!regVars)
  <2> SUFFICES ASSUME IInv, [Next]_vars PROVE [Pause!RegNext]_(Pause!regVars)
    OBVIOUS
  <2>1. StopStep("pause")
    BY EveryStepIsAStopStep DEF Flags
  <2>2. QED
    BY <2>1
    DEF Acting, StopStep, Pause!RegNext, Pause!Ask, Pause!Promise, Pause!Release, Pause!Die,
        Pause!LoseTask, Pause!Rise, Pause!regVars
<1>3. QED
  BY <1>1, <1>2, Invariant, PTL DEF Spec, PauseIsDurable, Pause!RegSpec

-----------------------------------------------------------------------------
(* The strikes of an options process.                                      *)

LEMMA RangeWidthFacts == RangeWidth \in Nat /\ RangeWidth > 0
BY RangeWidthAssumption

\* Nonces!Larger: at or above both of its arguments.
LEMMA LargerBounds ==
  ASSUME NEW a \in Nat, NEW b \in Nat
  PROVE  Larger(a, b) \in Nat /\ a <= Larger(a, b) /\ b <= Larger(a, b)
BY DEF Larger

\* Nonces!RoundedUp: never below its argument.
LEMMA RoundedUpBounds ==
  ASSUME NEW n \in Nat
  PROVE  RoundedUp(n) \in Nat /\ n <= RoundedUp(n)
BY DEF RoundedUp

\* NonceAllocator.Base: at or above the strike's own base, the clock and the allocator's next.
LEMMA BaseBounds ==
  ASSUME StrikesTypeOK, NEW s \in Strikes
  PROVE  Base(s) \in Nat /\ floor[s] <= Base(s) /\ clock <= Base(s) /\ next <= Base(s)
<1>1. floor[s] \in Nat /\ clock \in Nat /\ next \in Nat
  BY DEF StrikesTypeOK
<1> DEFINE m == Larger(floor[s], clock)
<1> DEFINE n == Larger(m, next)
<1>2. m \in Nat /\ floor[s] <= m /\ clock <= m
  BY <1>1, LargerBounds
<1>3. n \in Nat /\ m <= n /\ next <= n
  BY <1>1, <1>2, LargerBounds
<1>4. Base(s) = RoundedUp(n)
  BY DEF Base
<1> HIDE DEF m, n
<1>5. RoundedUp(n) \in Nat /\ n <= RoundedUp(n)
  BY <1>3, RoundedUpBounds
<1> QED
  BY <1>1, <1>2, <1>3, <1>4, <1>5

LEMMA StrikesInitHolds == StrikesInit => StrikesIInv
<1> SUFFICES ASSUME StrikesInit PROVE StrikesIInv
  OBVIOUS
<1>1. StrikesTypeOK
  BY DEF StrikesInit, StrikesTypeOK
<1>2. next = 0 /\ \A s \in Strikes : pc[s] = "idle"
  BY DEF StrikesInit
<1> QED
  BY <1>1, <1>2 DEF StrikesIInv, AllocatorAhead

\* What the allocation of s adds: its range starts at or above everything that was signed or
\* handed out, unless the clock is behind.
LEMMA AllocateClear ==
  ASSUME StrikesIInv, NEW s \in Strikes, AllocateRange(s), ~behind'
  PROVE  /\ \A n \in signed : n < Base(s)
         /\ \A t \in Strikes : pc[t] # "idle" => got[t] + RangeWidth <= Base(s)
<1>1. ~behind
  BY DEF AllocateRange, StrikesIInv, StrikesTypeOK
<1>2. Base(s) \in Nat /\ clock <= Base(s) /\ next <= Base(s)
  BY BaseBounds DEF StrikesIInv
<1>3. CASE next = 0
  <2>1. \A n \in signed : n < clock
    <3>1. ~ \E n \in signed : clock <= n
      BY <1>3, Zenon DEF AllocateRange
    <3> QED
      BY <3>1 DEF StrikesIInv, StrikesTypeOK
  <2>2. \A n \in signed : n < Base(s)
    BY <1>2, <2>1 DEF StrikesIInv, StrikesTypeOK
  <2>3. \A t \in Strikes : pc[t] = "idle"
    BY <1>3 DEF StrikesIInv
  <2> QED
    BY <2>2, <2>3
<1>4. CASE next # 0
  <2>1. AllocatorAhead
    BY <1>1 DEF StrikesIInv
  <2> QED
    BY <1>2, <1>4, <2>1, RangeWidthFacts DEF AllocatorAhead, StrikesIInv, StrikesTypeOK
<1> QED
  BY <1>3, <1>4

LEMMA StrikesStepKeeps == StrikesIInv /\ [StrikesNext]_strikeVars => StrikesIInv'
<1> SUFFICES ASSUME StrikesIInv, [StrikesNext]_strikeVars PROVE StrikesIInv'
  OBVIOUS
<1> USE RangeWidthFacts
<1>1. ASSUME NEW s \in Strikes, AllocateRange(s) PROVE StrikesIInv'
  <2>1. Base(s) \in Nat /\ next <= Base(s)
    BY BaseBounds DEF StrikesIInv
  <2>2. StrikesTypeOK'
    BY <1>1, <2>1 DEF AllocateRange, Past, StrikesIInv, StrikesTypeOK
  <2>3. running' /\ next' # 0 /\ next' = Base(s) + RangeWidth /\ signed' = signed
    BY <1>1, <2>1 DEF AllocateRange, Past
  <2>4. pc'[s] # "idle" /\ got'[s] = Base(s)
    BY <1>1 DEF AllocateRange, StrikesIInv, StrikesTypeOK
  <2>5. \A t \in Strikes \ {s} : pc'[t] = pc[t] /\ got'[t] = got[t]
    BY <1>1 DEF AllocateRange, StrikesIInv, StrikesTypeOK
  <2>6. ASSUME ~behind' PROVE AllocatorAhead' /\ \A t \in Strikes : pc'[t] # "idle" => Clear(t)'
    <3>1. /\ \A n \in signed : n < Base(s)
          /\ \A t \in Strikes : pc[t] # "idle" => got[t] + RangeWidth <= Base(s)
      BY <1>1, <2>6, AllocateClear
    <3>2. AllocatorAhead'
      BY <2>1, <2>3, <2>4, <2>5, <3>1 DEF AllocatorAhead, StrikesIInv, StrikesTypeOK
    <3>3. ~behind /\ \A t \in Strikes : pc[t] # "idle" => Clear(t)
      BY <1>1, <2>6 DEF AllocateRange, StrikesIInv, StrikesTypeOK
    <3>4. Clear(s)'
      BY <2>1, <2>3, <2>4, <2>5, <3>1 DEF Clear, Nonce, StrikesIInv, StrikesTypeOK
    <3>5. ASSUME NEW t \in Strikes \ {s}, pc'[t] # "idle" PROVE Clear(t)'
      <4>1. pc[t] # "idle" /\ Clear(t)
        BY <2>5, <3>3, <3>5
      <4>2. \A n \in Nonce(got[t]) : n < Base(s)
        BY <2>1, <3>1, <4>1 DEF Nonce, StrikesIInv, StrikesTypeOK
      <4>3. Nonce(got[t]) \cap Nonce(Base(s)) = {}
        BY <2>1, <4>2 DEF Nonce
      <4> QED
        BY <2>3, <2>4, <2>5, <4>1, <4>3 DEF Clear, Nonce
    <3> QED
      BY <3>2, <3>4, <3>5
  <2> QED
    BY <2>2, <2>3, <2>6 DEF StrikesIInv
<1>2. ASSUME NEW s \in Strikes, Save(s) PROVE StrikesIInv'
  BY <1>2 DEF Save, StrikesIInv, StrikesTypeOK, AllocatorAhead, Clear, Nonce
<1>3. ASSUME NEW s \in Strikes, SaveFails(s) PROVE StrikesIInv'
  BY <1>3 DEF SaveFails, StrikesIInv, StrikesTypeOK, AllocatorAhead, Clear, Nonce
<1>4. ASSUME NEW s \in Strikes, SignRange(s) PROVE StrikesIInv'
  <2>1. StrikesTypeOK'
    <3>1. got[s] \in Nat
      BY DEF StrikesIInv, StrikesTypeOK
    <3>2. Nonce(got[s]) \subseteq Nat
      BY <3>1 DEF Nonce
    <3>3. signed' \in SUBSET Nat
      BY <1>4, <3>2 DEF SignRange, StrikesIInv, StrikesTypeOK
    <3> QED
      BY <1>4, <3>3 DEF SignRange, StrikesIInv, StrikesTypeOK
  <2>2. next # 0 /\ next' = next /\ running' /\ pc'[s] = "idle" /\ got' = got
    BY <1>4 DEF SignRange, StrikesIInv, StrikesTypeOK
  <2>3. \A t \in Strikes \ {s} : pc'[t] = pc[t]
    BY <1>4 DEF SignRange, StrikesIInv, StrikesTypeOK
  <2>4. ASSUME ~behind' PROVE AllocatorAhead' /\ \A t \in Strikes : pc'[t] # "idle" => Clear(t)'
    <3>1. ~behind /\ AllocatorAhead /\ \A t \in Strikes : pc[t] # "idle" => Clear(t)
      BY <1>4, <2>4 DEF SignRange, StrikesIInv
    <3>2. AllocatorAhead'
      BY <1>4, <2>2, <2>3, <3>1 DEF SignRange, AllocatorAhead, Nonce, StrikesIInv, StrikesTypeOK
    <3>3. ASSUME NEW t \in Strikes, pc'[t] # "idle" PROVE Clear(t)'
      <4>1. t # s /\ pc[t] # "idle" /\ pc[s] # "idle" /\ Clear(t)
        BY <1>4, <2>2, <2>3, <3>1, <3>3 DEF SignRange
      <4>2. Nonce(got[t]) \cap Nonce(got[s]) = {}
        BY <4>1 DEF Clear
      <4>3. Nonce(got[t]) \cap signed' = {}
        BY <1>4, <4>1, <4>2 DEF SignRange, Clear
      <4>4. \A u \in Strikes \ {t} : pc'[u] # "idle" => pc[u] # "idle"
        BY <2>2, <2>3
      <4> QED
        BY <2>2, <4>1, <4>3, <4>4 DEF Clear, Nonce
    <3> QED
      BY <3>2, <3>3
  <2> QED
    BY <2>1, <2>2, <2>4 DEF StrikesIInv
<1>5. CASE Tick
  <2>1. StrikesTypeOK'
    BY <1>5 DEF Tick, StrikesIInv, StrikesTypeOK
  <2> QED
    BY <1>5, <2>1 DEF Tick, StrikesIInv, AllocatorAhead, Clear, Nonce
<1>6. CASE StepBack
  <2>1. clock' \in Nat
    <3>1. PICK to \in 0 .. LastNonce : clock' = to
      BY <1>6, Zenon DEF StepBack
    <3> QED
      BY <3>1, LastNonceAssumption
  <2>2. UNCHANGED <<running, next, floor, saved, pc, got, signed, behind>>
    BY <1>6, Zenon DEF StepBack
  <2> QED
    BY <2>1, <2>2 DEF StrikesIInv, StrikesTypeOK, AllocatorAhead, Clear, Nonce
<1>7. CASE StrikesCrash
  BY <1>7 DEF StrikesCrash, StrikesIInv, StrikesTypeOK, AllocatorAhead, Clear, Nonce
<1>8. CASE StrikesBoot
  BY <1>8 DEF StrikesBoot, StrikesIInv, StrikesTypeOK, AllocatorAhead, Clear, Nonce
<1>9. CASE StrikesReplaced
  BY <1>9 DEF StrikesReplaced, StrikesIInv, StrikesTypeOK, AllocatorAhead, Clear, Nonce
<1>10. CASE UNCHANGED strikeVars
  BY <1>10 DEF strikeVars, StrikesIInv, StrikesTypeOK, AllocatorAhead, Clear, Nonce
<1> QED
  BY <1>1, <1>2, <1>3, <1>4, <1>5, <1>6, <1>7, <1>8, <1>9, <1>10 DEF StrikesNext

\* Every variable keeps its type, for any strikes, width and bound.
THEOREM StrikesTypeCorrect == StrikesSpec => []StrikesTypeOK
<1>1. StrikesIInv => StrikesTypeOK
  BY DEF StrikesIInv
<1> QED
  BY StrikesInitHolds, StrikesStepKeeps, <1>1, PTL DEF StrikesSpec

\* No two orders of the owner are signed with one nonce: for any number of strikes whose
\* cycles interleave in any way, with failed saves, crashes and clock steps, unless a process
\* came up with the clock behind what an earlier one signed (NonceAllocator.Base).
THEOREM NoncesAreUsedOnce == StrikesSpec => []NoNonceTwice
<1>1. StrikesIInv => NoNonceTwice
  BY DEF StrikesIInv, NoNonceTwice
<1> QED
  BY StrikesInitHolds, StrikesStepKeeps, <1>1, PTL DEF StrikesSpec
=============================================================================
