------------------------------- MODULE Nonces -------------------------------
(***************************************************************************)
(* The order nonces of the options process: one bot per strike, all        *)
(* signing for one owner, their cycles side by side. The venue's           *)
(* TradeModule knows an order by its owner and nonce, so no two orders may *)
(* ever carry the same one.                                                *)
(*                                                                         *)
(* A strike keeps a base of its own, in memory and in its own state file   *)
(* (saved before anything is signed). execution.NonceAllocator, shared and *)
(* in memory only, keeps the strikes apart. ControlStore has the same for  *)
(* the one-market process, with the file and its lock in full; the names   *)
(* here are not those of ControlStore, so that one module can reason about *)
(* both.                                                                   *)
(***************************************************************************)
EXTENDS Naturals

CONSTANTS
  Strikes,
  RangeWidth, \* nonces a cycle takes: twice the number of levels
  LastNonce,  \* bound: the clock and all nonces stay at or below it
  Faults      \* what may go wrong: "crash", "save", "step back", "replace"

ASSUME RangeWidthAssumption == RangeWidth \in Nat \ {0} /\ RangeWidth % 2 = 0
ASSUME LastNonceAssumption == LastNonce \in Nat

VARIABLES
  running,  \* the process runs
  clock,    \* twice UnixMicro
  next,     \* NonceAllocator.next: past every range this process handed out
  floor,    \* persisted.NextNonceBase of each bot, in memory
  saved,    \* the same in the strike's state file; 0 when there is none
  pc,       \* where each strike's cycle is
  got,      \* the base its last allocation returned
  signed,   \* history: every nonce signed, by any process
  behind    \* history: the first allocation of some process found the clock at or below
            \* a nonce that an earlier process had signed

strikeVars == <<running, clock, next, floor, saved, pc, got, signed, behind>>

Nonce(base) == base .. base + RangeWidth - 1

StrikesTypeOK ==
  /\ running \in BOOLEAN
  /\ clock \in Nat
  /\ next \in Nat
  /\ floor \in [Strikes -> Nat]
  /\ saved \in [Strikes -> Nat]
  /\ pc \in [Strikes -> {"idle", "save", "sign"}]
  /\ got \in [Strikes -> Nat]
  /\ signed \in SUBSET Nat
  /\ behind \in BOOLEAN

StrikesInit ==
  /\ running = TRUE
  /\ clock = 0
  /\ next = 0
  /\ floor = [s \in Strikes |-> 0]
  /\ saved = [s \in Strikes |-> 0]
  /\ pc = [s \in Strikes |-> "idle"]
  /\ got = [s \in Strikes |-> 0]
  /\ signed = {}
  /\ behind = FALSE

-----------------------------------------------------------------------------
Larger(a, b) == IF a >= b THEN a ELSE b
RoundedUp(n) == IF n % 2 = 0 THEN n ELSE n + 1

\* Faulty variants: a base from the strike's own past and the clock alone; one that takes the
\* base for the end of the range.
OwnBase(s) == RoundedUp(Larger(floor[s], clock))
RangeBefore(s) == RoundedUp(Larger(Larger(floor[s], clock), next)) - RangeWidth

\* NonceAllocator.Base: at or above the strike's own base, the clock and every range before.
Base(s) == RoundedUp(Larger(Larger(floor[s], clock), next))

\* What the allocator keeps for the next caller.
Past(base) == base + RangeWidth

\* allocateIdentities, under the allocator's lock.
AllocateRange(s) ==
  /\ running /\ pc[s] = "idle"
  /\ LET base == Base(s)
     IN  /\ base + RangeWidth <= LastNonce
         /\ next' = Past(base)
         /\ floor' = [floor EXCEPT ![s] = base + RangeWidth]
         /\ got' = [got EXCEPT ![s] = base]
  /\ pc' = [pc EXCEPT ![s] = "save"]
  /\ behind' = (behind \/ (next = 0 /\ \E n \in signed : clock <= n))
  /\ UNCHANGED <<running, clock, saved, signed>>

\* savePersistent before anything is signed; when it fails the cycle ends and signs nothing.
Save(s) ==
  /\ running /\ pc[s] = "save"
  /\ saved' = [saved EXCEPT ![s] = floor[s]]
  /\ pc' = [pc EXCEPT ![s] = "sign"]
  /\ UNCHANGED <<running, clock, next, floor, got, signed, behind>>

SaveFails(s) ==
  /\ running /\ pc[s] = "save" /\ "save" \in Faults
  /\ pc' = [pc EXCEPT ![s] = "idle"]
  /\ UNCHANGED <<running, clock, next, floor, saved, got, signed, behind>>

\* The ladder is signed and sent: buys with the even nonces, sells with the odd ones.
SignRange(s) ==
  /\ running /\ pc[s] = "sign"
  /\ signed' = signed \cup Nonce(got[s])
  /\ pc' = [pc EXCEPT ![s] = "idle"]
  /\ UNCHANGED <<running, clock, next, floor, saved, got, behind>>

\* The clock runs, and NTP may set it back.
Tick ==
  /\ clock + 2 <= LastNonce
  /\ clock' = clock + 2
  /\ UNCHANGED <<running, next, floor, saved, pc, got, signed, behind>>

StepBack ==
  /\ "step back" \in Faults
  /\ \E to \in 0 .. LastNonce : to < clock /\ to % 2 = 0 /\ clock' = to
  /\ UNCHANGED <<running, next, floor, saved, pc, got, signed, behind>>

StrikesCrash ==
  /\ running /\ "crash" \in Faults
  /\ running' = FALSE
  /\ pc' = [s \in Strikes |-> "idle"]
  /\ UNCHANGED <<clock, next, floor, saved, got, signed, behind>>

\* NewNonceAllocator starts from nothing; each bot loads its own file.
StrikesBoot ==
  /\ ~running
  /\ running' = TRUE
  /\ next' = 0
  /\ floor' = saved
  /\ UNCHANGED <<clock, saved, pc, got, signed, behind>>

\* A new Fargate task has none of the old one's files.
StrikesReplaced ==
  /\ ~running /\ "replace" \in Faults
  /\ saved' = [s \in Strikes |-> 0]
  /\ UNCHANGED <<running, clock, next, floor, pc, got, signed, behind>>

StrikesNext ==
  \/ \E s \in Strikes : AllocateRange(s) \/ Save(s) \/ SaveFails(s) \/ SignRange(s)
  \/ Tick \/ StepBack \/ StrikesCrash \/ StrikesBoot \/ StrikesReplaced

StrikesSpec == StrikesInit /\ [][StrikesNext]_strikeVars

-----------------------------------------------------------------------------
(* Properties.                                                              *)

\* A range on its way to being signed is clear of every nonce signed before, and of every
\* other range under way.
Clear(s) ==
  /\ Nonce(got[s]) \cap signed = {}
  /\ \A t \in Strikes \ {s} : pc[t] # "idle" => Nonce(got[s]) \cap Nonce(got[t]) = {}

\* No nonce is signed twice, by one strike or by two, whatever the clock does while the
\* process runs and whichever saves fail: nonces.go, "so the ranges never overlap". Between
\* processes this rests on the clock alone, for the allocator forgets and each file knows one
\* strike: the excuse is a process that comes up with the clock set back.
NoNonceTwice == behind \/ \A s \in Strikes : pc[s] # "idle" => Clear(s)

\* The inductive strengthening: what this process hands out lies above what was signed.
AllocatorAhead ==
  next # 0 => /\ \A n \in signed : n < next
              /\ \A s \in Strikes : pc[s] # "idle" => got[s] + RangeWidth <= next
StrikesIInv ==
  /\ StrikesTypeOK
  /\ ~running \/ next = 0 => \A s \in Strikes : pc[s] = "idle"
  /\ behind \/ (AllocatorAhead /\ \A s \in Strikes : pc[s] # "idle" => Clear(s))
=============================================================================
