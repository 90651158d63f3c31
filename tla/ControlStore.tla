---------------------------- MODULE ControlStore ----------------------------
(***************************************************************************)
(* The operator's kill and pause, and the nonce base, in MM_STATE_FILE:    *)
(* control.Controller (the flags in memory), state.Store (one lock, one    *)
(* file, the overlay that puts the flags into every write) and the two     *)
(* kinds of writer that share them, the HTTP handlers and the quoting loop.*)
(*                                                                         *)
(* os.WriteFile truncates and then writes, so a write is three steps here: *)
(* the value is made up under the lock, the file is truncated, the value   *)
(* is in the file. The process may die between any two of them, and the    *)
(* last two may fail.                                                      *)
(***************************************************************************)
EXTENDS Naturals

CONSTANTS
  Handlers,      \* HTTP requests that may be in progress at the same time
  LoopSaves,     \* TRUE for the one-market process, whose loop writes this file; FALSE for
                 \* the options process, whose strikes each have a file of their own
  Width,         \* nonces one cycle allocates: twice the number of levels
  MaxNonce       \* bound: the nonce base and the clock stay at or below it

ASSUME HandlersAssumption == "loop" \notin Handlers /\ "none" \notin Handlers
ASSUME LoopSavesAssumption == LoopSaves \in BOOLEAN
ASSUME WidthAssumption == Width \in Nat \ {0}
ASSUME MaxNonceAssumption == MaxNonce \in Nat

Flags == {"kill", "pause"}
Writers == Handlers \cup {"loop"}
NoFlags == [f \in Flags |-> FALSE]

VARIABLES
  up,         \* the process runs
  mem,        \* Controller.killed and Controller.paused
  file,       \* MM_STATE_FILE: its state, and what it says when it is good
  holder,     \* who holds Store.mu
  buf,        \* the value the holder is writing
  wpc,        \* where each writer is
  want,       \* the flag a handler sets, or "resume"
  base,       \* the loop's persisted.NextNonceBase
  top,        \* history: every nonce signed so far is below it
  standing,   \* history: the stop a handler set has not been released since
  acked       \* history: stops whose request was answered without a persist error

vars == <<up, mem, file, holder, buf, wpc, want, base, top, standing, acked>>
storeVars == <<file, holder, buf>>
nonceVars == <<base, top>>
askVars == <<want, standing, acked>>

FlagValues == [Flags -> BOOLEAN]
NoValue == [flags |-> NoFlags, nonce |-> 0]
FileStates == {"absent", "torn", "good"}
Steps == {"idle", "saving", "made", "torn", "sign"}

TypeOK ==
  /\ up \in BOOLEAN
  /\ mem \in FlagValues
  /\ file \in [state: FileStates, flags: FlagValues, nonce: Nat]
  /\ holder \in Writers \cup {"none"}
  /\ buf \in [flags: FlagValues, nonce: Nat]
  /\ wpc \in [Writers -> Steps]
  /\ want \in [Writers -> Flags \cup {"resume", "save", "sign"}]
  /\ base \in Nat
  /\ top \in Nat
  /\ standing \in [Handlers -> BOOLEAN]
  /\ acked \in FlagValues

Init ==
  /\ up = TRUE
  /\ mem = NoFlags
  /\ file = [state |-> "absent", flags |-> NoFlags, nonce |-> 0]
  /\ holder = "none"
  /\ buf = NoValue
  /\ wpc = [w \in Writers |-> "idle"]
  /\ want = [w \in Writers |-> "save"]
  /\ base = 0
  /\ top = 0
  /\ standing = [h \in Handlers |-> FALSE]
  /\ acked = NoFlags

-----------------------------------------------------------------------------
(* Controller.Kill, Pause and Resume: the flag changes under c.mu, and only *)
(* then is the store called.                                                *)

Stop(h, f) ==
  /\ up /\ wpc[h] = "idle"
  /\ mem' = [mem EXCEPT ![f] = TRUE]
  /\ wpc' = [wpc EXCEPT ![h] = "saving"]
  /\ want' = [want EXCEPT ![h] = f]
  /\ standing' = [standing EXCEPT ![h] = TRUE]
  /\ UNCHANGED <<up, storeVars, nonceVars, acked>>

\* What a resume clears: the pause always, the kill only when clear_kill is set.
Cleared(clearKill) == IF clearKill THEN Flags ELSE {"pause"}

\* ErrKilled: a killed controller refuses a resume without clear_kill.
Resume(h, clearKill) ==
  /\ up /\ wpc[h] = "idle"
  /\ mem["kill"] => clearKill
  /\ mem' = [f \in Flags |-> mem[f] /\ f \notin Cleared(clearKill)]
  /\ wpc' = [wpc EXCEPT ![h] = "saving"]
  /\ want' = [want EXCEPT ![h] = "resume"]
  /\ standing' = [g \in Handlers |->
                    standing[g] /\ g # h /\ want[g] \notin Cleared(clearKill)]
  /\ acked' = [f \in Flags |-> acked[f] /\ f \notin Cleared(clearKill)]
  /\ UNCHANGED <<up, storeVars, nonceVars>>

-----------------------------------------------------------------------------
(* The loop: a plain save at the end of a cycle, or the save of a new nonce *)
(* base before anything is signed with it.                                  *)

LoopSave ==
  /\ up /\ LoopSaves /\ wpc["loop"] = "idle"
  /\ wpc' = [wpc EXCEPT !["loop"] = "saving"]
  /\ want' = [want EXCEPT !["loop"] = "save"]
  /\ UNCHANGED <<up, mem, storeVars, nonceVars, standing, acked>>

\* allocateIdentities without a shared allocator: the larger of the persisted base and the
\* clock, which may have stepped back since the last cycle.
Allocate(clock) ==
  /\ up /\ LoopSaves /\ wpc["loop"] = "idle"
  /\ LET start == IF clock > base THEN clock ELSE base
     IN  /\ start + Width <= MaxNonce
         /\ base' = start + Width
  /\ wpc' = [wpc EXCEPT !["loop"] = "saving"]
  /\ want' = [want EXCEPT !["loop"] = "sign"]
  /\ UNCHANGED <<up, mem, storeVars, top, standing, acked>>

\* The nonces base-Width .. base-1 are signed and sent.
Sign ==
  /\ up /\ wpc["loop"] = "sign"
  /\ top' = base
  /\ wpc' = [wpc EXCEPT !["loop"] = "idle"]
  /\ UNCHANGED <<up, mem, storeVars, want, base, standing, acked>>

-----------------------------------------------------------------------------
(* Store.Update (a handler) and Store.Save (the loop), under Store.mu.      *)

\* Faulty variants, for the mutation runs: a handler that rewrites the file from a blank value;
\* one that takes the last nonce for the next; a loop that saves the flags it booted with.
BlankNonceOf(w) == IF w = "loop" THEN base ELSE 0
LastNonceOf(w) == IF w = "loop" THEN base ELSE IF file.state = "good" THEN file.nonce - 1 ELSE 0
LoopWithoutOverlay(w) == IF w = "loop" THEN NoFlags ELSE mem

\* The nonce base a writer's value carries: the loop's own, or for a handler the one in the
\* file, so that a kill does not undo nonce progression the controller never read.
NonceOf(w) ==
  IF w = "loop" THEN base ELSE IF file.state = "good" THEN file.nonce ELSE 0

\* The flags a value carries: the controller's, whoever writes (Controller.overlay).
Overlay(w) == mem

\* The lock is taken, the file read (a handler), the overlay applied.
Make(w) ==
  /\ up /\ wpc[w] = "saving" /\ holder = "none"
  /\ w = "loop" \/ file.state # "torn"
  /\ holder' = w
  /\ buf' = [flags |-> Overlay(w), nonce |-> NonceOf(w)]
  /\ wpc' = [wpc EXCEPT ![w] = "made"]
  /\ UNCHANGED <<up, mem, file, nonceVars, askVars>>

\* Update cannot parse the file it must start from: the handler reports a persist error.
LoadFails(h) ==
  /\ up /\ wpc[h] = "saving" /\ holder = "none" /\ file.state = "torn"
  /\ wpc' = [wpc EXCEPT ![h] = "idle"]
  /\ standing' = [standing EXCEPT ![h] = FALSE]
  /\ UNCHANGED <<up, mem, storeVars, nonceVars, want, acked>>

Truncate(w) ==
  /\ up /\ wpc[w] = "made"
  /\ file' = [state |-> "torn", flags |-> file.flags, nonce |-> file.nonce]
  /\ wpc' = [wpc EXCEPT ![w] = "torn"]
  /\ UNCHANGED <<up, mem, holder, buf, nonceVars, askVars>>

\* What the writer does once its write has returned nil.
Answer(w) ==
  /\ wpc' = [wpc EXCEPT ![w] = IF want[w] = "sign" THEN "sign" ELSE "idle"]
  /\ IF w = "loop"
       THEN UNCHANGED <<standing, acked>>
       ELSE /\ acked' = [f \in Flags |-> acked[f] \/ (want[w] = f /\ standing[w])]
            /\ standing' = [standing EXCEPT ![w] = FALSE]

Written(w) ==
  /\ up /\ wpc[w] = "torn"
  /\ file' = [state |-> "good", flags |-> buf.flags, nonce |-> buf.nonce]
  /\ holder' = "none"
  /\ buf' = NoValue
  /\ Answer(w)
  /\ UNCHANGED <<up, mem, want, nonceVars>>

\* Opening or writing the file fails: an error, nothing signed, the file as it then is.
WriteFails(w) ==
  /\ up /\ wpc[w] \in {"made", "torn"}
  /\ holder' = "none"
  /\ buf' = NoValue
  /\ wpc' = [wpc EXCEPT ![w] = "idle"]
  /\ standing' = [g \in Handlers |-> standing[g] /\ g # w]
  /\ UNCHANGED <<up, mem, file, nonceVars, want, acked>>

-----------------------------------------------------------------------------
(* The process dies at any step, and NewController and Initialize read what *)
(* the file holds. A torn file stops the boot; a task replacement loses it. *)

Crash ==
  /\ up
  /\ up' = FALSE
  /\ holder' = "none"
  /\ buf' = NoValue
  /\ wpc' = [w \in Writers |-> "idle"]
  /\ standing' = [h \in Handlers |-> FALSE]
  /\ UNCHANGED <<mem, file, nonceVars, want, acked>>

\* Faulty variants: a torn file read as a first boot; a boot that restores the kill alone.
BootOverTornFile ==
  /\ ~up
  /\ up' = TRUE
  /\ mem' = IF file.state = "good" THEN file.flags ELSE NoFlags
  /\ base' = IF file.state = "good" THEN file.nonce ELSE 0
  /\ UNCHANGED <<storeVars, wpc, askVars, top>>

BootRestoresKillOnly ==
  /\ ~up /\ file.state # "torn"
  /\ up' = TRUE
  /\ mem' = [NoFlags EXCEPT !["kill"] = file.state = "good" /\ file.flags["kill"]]
  /\ base' = IF file.state = "good" THEN file.nonce ELSE 0
  /\ UNCHANGED <<storeVars, wpc, askVars, top>>

Boot ==
  /\ ~up /\ file.state # "torn"
  /\ up' = TRUE
  /\ mem' = IF file.state = "good" THEN file.flags ELSE NoFlags
  /\ base' = IF file.state = "good" THEN file.nonce ELSE 0
  /\ UNCHANGED <<storeVars, wpc, askVars, top>>

\* A new task starts without the file. Nonces of the old task are then guarded by the
\* clock alone, which this module does not follow: the history starts again.
ReplaceTask ==
  /\ ~up
  /\ file' = [state |-> "absent", flags |-> NoFlags, nonce |-> 0]
  /\ acked' = NoFlags
  /\ top' = 0
  /\ UNCHANGED <<up, mem, holder, buf, wpc, want, base, standing>>

-----------------------------------------------------------------------------
HandlerStep(h) ==
  \/ \E f \in Flags : Stop(h, f)
  \/ \E clearKill \in BOOLEAN : Resume(h, clearKill)
  \/ LoadFails(h)

LoopStep ==
  \/ LoopSave
  \/ \E clock \in 0..MaxNonce : Allocate(clock)
  \/ Sign

WriterStep(w) == Make(w) \/ Truncate(w) \/ Written(w) \/ WriteFails(w)

Next ==
  \/ \E h \in Handlers : HandlerStep(h)
  \/ LoopStep
  \/ \E w \in Writers : WriterStep(w)
  \/ Crash \/ Boot \/ ReplaceTask

Spec == Init /\ [][Next]_vars

(* The loop saves on every cycle, a Go mutex hands itself to a waiter in    *)
(* the end, and a disk that is written on every cycle does not fail for     *)
(* ever. Nothing is assumed of operators, crashes or restarts.              *)
Fairness ==
  /\ WF_vars(LoopSave)
  /\ WF_vars(Sign)
  /\ SF_vars(Make("loop"))
  /\ SF_vars(Truncate("loop"))
  /\ SF_vars(Written("loop"))
  /\ \A h \in Handlers : WF_vars(Truncate(h) \/ Written(h) \/ WriteFails(h))

FairSpec == Spec /\ Fairness

-----------------------------------------------------------------------------
(* Properties.                                                              *)

\* The value w is about to write, or is writing, is the one a crash leaves behind if it succeeds.
Writing(w) == wpc[w] \in {"made", "torn"}

\* The nonces the loop is about to sign lie wholly above every nonce signed before: across
\* concurrent kills, which rewrite the file between the save and the signing, failed writes,
\* restarts, and a clock that steps back (README: "used to avoid owner+nonce reuse across
\* restarts").
NoncesAreFresh == wpc["loop"] = "sign" => top + Width <= base

\* Once a stop is acknowledged and until a resume, whatever a boot can read carries it: the
\* loop's own saves, made up before the stop arrived and written after, included (state.Store:
\* "a whole-struct save from the loop would overwrite a kill written a moment earlier").
FileCarriesStops ==
  \A f \in Flags : acked[f] => file.state # "absent" /\ (file.state = "good" => file.flags[f])

\* One writer at a time is between making up its value and having it in the file.
OneWriter == \A w \in Writers : Writing(w) <=> holder = w

\* The stop a handler still stands for is in memory and in the value that handler writes.
StandingStops ==
  \A h \in Handlers : \A f \in Flags :
    standing[h] /\ want[h] = f =>
      /\ mem[f]
      /\ wpc[h] \in {"saving", "made", "torn"}
      /\ Writing(h) => buf.flags[f]

\* The file and the value on its way into it are at or above every signed nonce, and above
\* the range about to be signed.
NoncesKept ==
  LET floor == IF wpc["loop"] = "sign" THEN base ELSE top
  IN  /\ file.state = "good" => floor <= file.nonce
      /\ holder # "none" => floor <= buf.nonce
      /\ holder = "loop" => buf.nonce = base
      /\ file.state = "absent" => top = 0 /\ wpc["loop"] # "sign"
      /\ up => top <= base

\* The inductive strengthening of NoncesAreFresh, FileCarriesStops and PromisesKept.
IInv ==
  /\ TypeOK
  /\ OneWriter
  /\ StandingStops
  /\ FileCarriesStops
  /\ \A f \in Flags : acked[f] => /\ (up => mem[f])
                                   /\ (holder # "none" => buf.flags[f])
  /\ NoncesKept
  /\ want["loop"] = "sign" /\ wpc["loop"] # "idle" => top + Width <= base
  /\ want["loop"] \in {"save", "sign"}
  /\ \A h \in Handlers : want[h] # "sign" /\ wpc[h] # "sign"
  /\ wpc["loop"] = "sign" => want["loop"] = "sign"
  /\ ~up => holder = "none" /\ \A w \in Writers : wpc[w] = "idle"

\* Each stop is a DurableStop: no process comes up free of a stop that was acknowledged.
Acting(f) == IF ~up THEN "down" ELSE IF mem[f] THEN "stopped" ELSE "free"
Kill == INSTANCE DurableStop WITH acting <- Acting("kill"), promised <- acked["kill"]
Pause == INSTANCE DurableStop WITH acting <- Acting("pause"), promised <- acked["pause"]
KillIsDurable == Kill!RegSpec
PauseIsDurable == Pause!RegSpec

\* A kill that stays set in a process that stays up reaches the file, even when the handler's
\* own save failed: the loop's next save carries it (Store's overlay).
KillReachesFile ==
  LoopSaves /\ <>[](up /\ mem["kill"]) => []<>(file.state = "good" /\ file.flags["kill"])
=============================================================================
