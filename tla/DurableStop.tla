---------------------------- MODULE DurableStop ----------------------------
(***************************************************************************)
(* What an operator's stop (a kill or a pause) promises, and nothing of    *)
(* how: once the control API has acknowledged that a stop is saved, no     *)
(* process comes up free of it until a resume releases it.                 *)
(* The promise is that of the comment on state.ControlState: "Persisted so *)
(* a restart comes back KILLED or PAUSED rather than quoting", and of its  *)
(* limit, "this covers in-task restarts only".                             *)
(*                                                                         *)
(* ControlStore implements this specification, once per stop.              *)
(***************************************************************************)
VARIABLES
  acting,    \* "down", or what the running process does: "free" or "stopped"
  promised   \* the stop has been acknowledged as saved and not released since

regVars == <<acting, promised>>

RegTypeOK ==
  /\ acting \in {"down", "free", "stopped"}
  /\ promised \in BOOLEAN

RegInit ==
  /\ acting = "free"
  /\ promised = FALSE

\* The operator asks for the stop; the process obeys before anything is saved.
Ask ==
  /\ acting = "free"
  /\ acting' = "stopped"
  /\ UNCHANGED promised

\* The stop is acknowledged as saved.
Promise ==
  /\ acting = "stopped"
  /\ promised' = TRUE
  /\ UNCHANGED acting

\* A resume releases the stop and with it the promise.
Release ==
  /\ acting = "stopped"
  /\ acting' = "free"
  /\ promised' = FALSE

\* The process dies, or is replaced by one that knows nothing of the promise.
Die ==
  /\ acting' = "down"
  /\ UNCHANGED promised

LoseTask ==
  /\ acting = "down"
  /\ promised' = FALSE
  /\ UNCHANGED acting

\* The process comes up. A stop nobody was promised may or may not have survived.
Rise ==
  /\ acting = "down"
  /\ acting' \in (IF promised THEN {"stopped"} ELSE {"free", "stopped"})
  /\ UNCHANGED promised

RegNext == Ask \/ Promise \/ Release \/ Die \/ LoseTask \/ Rise

RegSpec == RegInit /\ [][RegNext]_regVars
=============================================================================
