----------------------------- MODULE KillSwitch -----------------------------
(***************************************************************************)
(* side_a_execution/kill_switch.py: the SOFT / CRITICAL kill switch, the   *)
(* flatten callback a CRITICAL activation fires, and the JSON file that    *)
(* carries the switch across restarts.                                     *)
(*                                                                         *)
(* A call that runs to its end is atomic where nothing can be lost between *)
(* its lines.  It is split where a crash is visible: the flatten callback, *)
(* the assignment of _state, open(path, "w"), which truncates the file,    *)
(* and json.dump, which fills it, are steps of their own.                  *)
(***************************************************************************)

CONSTANTS
  CanCrash,    \* whether the process may die and start again
  Orders       \* entry orders the account may have out or hold at a time

ASSUME CanCrashAssumption == CanCrash \in BOOLEAN

Levels == {"NORMAL", "SOFT_ACTIVE", "CRITICAL_ACTIVE"}

VARIABLES
  wiring,      \* which of "callback" and "file" __init__ was given; the
               \* component registry builds the switch with neither
  state,       \* KillSwitch._state
  file,        \* what the persisted JSON says; "absent" before the first save,
               \* "truncated" between open(path, "w") and the end of json.dump
  phase,       \* how far the call in progress has come
  working,     \* entry orders that passed the gate and are not filled (external)
  held,        \* entry orders that became a position (external)
  early,       \* those of both that were working when the last flatten worked
  flattened,   \* result of the last flatten callback of this process
  saved        \* whether the last save wrote the file to its end

account == <<working, held, early>>

switchVars == <<wiring, state, file, phase, account, flattened, saved>>

\* "up": no call in progress; "flattening": activate_critical before it calls
\* back; "setting": after the callback; "saving": _state is set, the file is
\* not open yet; "writing": the file is open and empty; "down": crashed.
Phases == {"up", "flattening", "setting", "saving", "writing", "down"}

SwitchInit ==
  /\ wiring \in SUBSET {"callback", "file"}
  /\ state = "NORMAL"
  /\ file = "absent"
  /\ phase = "up"
  /\ working = {} /\ held = {} /\ early = {}
  /\ flattened = "none"
  /\ saved = TRUE

-----------------------------------------------------------------------------
(* Queries. *)

\* Fault: only SOFT stops entries.
BlockedBySoftOnly(s) == s = "SOFT_ACTIVE"

IsEntryBlocked(s) == s \in {"SOFT_ACTIVE", "CRITICAL_ACTIVE"}

\* What _load_state makes of the file's contents: anything it cannot parse,
\* and no file at all, leaves the switch NORMAL.
Restored(f) == IF f \in Levels THEN f ELSE "NORMAL"

-----------------------------------------------------------------------------
(* The operator's and the circuit breaker's calls. *)

\* activate_soft: refused under CRITICAL, only a new reason when already SOFT.
ActivateSoft ==
  /\ phase = "up"
  /\ state = "NORMAL"
  /\ state' = "SOFT_ACTIVE"
  /\ phase' = "saving"
  /\ UNCHANGED <<wiring, file, account, flattened, saved>>

\* activate_critical, up to the callback; a no-op when already CRITICAL.
ActivateCritical ==
  /\ phase = "up"
  /\ state # "CRITICAL_ACTIVE"
  /\ phase' = "flattening"
  /\ UNCHANGED <<wiring, state, file, account, flattened, saved>>

\* Fault: deactivate does not call _save_state.
DeactivateUnsaved ==
  /\ phase = "up"
  /\ state # "NORMAL"
  /\ state' = "NORMAL"
  /\ UNCHANGED <<wiring, file, phase, account, flattened, saved>>

\* deactivate: a no-op when already NORMAL.
Deactivate ==
  /\ phase = "up"
  /\ state # "NORMAL"
  /\ state' = "NORMAL"
  /\ phase' = "saving"
  /\ UNCHANGED <<wiring, file, account, flattened, saved>>

\* on_activate_callback("FLATTEN"), where there is a callback, closes the
\* positions, or answers False or raises, some of them closed: an exception is
\* caught and counts as False.  Orders the broker still works stay.  Without a
\* callback nothing is done (and flatten_ok is logged True all the same).
FlattenCallback ==
  /\ phase = "flattening"
  /\ phase' = "setting"
  /\ IF "callback" \in wiring
       THEN \/ flattened' = "ok" /\ held' = {} /\ early' = working
            \/ \E left \in SUBSET held :
                 flattened' = "failed" /\ held' = left /\ early' = {}
       ELSE UNCHANGED <<flattened, held, early>>
  /\ UNCHANGED <<wiring, state, file, working, saved>>

\* Fault: the exception of the callback is not caught.
SetCriticalIfFlat ==
  /\ phase = "setting"
  /\ flattened = "ok"
  /\ state' = "CRITICAL_ACTIVE"
  /\ phase' = "saving"
  /\ UNCHANGED <<wiring, file, account, flattened, saved>>

\* The assignments of activate_critical after the callback, whatever it said.
SetCritical ==
  /\ phase = "setting"
  /\ state' = "CRITICAL_ACTIVE"
  /\ phase' = "saving"
  /\ UNCHANGED <<wiring, file, account, flattened, saved>>

-----------------------------------------------------------------------------
(* _save_state. *)

OpenFile ==
  /\ phase = "saving"
  /\ "file" \in wiring
  /\ file' = "truncated"
  /\ phase' = "writing"
  /\ UNCHANGED <<wiring, state, account, flattened, saved>>

\* json.dump returns, and with it the call.
WriteFile ==
  /\ phase = "writing"
  /\ file' = state
  /\ saved' = TRUE
  /\ phase' = "up"
  /\ UNCHANGED <<wiring, state, account, flattened>>

\* The save raises, before or after the file is truncated; the exception is
\* logged and the call returns True all the same.  Without a path _save_state
\* returns at once.
SaveFails ==
  /\ phase \in {"saving", "writing"}
  /\ saved' = FALSE
  /\ phase' = "up"
  /\ UNCHANGED <<wiring, state, file, account, flattened>>

-----------------------------------------------------------------------------
(* The process and its surroundings. *)

\* The risk gate lets an entry through and its order is placed (external).
Enter(o) ==
  /\ phase = "up"
  /\ ~IsEntryBlocked(state)
  /\ o \notin working \cup held
  /\ working' = working \cup {o}
  /\ UNCHANGED <<wiring, state, file, phase, held, early, flattened, saved>>

\* The broker fills a working order, whatever the switch and the process do.
FillEntry(o) ==
  /\ o \in working
  /\ working' = working \ {o}
  /\ held' = held \cup {o}
  /\ UNCHANGED <<wiring, state, file, phase, early, flattened, saved>>

\* A position is closed by its own exit, or a working order is gone.
Exit(o) ==
  /\ o \in working \cup held
  /\ working' = working \ {o}
  /\ held' = held \ {o}
  /\ early' = early \ {o}
  /\ UNCHANGED <<wiring, state, file, phase, flattened, saved>>

Crash ==
  /\ CanCrash
  /\ phase # "down"
  /\ phase' = "down"
  /\ UNCHANGED <<wiring, state, file, account, flattened, saved>>

\* Fault: CRITICAL is restored the way SOFT is, without flattening again.
RestartWithoutFlatten ==
  /\ phase = "down"
  /\ flattened' = "none"
  /\ state' = Restored(file)
  /\ phase' = "up"
  /\ UNCHANGED <<wiring, file, account, saved>>

\* __init__ and _load_state: a file that says CRITICAL runs activate_critical
\* again, callback and save included; SOFT is only restored.
Restart ==
  /\ phase = "down"
  /\ flattened' = "none"
  /\ IF Restored(file) = "CRITICAL_ACTIVE"
       THEN /\ state' = "NORMAL"
            /\ phase' = "flattening"
       ELSE /\ state' = Restored(file)
            /\ phase' = "up"
  /\ UNCHANGED <<wiring, file, account, saved>>

Operator == ActivateSoft \/ ActivateCritical \/ Deactivate
CallStep == FlattenCallback \/ SetCritical \/ OpenFile \/ WriteFile \/ SaveFails

Account == \E o \in Orders : Enter(o) \/ FillEntry(o) \/ Exit(o)

SwitchNext == Operator \/ CallStep \/ Account \/ Crash \/ Restart

\* A call that has begun runs on, and a dead process is started again.
SwitchSpec == SwitchInit /\ [][SwitchNext]_switchVars /\ WF_switchVars(CallStep) /\ WF_switchVars(Restart)

-----------------------------------------------------------------------------
(* Properties. *)

SwitchTypeOK ==
  /\ wiring \subseteq {"callback", "file"}
  /\ state \in Levels
  /\ file \in Levels \cup {"absent", "truncated"}
  /\ phase \in Phases
  /\ working \cup held \cup early \subseteq Orders
  /\ flattened \in {"none", "ok", "failed"}
  /\ saved \in BOOLEAN

\* Between calls the file restores the level the switch is in, unless the last
\* save was cut short by a crash or failed: a restart then neither forgets an
\* activation nor revives a deactivated one (_save_state, _load_state).
DurableLevel ==
  phase = "up" /\ saved /\ file # "truncated" => Restored(file) = state

\* A switch that is CRITICAL in memory has called the flatten callback it was
\* given in this very process, also when the level came from the file
\* (_load_state re-activates, "since the original flatten may not have
\* survived the restart").
CriticalHasFlattened ==
  state = "CRITICAL_ACTIVE" /\ phase # "down" /\ "callback" \in wiring => flattened # "none"

\* Whatever the account holds or may yet be filled under CRITICAL has one of
\* three reasons: the switch was built without a callback, the flatten failed,
\* or the order was already out when the flatten worked and no flatten cancels
\* it.  No order of a later decision is among them (activate_critical,
\* is_entry_blocked), through crashes, failed saves and restores.
ExposureHasReason ==
  state = "CRITICAL_ACTIVE" /\ phase # "down" =>
    \/ "callback" \notin wiring
    \/ flattened = "failed"
    \/ working \cup held \subseteq early

\* Leaving CRITICAL takes a call of deactivate: no activation of SOFT, failed
\* save or entry lowers the level of a running process (activate_soft 111-116).
CriticalIsSticky ==
  [][state = "CRITICAL_ACTIVE" /\ phase # "down" =>
       state' = "CRITICAL_ACTIVE" \/ Deactivate]_switchVars

\* Every CRITICAL activation that begins reaches its end or dies with the
\* process: the switch cannot hang between the callback and the file.
ActivationEnds == phase = "flattening" ~> phase \in {"up", "down"}

=============================================================================
