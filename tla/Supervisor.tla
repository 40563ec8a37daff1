----------------------------- MODULE Supervisor -----------------------------
(***************************************************************************)
(* The supervisor of the sing-box child (crates/adapter, supervisor.rs):   *)
(* apply_config, start, reload and stop, run by one caller at a time (the  *)
(* controller holds its mutex), against a core process that dies when it   *)
(* likes and acts on a SIGHUP some time after it was sent, reading         *)
(* whatever the config file holds by then.                                 *)
(***************************************************************************)
CONSTANTS
  Config,         \* rendered configurations
  Valid,          \* those `sing-box check` accepts
  NoFile,         \* there is no config file
  Torn,           \* what a failed write leaves behind
  NoConfig,       \* no core is running
  SpawnMayFail,   \* TRUE: spawning the binary may fail
  Flaky           \* TRUE: reading or writing the file, or `sing-box check` on a good one, may fail

ASSUME SupervisorConstants ==
  /\ Valid \subseteq Config
  /\ NoFile \notin Config /\ Torn \notin Config /\ NoConfig \notin Config
  /\ SpawnMayFail \in BOOLEAN /\ Flaky \in BOOLEAN

VARIABLES
  file,       \* contents of config_path
  child,      \* "none": no handle; "alive"; "dead": exited, handle still held
  loaded,     \* the configuration the live core runs
  hup,        \* a SIGHUP the core has not acted on
  stage,      \* where apply_config is
  previous,   \* apply_config's copy of the file before it wrote
  result,     \* what apply_config last returned
  mishap      \* ghost: a read, write or check failed by itself since the last success

supervisorVars == <<file, child, loaded, hup, stage, previous, result, mishap>>
process        == <<child, loaded, hup>>

IsRunning == child # "none"

\* Mutant of ValidateConfig: the exit status of `sing-box check` is ignored.
ValidateConfigAny(f, ok) == TRUE

\* `sing-box check` on a file: ok is what it may answer.
ValidateConfig(f, ok) == ok => f \in Valid
Spurious(f, ok) == f \in Valid /\ ~ok
CheckAnswer(f, ok) == ValidateConfig(f, ok) /\ (Spurious(f, ok) => Flaky)

\* Mutant of Hangup: the signal is never sent.
HangupLost == hup' = FALSE

\* kill(pid, SIGHUP): a zombie takes signals without complaint.
Hangup == hup' = (child = "alive")

SupervisorInit ==
  /\ file \in Config \cup {NoFile}      \* an earlier session may have left one
  /\ child = "none" /\ loaded = NoConfig /\ hup = FALSE
  /\ stage = "idle" /\ previous = NoFile /\ result = "none" /\ mishap = FALSE

-----------------------------------------------------------------------------
\* apply_config: remember the old file, write the new one.  A file that cannot
\* be read is taken for none.
WriteConfig(c) ==
  /\ stage = "idle"
  /\ \/ previous' = file /\ UNCHANGED mishap
     \/ Flaky /\ file # NoFile /\ previous' = NoFile /\ mishap' = TRUE
  /\ file' = c
  /\ stage' = "validate"
  /\ UNCHANGED <<process, result>>

\* A write that fails, before or after it has truncated the file.
FailedWrite == Flaky /\ file' \in {file, Torn} /\ mishap' = TRUE

\* The write fails: apply_config returns at once and restores nothing.
WriteFails ==
  /\ stage = "idle" /\ FailedWrite
  /\ result' = "error"
  /\ UNCHANGED <<process, stage, previous>>

Validate ==
  /\ stage = "validate"
  /\ \E ok \in BOOLEAN :
       /\ CheckAnswer(file, ok)
       /\ stage' = IF ok THEN "apply" ELSE "restore"
       /\ mishap' = (mishap \/ Spurious(file, ok))
  /\ UNCHANGED <<file, process, previous, result>>

\* The ways out of reload and start.
Done    == stage' = "idle" /\ result' = "ok" /\ mishap' = FALSE
Refused == stage' = "restore" /\ UNCHANGED <<process, result>>

\* reload: validate again, require a child handle, signal.
Reload ==
  /\ stage = "apply" /\ IsRunning
  /\ \/ CheckAnswer(file, TRUE) /\ Hangup /\ UNCHANGED <<child, loaded>> /\ Done
     \/ CheckAnswer(file, FALSE) /\ Refused /\ mishap' = TRUE
  /\ UNCHANGED <<file, previous>>

\* start: validate again, spawn; the new process reads the file.
Start ==
  /\ stage = "apply" /\ ~IsRunning
  /\ \/ /\ CheckAnswer(file, TRUE)
        /\ child' = "alive" /\ loaded' = file /\ hup' = FALSE
        /\ Done
     \/ CheckAnswer(file, FALSE) /\ Refused /\ mishap' = TRUE
     \/ SpawnMayFail /\ Refused /\ UNCHANGED mishap
  /\ UNCHANGED <<file, previous>>

\* Mutant of Restored: the refused file stays.
RestoredNot == file

\* The old file as apply_config puts it back, and what it does with it.
Restored == IF previous = NoFile THEN file ELSE previous

Restore ==
  /\ stage = "restore"
  /\ \/ previous # NoFile /\ FailedWrite /\ UNCHANGED hup
     \/ /\ file' = Restored
        /\ \/ /\ previous # NoFile /\ IsRunning
              /\ CheckAnswer(previous, TRUE) /\ Hangup /\ UNCHANGED mishap
           \/ /\ previous # NoFile /\ IsRunning
              /\ CheckAnswer(previous, FALSE) /\ UNCHANGED hup
              /\ mishap' = (mishap \/ Spurious(previous, FALSE))
           \/ (previous = NoFile \/ ~IsRunning) /\ UNCHANGED <<hup, mishap>>
  /\ stage' = "idle" /\ result' = "error"
  /\ UNCHANGED <<child, loaded, previous>>

Stop ==
  /\ stage = "idle" /\ IsRunning
  /\ child' = "none" /\ loaded' = NoConfig /\ hup' = FALSE
  /\ UNCHANGED <<file, stage, previous, result, mishap>>

-----------------------------------------------------------------------------
(* The core process. *)

\* On SIGHUP the core checks the file itself and keeps going on a bad one.
CoreReload ==
  /\ child = "alive" /\ hup
  /\ hup' = FALSE
  /\ loaded' = IF file \in Valid THEN file ELSE loaded
  /\ UNCHANGED <<file, child, stage, previous, result, mishap>>

CoreDies ==
  /\ child = "alive"
  /\ child' = "dead" /\ loaded' = NoConfig /\ hup' = FALSE
  /\ UNCHANGED <<file, stage, previous, result, mishap>>

-----------------------------------------------------------------------------
Apply == (\E c \in Config : WriteConfig(c)) \/ WriteFails \/ Validate \/ Reload \/ Start \/ Restore
SupervisorNext == Apply \/ Stop \/ CoreReload \/ CoreDies

\* A call that has begun runs to its end, and a live core handles its signals.
SupervisorFairness == WF_supervisorVars(Validate \/ Reload \/ Start \/ Restore) /\ WF_supervisorVars(CoreReload)

SupervisorSafety == SupervisorInit /\ [][SupervisorNext]_supervisorVars
SupervisorSpec   == SupervisorSafety /\ SupervisorFairness

-----------------------------------------------------------------------------
\* The file, the core and apply_config's locals are of their types.
SupervisorTypeOK ==
  /\ file \in Config \cup {NoFile, Torn}
  /\ child \in {"none", "alive", "dead"}
  /\ loaded \in Config \cup {NoConfig}
  /\ hup \in BOOLEAN
  /\ stage \in {"idle", "validate", "apply", "restore"}
  /\ previous \in Config \cup {NoFile, Torn}
  /\ result \in {"none", "ok", "error"} /\ mishap \in BOOLEAN

\* validate_config is "the gate that prevents a bad swap from ever reaching the
\* live process": the core never runs a configuration the check refuses, even
\* when it acts on an old SIGHUP while a new, unchecked file is already there.
RunsValidated == child = "alive" => loaded \in Valid

\* Between calls, a live core with no signal pending runs what is on disk: a
\* refused swap is undone both in the file and, if the core had picked the
\* refused file's moment to reload, in the core.  Only a read, write or check that
\* failed by itself may part them, and the next swap that works mends it.
CoherentAtRest ==
  stage = "idle" /\ child = "alive" /\ ~hup /\ ~mishap => loaded = file

\* A swap that apply_config reported as done takes effect unless the core dies
\* or another call intervenes.
SwapTakesEffect ==
  \A c \in Config :
    (stage = "idle" /\ result = "ok" /\ file = c)
      ~> (loaded = c \/ child # "alive" \/ stage # "idle" \/ file # c)

\* apply_config "hot-reloads (or cold-starts) the core": when it reports
\* success there is a live core to run the configuration.
OkMeansServing ==
  [][stage = "apply" /\ stage' = "idle" /\ result' = "ok" => child' = "alive"]_supervisorVars
=============================================================================
