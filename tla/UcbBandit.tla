------------------------------- MODULE UcbBandit -------------------------------
(***************************************************************************)
(* UCBSelector (bandit_ucb.go): the pull counts, the file they are saved   *)
(* to, and the goroutine of EnableAutoSave.  Update and scheduleSave are   *)
(* two steps, under two mutexes; saveMu is held while the goroutine saves. *)
(* os.WriteFile truncates the file before it writes.                       *)
(*                                                                         *)
(* What Select makes of the rewards (a mean, a logarithm and a square      *)
(* root) is left open: once every arm was pulled, it may return any.       *)
(***************************************************************************)
EXTENDS Integers, FiniteSets

CONSTANTS
  Arms,         \* the names of all arms
  Unreadable    \* the state file while it is absent, empty or cut short

VARIABLES
  pulls,     \* UCBSelector.counts
  timer,     \* saveTimer is not nil: an update waits to be saved
  saver,     \* the auto-save goroutine: idle, or writing with saveMu held
  copied,    \* the counts Save copied under mu
  stored,    \* ucb_state.json
  unsaved    \* ghost: the last Save failed

banditVars == <<pulls, timer, saver, copied, stored, unsaved>>
saveVars == <<saver, copied, stored, unsaved>>

Counts == [Arms -> Nat]
NoPulls == [arm \in Arms |-> 0]

ASSUME UnreadableAssumption == Unreadable \notin Counts

BanditTypeOK ==
  /\ pulls \in Counts /\ copied \in Counts
  /\ timer \in BOOLEAN /\ unsaved \in BOOLEAN
  /\ saver \in {"idle", "writing"}
  /\ stored \in Counts \cup {Unreadable}

BanditInit ==
  /\ pulls = NoPulls /\ timer = FALSE
  /\ saver = "idle" /\ copied = NoPulls /\ stored = Unreadable /\ unsaved = FALSE

\* What NewUCBSelector and AddArm make of the file; an error of Load is dropped.
Loaded == IF stored = Unreadable THEN NoPulls ELSE stored

\* The sum of the counts: each pull of each arm, counted once.
Pulls(count) == UNION {{arm} \X (1 .. count[arm]) : arm \in Arms}
Pulled(count) == Cardinality(Pulls(count))

\* Select: an arm that was never pulled comes first.
Selectable(names) ==
  LET unpulled == {arm \in names : pulls[arm] = 0}
  IN  IF unpulled # {} THEN unpulled ELSE names

\* The first half of Update, under mu.
Count(arm) ==
  /\ pulls' = [pulls EXCEPT ![arm] = @ + 1]
  /\ UNCHANGED <<timer, saveVars>>

\* Mutant of ScheduleSave: it does not wait for saveMu.
ScheduleSaveUnlocked ==
  /\ timer' = TRUE
  /\ UNCHANGED <<pulls, saveVars>>

\* scheduleSave, the second half of Update: it waits for saveMu.
ScheduleSave ==
  /\ saver = "idle"
  /\ timer' = TRUE
  /\ UNCHANGED <<pulls, saveVars>>

\* The tick of EnableAutoSave takes saveMu; Save copies the counts under mu, then
\* os.WriteFile empties the file.
SaveOpens ==
  /\ saver = "idle" /\ timer
  /\ saver' = "writing" /\ copied' = pulls /\ stored' = Unreadable
  /\ UNCHANGED <<pulls, timer, unsaved>>

SaveEnds ==
  /\ saver = "writing"
  /\ stored' = copied /\ unsaved' = FALSE
  /\ saver' = "idle" /\ timer' = FALSE /\ copied' = NoPulls
  /\ UNCHANGED pulls

\* The goroutine drops the error of Save and clears the timer all the same.
SaveFails ==
  /\ timer
  /\ unsaved' = TRUE
  /\ saver' = "idle" /\ timer' = FALSE /\ copied' = NoPulls
  /\ UNCHANGED <<pulls, stored>>

AutoSave == SaveOpens \/ SaveEnds \/ SaveFails

\* A process that is killed leaves the file as it is.
BanditDies ==
  /\ pulls' = NoPulls /\ timer' = FALSE /\ saver' = "idle" /\ copied' = NoPulls
  /\ unsaved' = FALSE
  /\ UNCHANGED stored

\* NewUCBSelector and AddArm at a start.
BanditLoads ==
  /\ pulls' = Loaded
  /\ UNCHANGED <<timer, saveVars>>
================================================================================
