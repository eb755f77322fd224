------------------------------ MODULE ChatMenus ------------------------------
(***************************************************************************)
(* The settings of one chat and the menus that change them: the active     *)
(* session, the model, the capabilities of each session and the verbose    *)
(* mode.                                                                   *)
(*                                                                         *)
(* Each setting is kept in memory and saved to a file of its own; a save   *)
(* that fails is logged and forgotten.  The buttons of a menu are signed   *)
(* and dated, not stored: they outlive a restart and can be tapped again   *)
(* until they expire.  A tap belongs to the session that is active when    *)
(* it arrives, and is acknowledged over the network before it is handled,  *)
(* while other messages, taps and turns go on.                             *)
(***************************************************************************)
EXTENDS Naturals, FiniteSets

CONSTANTS
    Sessions,       \* sessions of the chat
    Home,           \* tg:<chat>, the session of a chat that never chose one
    Models,         \* models of the allowlist the menu offers
    Capabilities,   \* capabilities the menu offers
    Defaults,       \* the capabilities of a session without an override
    Inherit,        \* no override
    MaxTaps,        \* bound: taps
    MaxFaults,      \* bound: saves that fail
    MaxRestarts     \* bound: restarts

ASSUME MenusAssumption ==
    /\ Home \in Sessions /\ Inherit \notin Models
    /\ Defaults \subseteq Capabilities
    /\ MaxTaps \in Nat /\ MaxFaults \in Nat /\ MaxRestarts \in Nat

VARIABLES
    active,     \* the active session of the chat
    model,      \* the model override of the chat
    caps,       \* the capability override of each session, {} if none, else {set}
    verbose,    \* the verbose mode of the chat
    file,       \* what is in the file of each setting
    aged,       \* sessions whose override was set over max_age_days ago
    agedSaved,  \* the same for the overrides in the file
    made,       \* sessions created so far
    talked,     \* sessions with records in their log
    fresh,      \* buttons shown that have not expired
    taps,       \* taps that are being acknowledged, with their session
    turn,       \* the turn in progress, or NoTurn
    tapped, faults, restarts,
    \* observation only:
    told        \* the settings as the last reply about each showed them

memory == <<active, model, caps, verbose>>
logs == <<made, talked>>
process == <<fresh, taps, turn>>
bounds == <<tapped, faults, restarts>>
dates == <<aged, agedSaved>>
vars == <<memory, file, dates, logs, process, bounds, told>>

Buttons ==
    ({"resume"} \X Sessions) \cup ({"model"} \X Models) \cup ({"capability"} \X Capabilities)

Overrides == {{}} \cup {{c} : c \in SUBSET Capabilities}

NoTurn == <<>>

Settings == [active |-> active, model |-> model, caps |-> caps, verbose |-> verbose]

TypeOK ==
    /\ active \in made /\ made \subseteq Sessions /\ talked \subseteq made
    /\ model \in Models \cup {Inherit}
    /\ caps \in [Sessions -> Overrides]
    /\ verbose \in BOOLEAN
    /\ DOMAIN file = DOMAIN Settings /\ DOMAIN told = DOMAIN Settings
    /\ aged \subseteq Sessions /\ agedSaved \subseteq Sessions
    /\ fresh \subseteq Buttons
    /\ taps \subseteq [button : Buttons, session : Sessions]

Init ==
    /\ active = Home /\ made = {Home} /\ talked = {}
    /\ model = Inherit
    /\ caps = [s \in Sessions |-> {}]
    /\ verbose = FALSE
    /\ file = Settings /\ told = Settings
    /\ aged = {} /\ agedSaved = {}
    /\ fresh = {} /\ taps = {} /\ turn = NoTurn
    /\ tapped = 0 /\ faults = 0 /\ restarts = 0

-----------------------------------------------------------------------------
(* _save of one setting: the whole file is replaced, or stays as it is.    *)
Save(setting, value) ==
    \/ /\ file' = [file EXCEPT ![setting] = value]
       /\ UNCHANGED faults
    \/ /\ faults < MaxFaults
       /\ faults' = faults + 1
       /\ UNCHANGED file

Tell(setting, value) == told' = [told EXCEPT ![setting] = value]

(* set_active_session, set_model_override. *)
SetActive(s) ==
    /\ active' = s
    /\ Save("active", s)
    /\ Tell("active", s)

SetModel(m) ==
    /\ model' = m
    /\ Save("model", m)
    /\ Tell("model", m)

(* _save of the overrides, with the dates they were set. *)
SaveCapabilities ==
    \/ /\ file' = [file EXCEPT !.caps = caps']
       /\ agedSaved' = aged'
       /\ UNCHANGED faults
    \/ /\ faults < MaxFaults
       /\ faults' = faults + 1
       /\ UNCHANGED <<file, agedSaved>>

(* set_capabilities. *)
SetCapabilities(s, set) ==
    /\ caps' = [caps EXCEPT ![s] = {set}]
    /\ aged' = aged \ {s}
    /\ SaveCapabilities
    /\ Tell("caps", caps')

(* clear_capabilities. *)
ClearUnsaved(s) ==
    /\ caps' = [caps EXCEPT ![s] = {}]
    /\ aged' = aged \ {s}
    /\ Tell("caps", caps')
    /\ UNCHANGED <<file, agedSaved, faults>>

ClearCapabilities(s) ==
    /\ caps' = [caps EXCEPT ![s] = {}]
    /\ aged' = aged \ {s}
    /\ SaveCapabilities
    /\ Tell("caps", caps')

-----------------------------------------------------------------------------
(* SessionContextFactory.create: a session of its own, active at once. *)
Create(s) ==
    /\ s \notin made
    /\ made' = made \cup {s}
    /\ SetActive(s)

(* /new. *)
NewSession(s) ==
    /\ Create(s)
    /\ UNCHANGED <<model, caps, verbose, dates, talked, process, tapped, restarts>>

(* A menu is sent: its buttons can be tapped from now on. *)
Show(kind, values) == fresh' = fresh \cup ({kind} \X values)

(* /sessions lists sessions that have records (the last five, more than    *)
(* there are here).                                                        *)
SessionMenu ==
    /\ Show("resume", talked)
    /\ UNCHANGED <<memory, file, dates, logs, taps, turn, bounds, told>>

(* /model. *)
ModelMenu ==
    /\ Show("model", Models)
    /\ UNCHANGED <<memory, file, dates, logs, taps, turn, bounds, told>>

(* /capabilities. *)
CapabilityMenu ==
    /\ Show("capability", Capabilities)
    /\ UNCHANGED <<memory, file, dates, logs, taps, turn, bounds, told>>

(* /verbose. *)
ToggleVerbose ==
    /\ verbose' = ~verbose
    /\ Save("verbose", verbose')
    /\ Tell("verbose", verbose')
    /\ UNCHANGED <<active, model, caps, dates, logs, process, tapped, restarts>>

(* A button's time is over. *)
Expire(b) ==
    /\ fresh' = fresh \ {b}
    /\ UNCHANGED <<memory, file, dates, logs, taps, turn, bounds, told>>

-----------------------------------------------------------------------------
(* _apply_session_context gives an event the session that is active now. *)
InActiveSession(b) == [button |-> b, session |-> active]

(* process_update_async. *)
TapArrives(b) ==
    /\ tapped < MaxTaps
    /\ tapped' = tapped + 1
    /\ taps' = taps \cup {InActiveSession(b)}
    /\ UNCHANGED <<memory, file, dates, logs, fresh, turn, faults, restarts, told>>

(* Acknowledging the tap raises: it is never handled. *)
TapDropped(t) ==
    /\ taps' = taps \ {t}
    /\ UNCHANGED <<memory, file, dates, logs, fresh, turn, bounds, told>>

(* The signature of the tapped button verifies and is not out of date. *)
Valid(t) == t.button \in fresh

Toggled(s, c) ==
    LET current == IF caps[s] = {} THEN Defaults ELSE CHOOSE set \in caps[s] : TRUE
    IN IF c \in current THEN current \ {c} ELSE current \cup {c}

(* handle_session_resume_callback. *)
ResumeTap(t) ==
    /\ t.button[1] = "resume" /\ Valid(t)
    /\ taps' = taps \ {t}
    /\ SetActive(t.button[2])
    /\ UNCHANGED <<model, caps, verbose, dates, logs, fresh, turn, tapped, restarts>>

(* handle_model_callback. *)
ModelTap(t) ==
    /\ t.button[1] = "model" /\ Valid(t)
    /\ taps' = taps \ {t}
    /\ SetModel(t.button[2])
    /\ UNCHANGED <<active, caps, verbose, dates, logs, fresh, turn, tapped, restarts>>

(* handle_capabilities_callback, and the menu shown again. *)
CapabilityTapOnActive(t) ==
    /\ t.button[1] = "capability" /\ Valid(t)
    /\ taps' = taps \ {t}
    /\ SetCapabilities(active, Toggled(active, t.button[2]))
    /\ Show("capability", Capabilities)
    /\ UNCHANGED <<active, model, verbose, logs, turn, tapped, restarts>>

CapabilityTap(t) ==
    /\ t.button[1] = "capability" /\ Valid(t)
    /\ taps' = taps \ {t}
    /\ SetCapabilities(t.session, Toggled(t.session, t.button[2]))
    /\ Show("capability", Capabilities)
    /\ UNCHANGED <<active, model, verbose, logs, turn, tapped, restarts>>

(* "Invalid or expired ... selection." *)
StaleTap(t) ==
    /\ ~Valid(t)
    /\ taps' = taps \ {t}
    /\ UNCHANGED <<memory, file, dates, logs, fresh, turn, bounds, told>>

-----------------------------------------------------------------------------
(* A message starts a turn in the active session, with its overrides. *)
Message ==
    /\ turn = NoTurn
    /\ turn' = [session |-> active, caps |-> caps[active], model |-> model]
    /\ talked' = talked \cup {active}
    /\ UNCHANGED <<memory, file, dates, made, fresh, taps, bounds, told>>

TurnEnds ==
    /\ turn # NoTurn
    /\ turn' = NoTurn
    /\ UNCHANGED <<memory, file, dates, logs, fresh, taps, bounds, told>>

(* reset_session_context: nothing but the log decides whether there was    *)
(* anything to reset.                                                      *)
ResetSession(s) ==
    \/ /\ s \in talked
       /\ talked' = talked \ {s}
       /\ ClearCapabilities(s)
    \/ /\ s \notin talked
       /\ UNCHANGED <<talked, caps, dates, file, faults, told>>

(* The history exceeds the model's limit: the turn's session is reset. *)
TurnTooLong ==
    /\ turn # NoTurn
    /\ turn' = NoTurn
    /\ ResetSession(turn.session)
    /\ UNCHANGED <<active, model, verbose, made, fresh, taps, tapped, restarts>>

(* /reset. *)
Reset ==
    /\ ResetSession(active)
    /\ UNCHANGED <<active, model, verbose, made, process, tapped, restarts>>

(* An override reaches max_age_days; in the file it may do so earlier,     *)
(* when a later save of it has failed.                                     *)
GrowOld(s) ==
    /\ \/ /\ caps[s] # {}
          /\ aged' = aged \cup {s}
       \/ /\ faults > 0 /\ file.caps[s] # {}
          /\ UNCHANGED aged
    /\ agedSaved' = agedSaved \cup {s}
    /\ UNCHANGED <<memory, file, logs, process, bounds, told>>

(* Restart: the files are read, and old overrides are not taken over, but  *)
(* stay in the file until the next save.                                   *)
(* What a failed save left behind, or age, the chat has to find out.       *)
Loaded(setting) == file[setting]

Pruned(overrides) == [s \in Sessions |-> IF s \in agedSaved THEN {} ELSE overrides[s]]

Restart ==
    /\ restarts < MaxRestarts
    /\ restarts' = restarts + 1
    /\ active' = Loaded("active") /\ model' = Loaded("model") /\ verbose' = Loaded("verbose")
    /\ caps' = Pruned(Loaded("caps"))
    /\ aged' = {}
    /\ taps' = {} /\ turn' = NoTurn
    /\ told' = [k \in DOMAIN told |->
                    IF k = "caps" THEN Pruned(IF faults > 0 THEN file.caps ELSE told.caps)
                    ELSE IF faults > 0 THEN file[k] ELSE told[k]]
    /\ UNCHANGED <<file, agedSaved, logs, fresh, tapped, faults>>

(* The handler, for a command and for a tap that was acknowledged. *)
Command ==
    \/ \E s \in Sessions : NewSession(s)
    \/ SessionMenu \/ ModelMenu \/ CapabilityMenu \/ ToggleVerbose \/ Reset

HandleTap(t) == ResumeTap(t) \/ ModelTap(t) \/ CapabilityTap(t) \/ StaleTap(t)

Next ==
    \/ Command
    \/ \E t \in taps : HandleTap(t) \/ TapDropped(t)
    \/ \E b \in fresh : TapArrives(b) \/ Expire(b)
    \/ \E s \in Sessions : GrowOld(s)
    \/ Message \/ TurnEnds \/ TurnTooLong \/ Restart

Spec == Init /\ [][Next]_vars

-----------------------------------------------------------------------------
(* The settings in force are those the chat was last told of, through      *)
(* switches, resets, menus tapped late and restarts, as long as no save    *)
(* has failed and apart from overrides a restart finds too old.            *)
ToldTrue == told = Settings

(* The capabilities of a session change only by a tap that came while it   *)
(* was the active one, or by a reset of its own: a chat that switches      *)
(* sessions while a tap or a turn is under way changes no other session.   *)
OverridesStayApart ==
    [][\A s \in Sessions :
        caps'[s] # caps[s] =>
            \/ \E t \in taps \ taps' : t.session = s
            \/ s \in talked \ talked'
            \/ restarts' # restarts]_vars
=============================================================================
