--------------------------- MODULE ChatMenusProofs ---------------------------
(***************************************************************************)
(* For any sessions, models and capabilities, any number of taps, failed   *)
(* saves and restarts: the settings in force are the ones the chat was     *)
(* told, and the capability overrides of sessions stay apart.              *)
(***************************************************************************)
EXTENDS ChatMenus, TLAPS

SettingsType ==
    [active : Sessions, model : Models \cup {Inherit},
     caps : [Sessions -> Overrides], verbose : BOOLEAN]

(* As long as no save has failed the files hold the settings in force,     *)
(* except for overrides too old to be loaded again.                        *)
SavedUnlessOld ==
    faults = 0 =>
        /\ file.active = active /\ file.model = model /\ file.verbose = verbose
        /\ \A s \in Sessions : s \notin agedSaved => file.caps[s] = caps[s]

SettingsInv ==
    /\ Settings \in SettingsType /\ file \in SettingsType /\ faults \in Nat
    /\ SavedUnlessOld
    /\ ToldTrue

(* A button names what its menu offers, and a tap and a turn a session. *)
MenuShape ==
    /\ talked \subseteq Sessions
    /\ fresh \subseteq Buttons
    /\ taps \subseteq [button : Buttons, session : Sessions]
    /\ turn = NoTurn \/ turn.session \in Sessions

(* A chat starts without overrides and with files that say so. *)
LEMMA InitSInv == Init => SettingsInv /\ MenuShape
  <1> SUFFICES ASSUME Init PROVE SettingsInv /\ MenuShape
    OBVIOUS
  <1>1. /\ Settings = [active |-> Home, model |-> Inherit,
                       caps |-> [s \in Sessions |-> {}], verbose |-> FALSE]
        /\ file = Settings
    BY DEF Init, Settings
  <1>2. Settings \in SettingsType
    BY <1>1, MenusAssumption DEF SettingsType, Overrides
  <1> QED
    BY <1>1, <1>2 DEF Init, SettingsInv, MenuShape, SavedUnlessOld, ToldTrue, Settings, NoTurn

(* The active session, the model or the verbose mode is changed, saved and *)
(* told.                                                                   *)
LEMMA SetActiveStep ==
    ASSUME SettingsInv, NEW s \in Sessions, SetActive(s),
           UNCHANGED <<model, caps, verbose, agedSaved>>
    PROVE  SettingsInv'
  <1> USE DEF SettingsInv
  <1>1. Settings' = [Settings EXCEPT !.active = s] /\ Settings' \in SettingsType
    BY DEF Settings, SettingsType, SetActive
  <1>2. ToldTrue'
    BY <1>1 DEF ToldTrue, SetActive, Tell
  <1>3. file' \in SettingsType /\ faults' \in Nat
    BY DEF SettingsType, SetActive, Save
  <1>4. SavedUnlessOld'
    BY DEF SettingsType, SetActive, Save, SavedUnlessOld
  <1> QED BY <1>1, <1>2, <1>3, <1>4

LEMMA SetModelStep ==
    ASSUME SettingsInv, NEW m \in Models, SetModel(m),
           UNCHANGED <<active, caps, verbose, agedSaved>>
    PROVE  SettingsInv'
  <1> USE DEF SettingsInv
  <1>1. Settings' = [Settings EXCEPT !.model = m] /\ Settings' \in SettingsType
    BY DEF Settings, SettingsType, SetModel
  <1>2. ToldTrue'
    BY <1>1 DEF ToldTrue, SetModel, Tell
  <1>3. file' \in SettingsType /\ faults' \in Nat
    BY DEF SettingsType, SetModel, Save
  <1>4. SavedUnlessOld'
    BY DEF SettingsType, SetModel, Save, SavedUnlessOld
  <1> QED BY <1>1, <1>2, <1>3, <1>4

LEMMA VerboseStep ==
    ASSUME SettingsInv, ToggleVerbose
    PROVE  SettingsInv'
  <1> USE DEF SettingsInv
  <1>1. verbose' \in BOOLEAN /\ UNCHANGED <<active, model, caps, agedSaved>>
    BY DEF ToggleVerbose, dates
  <1> DEFINE v == verbose'
  <1>a. Save("verbose", v)
    BY DEF ToggleVerbose
  <1> HIDE DEF v
  <1>2. Settings' = [Settings EXCEPT !.verbose = verbose'] /\ Settings' \in SettingsType
    BY <1>1 DEF Settings, SettingsType
  <1>3. ToldTrue'
    BY <1>2 DEF ToldTrue, ToggleVerbose, Tell
  <1>4. file' \in SettingsType /\ faults' \in Nat
    <2>1. v \in BOOLEAN
      BY <1>1 DEF v
    <2> QED BY <1>a, <2>1 DEF SettingsType, Save
  <1>5. SavedUnlessOld'
    <2>1. CASE file' = [file EXCEPT !["verbose"] = v] /\ UNCHANGED faults
      <3>1. file'.active = file.active /\ file'.model = file.model /\ file'.caps = file.caps
        BY <2>1 DEF SettingsType
      <3>2. "verbose" \in DOMAIN file
        BY DEF SettingsType
      <3>3. file'["verbose"] = v
        BY <2>1, <3>2, Zenon
      <3>4. file'.verbose = verbose'
        BY <3>3, Zenon DEF v
      <3> QED BY <1>1, <2>1, <3>1, <3>4, Zenon DEF SavedUnlessOld
    <2>2. CASE faults' = faults + 1
      BY <2>2 DEF SavedUnlessOld
    <2> QED BY <1>a, <2>1, <2>2 DEF Save
  <1> QED BY <1>2, <1>3, <1>4, <1>5

(* An override is changed, saved and told. *)
LEMMA OverrideStep ==
    ASSUME SettingsInv, NEW s \in Sessions, NEW o \in Overrides,
           UNCHANGED <<active, model, verbose>>,
           caps' = [caps EXCEPT ![s] = o], SaveCapabilities, Tell("caps", caps')
    PROVE  SettingsInv'
  <1> USE DEF SettingsInv
  <1>1. caps \in [Sessions -> Overrides] /\ caps' \in [Sessions -> Overrides]
    BY DEF Settings, SettingsType
  <1>2. Settings' = [Settings EXCEPT !.caps = caps'] /\ Settings' \in SettingsType
    BY <1>1 DEF Settings, SettingsType
  <1>3. ToldTrue'
    BY <1>2 DEF ToldTrue, Tell
  <1>4. file' \in SettingsType /\ faults' \in Nat
    BY <1>1 DEF SettingsType, SaveCapabilities
  <1>5. SavedUnlessOld'
    BY <1>1 DEF SettingsType, SaveCapabilities, SavedUnlessOld
  <1> QED BY <1>2, <1>3, <1>4, <1>5

(* A toggled override is a set of capabilities. *)
LEMMA ToggledType ==
    ASSUME SettingsInv, NEW s \in Sessions, NEW c \in Capabilities
    PROVE  {Toggled(s, c)} \in Overrides
  <1>1. caps[s] \in Overrides
    BY DEF SettingsInv, Settings, SettingsType
  <1>2. (IF caps[s] = {} THEN Defaults ELSE CHOOSE set \in caps[s] : TRUE) \subseteq Capabilities
    BY <1>1, MenusAssumption DEF Overrides
  <1> QED
    BY <1>2 DEF Toggled, Overrides

(* reset_session_context clears the override of the session, if it had     *)
(* anything to reset.                                                      *)
LEMMA ResetStep ==
    ASSUME SettingsInv, NEW s \in Sessions, ResetSession(s),
           UNCHANGED <<active, model, verbose>>
    PROVE  SettingsInv'
  <1>1. CASE ClearCapabilities(s)
    BY <1>1, OverrideStep DEF ClearCapabilities, Overrides
  <1>2. CASE UNCHANGED <<caps, dates, file, faults, told>>
    BY <1>2 DEF SettingsInv, Settings, SavedUnlessOld, ToldTrue, dates
  <1> QED BY <1>1, <1>2 DEF ResetSession

(* A restart takes over what the files say, which the chat was told if     *)
(* every save succeeded.                                                   *)
LEMMA RestartStep ==
    ASSUME SettingsInv, Restart
    PROVE  SettingsInv'
  <1> USE DEF SettingsInv
  <1>1. /\ Pruned(file.caps) \in [Sessions -> Overrides]
        /\ file.active \in Sessions /\ file.model \in Models \cup {Inherit}
        /\ file.verbose \in BOOLEAN
    BY DEF SettingsType, Pruned, Overrides
  <1>2. Settings' = [active |-> file.active, model |-> file.model,
                     caps |-> Pruned(file.caps), verbose |-> file.verbose]
    BY DEF Restart, Loaded, Settings
  <1>3. Settings' \in SettingsType /\ file' = file /\ faults' = faults
    BY <1>1, <1>2 DEF Restart, SettingsType
  <1>4. SavedUnlessOld'
    BY DEF Restart, Loaded, Pruned, SavedUnlessOld
  <1>5. DOMAIN told = {"active", "model", "caps", "verbose"}
    BY DEF ToldTrue, Settings
  <1>6. faults = 0 => /\ told.active = file.active /\ told.model = file.model
                      /\ told.verbose = file.verbose
                      /\ Pruned(told.caps) = Pruned(file.caps)
    BY DEF SavedUnlessOld, ToldTrue, Settings, Pruned
  <1>7. told' = [k \in {"active", "model", "caps", "verbose"} |->
                    IF k = "caps" THEN Pruned(IF faults > 0 THEN file.caps ELSE told.caps)
                    ELSE IF faults > 0 THEN file[k] ELSE told[k]]
    BY <1>5 DEF Restart
  <1>8. ToldTrue'
    BY <1>2, <1>6, <1>7 DEF ToldTrue
  <1> QED BY <1>3, <1>4, <1>8

(* Taps, messages and menus go to sessions and name what there is. *)
LEMMA MenuStep == SettingsInv /\ MenuShape /\ [Next]_vars => MenuShape'
  <1> SUFFICES ASSUME SettingsInv, MenuShape, [Next]_vars PROVE MenuShape'
    OBVIOUS
  <1>0. active \in Sessions
    BY DEF SettingsInv, Settings, SettingsType
  <1> USE DEF MenuShape
  <1>1. ASSUME NEW s \in Sessions, NewSession(s) PROVE MenuShape'
    BY <1>1 DEF NewSession, process
  <1>2. CASE SessionMenu \/ ModelMenu \/ CapabilityMenu
    BY <1>2 DEF SessionMenu, ModelMenu, CapabilityMenu, Show, Buttons, logs
  <1>3. CASE ToggleVerbose
    BY <1>3 DEF ToggleVerbose, logs, process
  <1>4. CASE Reset
    BY <1>4 DEF Reset, ResetSession, process
  <1>5. ASSUME NEW t \in taps, ResumeTap(t) \/ ModelTap(t) PROVE MenuShape'
    BY <1>5 DEF ResumeTap, ModelTap, logs
  <1>6. ASSUME NEW t \in taps, CapabilityTap(t) PROVE MenuShape'
    BY <1>6 DEF CapabilityTap, Show, Buttons, logs
  <1>7. ASSUME NEW t \in taps, StaleTap(t) \/ TapDropped(t) PROVE MenuShape'
    BY <1>7 DEF StaleTap, TapDropped, logs
  <1>8. ASSUME NEW b \in fresh, TapArrives(b) \/ Expire(b) PROVE MenuShape'
    BY <1>0, <1>8 DEF TapArrives, Expire, InActiveSession, logs
  <1>9. ASSUME NEW s \in Sessions, GrowOld(s) PROVE MenuShape'
    BY <1>9 DEF GrowOld, logs, process
  <1>10. CASE Message \/ TurnEnds
    BY <1>0, <1>10 DEF Message, TurnEnds, logs
  <1>11. CASE TurnTooLong
    BY <1>11 DEF TurnTooLong, ResetSession
  <1>12. CASE Restart
    BY <1>12 DEF Restart, logs
  <1>13. CASE UNCHANGED vars
    BY <1>13 DEF vars, logs, process
  <1> QED
    BY <1>1, <1>2, <1>3, <1>4, <1>5, <1>6, <1>7, <1>8, <1>9, <1>10, <1>11, <1>12, <1>13
    DEF Next, Command, HandleTap

(* Every step tells what it sets and saves what it tells. *)
LEMMA SettingsStep == SettingsInv /\ MenuShape /\ [Next]_vars => SettingsInv'
  <1> SUFFICES ASSUME SettingsInv, MenuShape, [Next]_vars PROVE SettingsInv'
    OBVIOUS
  <1>0. ASSUME UNCHANGED <<memory, file, agedSaved, faults, told>> PROVE SettingsInv'
    BY <1>0 DEF SettingsInv, Settings, SavedUnlessOld, ToldTrue, memory
  <1>1. ASSUME NEW s \in Sessions, NewSession(s) PROVE SettingsInv'
    BY <1>1, SetActiveStep DEF NewSession, Create, dates
  <1>2. CASE SessionMenu \/ ModelMenu \/ CapabilityMenu
    BY <1>0, <1>2 DEF SessionMenu, ModelMenu, CapabilityMenu, dates, bounds
  <1>3. CASE ToggleVerbose
    BY <1>3, VerboseStep
  <1>4. CASE Reset
    BY <1>4, ResetStep DEF Reset, SettingsInv, Settings, SettingsType
  <1>5. ASSUME NEW t \in taps, ResumeTap(t) PROVE SettingsInv'
    <2>1. t.button[2] \in Sessions
      BY <1>5 DEF ResumeTap, MenuShape, Buttons
    <2> QED BY <1>5, <2>1, SetActiveStep DEF ResumeTap, dates
  <1>6. ASSUME NEW t \in taps, ModelTap(t) PROVE SettingsInv'
    <2>1. t.button[2] \in Models
      BY <1>6 DEF ModelTap, MenuShape, Buttons
    <2> QED BY <1>6, <2>1, SetModelStep DEF ModelTap, dates
  <1>7. ASSUME NEW t \in taps, CapabilityTap(t) PROVE SettingsInv'
    <2>1. t.button[2] \in Capabilities /\ t.session \in Sessions
      BY <1>7 DEF CapabilityTap, MenuShape, Buttons
    <2>2. {Toggled(t.session, t.button[2])} \in Overrides
      BY <2>1, ToggledType
    <2> QED BY <1>7, <2>1, <2>2, OverrideStep DEF CapabilityTap, SetCapabilities
  <1>8. ASSUME NEW t \in taps, StaleTap(t) \/ TapDropped(t) PROVE SettingsInv'
    BY <1>0, <1>8 DEF StaleTap, TapDropped, dates, bounds
  <1>9. ASSUME NEW b \in fresh, TapArrives(b) \/ Expire(b) PROVE SettingsInv'
    BY <1>0, <1>9 DEF TapArrives, Expire, dates, bounds
  <1>10. ASSUME NEW s \in Sessions, GrowOld(s) PROVE SettingsInv'
    BY <1>10 DEF GrowOld, SettingsInv, Settings, SavedUnlessOld, ToldTrue, memory, bounds
  <1>11. CASE Message \/ TurnEnds
    BY <1>0, <1>11 DEF Message, TurnEnds, dates, bounds
  <1>12. CASE TurnTooLong
    BY <1>12, ResetStep DEF TurnTooLong, MenuShape
  <1>13. CASE Restart
    BY <1>13, RestartStep
  <1>14. CASE UNCHANGED vars
    BY <1>0, <1>14 DEF vars, dates, bounds
  <1> QED
    BY <1>1, <1>2, <1>3, <1>4, <1>5, <1>6, <1>7, <1>8, <1>9, <1>10, <1>11, <1>12, <1>13, <1>14
    DEF Next, Command, HandleTap

LEMMA SettingsInvariance == Spec => [](SettingsInv /\ MenuShape)
  BY InitSInv, MenuStep, SettingsStep, PTL DEF Spec

(* The settings in force are the ones last told to the chat (the           *)
(* set_* and clear_* methods, _save, _load and _prune_stale_entries).      *)
THEOREM SettingsAsTold == Spec => []ToldTrue
  <1>1. SettingsInv => ToldTrue BY DEF SettingsInv
  <1> QED BY <1>1, SettingsInvariance, PTL

(* A tap, a turn and a switch of sessions that overlap change the          *)
(* capabilities of no session but the one the tap came from, or the one    *)
(* that is reset (handle_capabilities_callback, reset_session_context).    *)
THEOREM OverridesApart == Spec => OverridesStayApart
  <1> DEFINE Apart ==
        \A s \in Sessions :
            caps'[s] # caps[s] =>
                \/ \E t \in taps \ taps' : t.session = s
                \/ s \in talked \ talked'
                \/ restarts' # restarts
  <1>1. SettingsInv /\ MenuShape /\ [Next]_vars => [Apart]_vars
    <2> SUFFICES ASSUME SettingsInv, MenuShape, Next PROVE Apart
      OBVIOUS
    <2>0. caps \in [Sessions -> Overrides] /\ active \in Sessions
      BY DEF SettingsInv, Settings, SettingsType
    <2>1. ASSUME NEW r \in Sessions, ResetSession(r) PROVE Apart
      BY <2>0, <2>1 DEF ResetSession, ClearCapabilities
    <2>2. CASE Reset
      BY <2>0, <2>1, <2>2 DEF Reset
    <2>3. CASE TurnTooLong
      BY <2>1, <2>3 DEF TurnTooLong, MenuShape
    <2>4. ASSUME NEW t \in taps, CapabilityTap(t) PROVE Apart
      BY <2>0, <2>4 DEF CapabilityTap, SetCapabilities
    <2>5. CASE Restart
      BY <2>5 DEF Restart, MenusAssumption
    <2>6. ASSUME NEW t \in taps, ResumeTap(t) \/ ModelTap(t) \/ StaleTap(t) \/ TapDropped(t)
          PROVE Apart
      BY <2>6 DEF ResumeTap, ModelTap, StaleTap, TapDropped, memory
    <2>7. ASSUME NEW b \in fresh, TapArrives(b) \/ Expire(b) PROVE Apart
      BY <2>7 DEF TapArrives, Expire, memory
    <2>8. ASSUME NEW s \in Sessions, NewSession(s) \/ GrowOld(s) PROVE Apart
      BY <2>8 DEF NewSession, GrowOld, memory
    <2>9. CASE SessionMenu \/ ModelMenu \/ CapabilityMenu \/ ToggleVerbose
      BY <2>9 DEF SessionMenu, ModelMenu, CapabilityMenu, ToggleVerbose, memory
    <2>10. CASE Message \/ TurnEnds
      BY <2>10 DEF Message, TurnEnds, memory
    <2> QED
      BY <2>2, <2>3, <2>4, <2>5, <2>6, <2>7, <2>8, <2>9, <2>10 DEF Next, Command, HandleTap
  <1> QED
    BY <1>1, SettingsInvariance, PTL DEF Spec, OverridesStayApart

=============================================================================
