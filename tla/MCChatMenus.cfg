\* Two sessions, one model besides the default, one capability, two taps, a failed save, two restarts.
SPECIFICATION Spec
CONSTANTS
    Sessions = {"tg", "tg_new"}
    Home = "tg"
    Models = {"m1"}
    Capabilities = {"c1"}
    Defaults = {"c1"}
    Inherit = "default"
    MaxTaps = 2
    MaxFaults = 1
    MaxRestarts = 2

    
PROPERTIES
    OverridesStayApart
CHECK_DEADLOCK FALSE
