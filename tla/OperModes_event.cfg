CONSTANTS
    Nicks = {"alice"}
    Types = {"NetAdmin", "Helper"}
    Configs <- MCConfigs
SPECIFICATION Spec
INVARIANT EventMatchesMode
