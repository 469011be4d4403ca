SPECIFICATION Spec
CONSTANTS
    m = m
    w = w
    Threads = {m, w}
    Main = m
    Admins = {m}
    Proper = TRUE
    Builds = {TRUE, FALSE}
    Systems = {"fips", "plain", "broken"}
    Kinds = {"refuse", "anyway", "refusesignal", "fatal"}
    Outcomes = {TRUE, FALSE}
    Faults = {"error", "fatal"}
INVARIANT Sound
INVARIANT AbortJustified
INVARIANT ModeHonoured
PROPERTY FatalClosed
PROPERTY Returns
PROPERTY FatalDies
