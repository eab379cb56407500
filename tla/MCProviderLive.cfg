CONSTANTS
    Threads = {t1, t2}
    Providers = {p1, p2}
    Controls = {c1, c2}
    Dirs = {d1}
    None = None
    Busy = Busy
SPECIFICATION ReadySpec
PROPERTIES
    CallsEnd
