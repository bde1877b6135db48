SPECIFICATION Spec
CONSTANTS
    Devices = {d1}
    Sessions = {s1, s2}
    MaxEvents = 3
    None = None
INVARIANTS PushesStayPaired PushedOnce
