CONSTANTS
    t1 = t1  t2 = t2  c1 = c1  c2 = c2  c3 = c3  f1 = f1  f2 = f2
    Tabs = {t1, t2}
    Calls = {c1, c2, c3}
    TabOf <- TabsOfCalls
    Coded = {c3}
    Flights = {f1, f2}
    MaxLogins = 2
    MaxEvents = 2
SPECIFICATION FairSpec
CHECK_DEADLOCK FALSE
INVARIANTS
    OneLivePerLogin
    LogoutIsFinal
PROPERTIES
    LiveSessionKept
    RequestsSettle
