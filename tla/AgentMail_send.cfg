SPECIFICATION MailSpec
CONSTANTS
    a1 = a1
    a2 = a2
    r1 = r1
    r2 = r2
    c1 = c1
    c2 = c2
    m1 = m1
    m2 = m2
    k1 = k1
    k2 = k2
    p1 = p1
    NoAgent = NoAgent
    NoPayload = NoPayload
    NoRecord = NoRecord
    Agents <- MCOneAgent
    Roles <- MCRoles
    Grants <- MCGrants
    Clients <- MCClients
    TTL = 1
    MaxTime = 0
    Messages <- MCMessages
    Keys <- MCKeys
    Payloads <- MCOnePayload
    To <- MCWideMail
    Limit = 1
    WakeTimes = {}
    Outcomes = {}
    RetryDelay = 1
SYMMETRY SendSymmetry
INVARIANT CapacityRespected
INVARIANT DeliveredWasAccepted
