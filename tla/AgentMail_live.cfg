SPECIFICATION FairMailSpec
CONSTANTS
    a1 = a1
    a2 = a2
    r1 = r1
    r2 = r2
    c1 = c1
    c2 = c2
    m1 = m1
    m2 = m2
    k1 = k1
    k2 = k2
    p1 = p1
    NoAgent = NoAgent
    NoPayload = NoPayload
    NoRecord = NoRecord
    Agents <- MCAgents
    Roles <- MCRoles
    Grants <- MCGrants
    Clients <- MCClients
    TTL = 1
    MaxTime = 0
    Messages <- MCOneMessage
    Keys <- MCOneKey
    Payloads <- MCOnePayload
    To <- MCRoleMail
    Limit = 1
    WakeTimes = {}
    Outcomes = {}
    RetryDelay = 1
INVARIANT SuppressedMeansTaken
INVARIANT ClaimEvidence
PROPERTY ImplementsWork
PROPERTY MailSurfaces
