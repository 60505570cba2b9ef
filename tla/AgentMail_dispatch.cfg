SPECIFICATION MailSpec
CONSTANTS
    a1 = a1
    a2 = a2
    r1 = r1
    r2 = r2
    c1 = c1
    c2 = c2
    m1 = m1
    m2 = m2
    k1 = k1
    k2 = k2
    p1 = p1
    NoAgent = NoAgent
    NoPayload = NoPayload
    NoRecord = NoRecord
    Agents <- MCOneAgent
    Roles <- MCOneRole
    Grants <- MCGrants
    Clients <- MCTwoClients
    TTL = 1
    MaxTime = 1
    Messages <- MCOneMessage
    Keys <- MCOneKey
    Payloads <- MCOnePayload
    To <- MCRoleMail
    Limit = 1
    WakeTimes = {1}
    Outcomes = {"Sent", "Failed"}
    RetryDelay = 1
INVARIANT PollComplete
INVARIANT EvidenceBacked
INVARIANT RetryGated
PROPERTY RetiredIsFinalOnceQuiet
SYMMETRY ClientSymmetry
