SPECIFICATION Spec
CONSTANTS
    d1 = d1
    d2 = d2
    chatA = chatA
    chatB = chatB
    slackC = slackC
    Nobody = Nobody
    Instances <- TwoInstances
    Leads <- OneLead
    Destinations <- AllDestinations
    Routes <- ChatsOnly
    Slack <- SlackChannels
    Healthy <- NoDestination
    BatchSize = 2
    MaxAttempts = 2
    MaxFaults = 1
SYMMETRY Alike
INVARIANTS
    NoUnexplainedDuplicate
