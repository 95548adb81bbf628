SPECIFICATION FairSpec
CONSTANTS
    d1 = d1
    d2 = d2
    chatA = chatA
    chatB = chatB
    slackC = slackC
    Nobody = Nobody
    Instances <- OneInstance
    Leads <- TwoLeads
    Destinations <- AllDestinations
    Routes <- ChatAndSlack
    Slack <- SlackChannels
    Healthy <- HealthyChats
    BatchSize = 2
    MaxAttempts = 2
    MaxFaults = 1
INVARIANTS
    NoLostWake
PROPERTIES
    EveryRowSettles
    HealthyDelivered
    KeepsPromise
