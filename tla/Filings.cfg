SPECIFICATION FilingSpec
CONSTANTS
    Records <- TwoRecords
    HasAddress <- OneFull
    HasWork <- OneFull
    HasKin <- OneFull
    OwnRecord = "full"
    MaxKin = 1
    MaxFlaws = 1
    MaxChoices = 2
    Cases <- TwoCases
    Agencies <- TwoAgencies
    PageOf <- OnePerPage
    MaxElsewhere = 2
    Mails <- TwoMails
    Taken <- OneMail
    MaxTyped = 4
INVARIANTS
    WalkedIsAccepted
    FiledForItsPerson
    SentIsUnreferred
    StatusIsOfTyped
CHECK_DEADLOCK FALSE
