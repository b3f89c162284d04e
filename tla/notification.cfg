SPECIFICATION FairSpec
CONSTANTS
    Deliveries = {d1, d2}
    Subjects = {ann, bob}
    Requester = ann
    Hire = hire
    MaxAttempts = 4
    MaxPasswords = 3
    MaxFaults = 2
INVARIANTS
    MailedOncePerFault
    SilenceIsRecorded
PROPERTIES
    NoticeArrives
CHECK_DEADLOCK FALSE
