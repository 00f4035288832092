SPECIFICATION FairSpec
CONSTANTS
  Mails = {m1}
  CampaignOf <- OneCampaign
  Merged = {m1}
  Workers = {w1, w2}
  Callbacks = {r1, r2}
  BatchSize = 1
  Tries = 2
  MaxAttempts = 3
  MaxRequeues = 1
  NoMail = none
INVARIANTS TypeOK NoSilentDuplicate CalledBackStaysHome CalledBackIsADraft GivesUpAfterTries
PROPERTY EveryMailSettles
CHECK_DEADLOCK FALSE
