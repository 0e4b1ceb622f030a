\* Every .env of MCEnvs, up to 2 commands killed; repeating `up` gets through.
CONSTANTS
    Envs <- MCEnvs
    Oddities <- MCOddities
    MaxKills = 2
SPECIFICATION FairSpec
INVARIANTS
    TypeOK
    RerunEndsAsUndisturbed
    LostIsRecoverable
    RetentionNotShortened
    GrafanaAsStarted
PROPERTY
    UpgradeEnds
