\* One doctor after another while parts break and recover
SPECIFICATION Spec
CONSTANTS
    Deployments <- ThreeDeployments
    LoginLimit = 2
    ExchangeLimit = 2
    Grace = 4
    AnswerTime = 2
    MaxChanges = 2
    MaxOthers = 1
    MaxProbes = 1
INVARIANTS  NoFalseAlarm
