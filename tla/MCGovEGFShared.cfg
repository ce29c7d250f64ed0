CONSTANTS
    app1 = app1
    app2 = app2
    Instances <- MCInstances
    Heights <- MCHeights
    DecPrecision = 100
    DepositDenoms <- MCDepositDenoms
    ParamChoices <- MCParamChoices

SPECIFICATION Spec

PROPERTY InstanceSeesOwnActivationHeight
