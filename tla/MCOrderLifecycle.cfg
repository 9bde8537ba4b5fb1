SPECIFICATION Spec
CONSTANT Sizes <- MCSizes
INVARIANTS TypeOK TrustIsForTerminal NeverOverfilled AssumedFilledIsComplete
PROPERTIES TrustedIsFinal OnlyBrokerUndoesFilled ImplementsTrust
