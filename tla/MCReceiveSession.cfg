SPECIFICATION SessionFairSpec
CONSTANTS
    MaxAccepts = 2
    MaxLosses = 2
INVARIANT StateCatchesUp
PROPERTIES LiveLinkKeepsItsOffer FirstOfferAnswered RefusalIsFinal
CHECK_DEADLOCK FALSE
