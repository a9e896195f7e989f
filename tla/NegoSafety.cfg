SPECIFICATION FairSpec
INVARIANTS
    TypeOK
    SecurityNeedsTcp
    NoUnwantedDowngrade
    NegotiatedIsEnabled
    OneRequestPerConnection
    SecuredAsSelected
PROPERTY
    NegotiationEnds
