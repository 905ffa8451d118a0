SPECIFICATION FairSpec
CONSTANTS
    root = root
    intermediate = intermediate
    leaf = leaf
    Certificate <- MCCertificate
    Authority <- MCAuthority
    SignatoryOf <- MCSignatoryOf
    Call = {c1, c2}
    None = None
PROPERTIES
    OnlyLateAnswersMislead
    OnlyLateAnswersMisattribute
    OnlyLateListIsOutdated
    Settles
