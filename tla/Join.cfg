SPECIFICATION FairSpec
CONSTANTS
    Node = {n1, n2}
    Producer = Producer
    MaxEnds = 1
PROPERTIES NoIdleDeposit Joins
