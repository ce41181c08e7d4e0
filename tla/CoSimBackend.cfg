SPECIFICATION FairSpec
CONSTANTS
    f1 = f1  f2 = f2  f3 = f3  f4 = f4  p0 = p0  p1 = p1
    Fetch = {f1, f2, f3, f4}
    Partition = {p0, p1}
    partitionOf <- MCPartitionOf
    kindOf <- MCKindOf
    MaxOutstanding = 2
    MaxPending = 4
INVARIANTS OutstandingExact
PROPERTIES ImplementsService EventuallyAnswered
