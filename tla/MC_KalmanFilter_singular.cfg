\* filter() on a singular innovation covariance.
CONSTANTS
    N = 3
    XV = {0, 1}
    PV = {0, 1}
SPECIFICATION Spec
PROPERTY FailureKeepsP
