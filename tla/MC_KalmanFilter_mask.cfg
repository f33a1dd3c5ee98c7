\* The set of states filter() updates, against the documented mask.
CONSTANTS
    N = 3
    XV = {0, 1}
    PV = {0, 1}
SPECIFICATION Spec
PROPERTY SpecMask
