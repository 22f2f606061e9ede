\* The owner's edits in two requests, one of which may show something to another.
CONSTANTS
    ada = ada
    lin = lin
    r1 = r1
    r2 = r2
    None = None
    Users = {ada, lin}
    Requests = {r1, r2}
    Named <- MCNamed
    Operations <- MCOperations
    Erasable = {ada}
SPECIFICATION Spec
INVARIANTS TypeOK PhotoIsWhole
PROPERTIES OnlyNamedChange HiddenStaysHidden
