SPECIFICATION Spec
CONSTANTS
    c1 = c1
    c2 = c2
    d = d
    Callers = {c1, c2}
    Cloners = {c1}
    Shared = d
    MaxFailures = 2
INVARIANTS TypeOK PanicsExplained TokensAgree LabelsAnswered
PROPERTIES ClientKept ClientRecovers
