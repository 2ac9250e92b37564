SPECIFICATION Spec
CONSTANTS
    Run = {r1, r2}
    Rater = {a, b, c}
    coverage = coverage
    groundedness = groundedness
    Dimensions <- MCDimensions
    Answers <- MCAnswers
    Session = {s1, s2}
    MaxForms = 4
    None = None
SYMMETRY Symmetry
CHECK_DEADLOCK FALSE
INVARIANTS
    OneFormPerRater
    KappaMeasuresAgreement
    GateIsEarned
