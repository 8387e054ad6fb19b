SPECIFICATION Spec
CONSTANTS
    Nodes <- MCNodes
    RuleOf <- MCRuleOf
    Inputs <- MCInputs
INVARIANTS
    NeverOverstated
    NothingLeftToRaise
PROPERTY EffectsSurface
CHECK_DEADLOCK FALSE
