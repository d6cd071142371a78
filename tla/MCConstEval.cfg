SPECIFICATION Spec
CONSTANTS
    Names = {"a", "b", "F"}
    Exprs <- MCExprs
    Arguments <- MCArguments
    Bodies <- MCBodies
    MaxEnvs = 3
    IntBits = 3
    ByteBits = 2
INVARIANTS
    TypeOK
    ReturnsTheBinding
    ValuesAreCurrent
PROPERTIES
    BindingsStand
    ImplementsEnvironment
CHECK_DEADLOCK FALSE
