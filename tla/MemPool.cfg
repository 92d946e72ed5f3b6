CONSTANT Size = 4
SPECIFICATION Spec
INVARIANTS TypeOK WellFormed
PROPERTY AbstractPool
