\* A quantum-vulnerable protocol gets a recommendation, as docs/11-migration-plan.md:91 says.
CONSTANT None = None
SPECIFICATION Spec
CHECK_DEADLOCK FALSE
INVARIANTS
  VulnerableProtocolMoves
